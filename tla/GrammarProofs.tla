---------------------------- MODULE GrammarProofs ----------------------------
(***************************************************************************)
(* What the parser's descent does on every stream of tokens.               *)
(***************************************************************************)
EXTENDS ParsedStatement, Lemmas

-----------------------------------------------------------------------------
(* Streams.                                                                *)

LEMMA StreamFields ==
  ASSUME NEW s \in AnyStream
  PROVE  /\ s = [tokens |-> s.tokens, index |-> s.index, errors |-> s.errors]
         /\ s.tokens \in Seq(Token) /\ Len(s.tokens) \in Nat
         /\ s.index \in 0 .. Len(s.tokens) /\ s.errors \in Nat
         /\ s \in Ahead(s)
BY DEF AnyStream, Ahead

LEMMA AheadFields ==
  ASSUME NEW s \in AnyStream, NEW t \in Ahead(s)
  PROVE  /\ t \in AnyStream /\ t.tokens = s.tokens
         /\ t = [tokens |-> s.tokens, index |-> t.index, errors |-> t.errors]
         /\ t.index \in s.index .. Len(s.tokens) /\ t.errors \in Nat
BY StreamFields DEF AnyStream, Ahead

LEMMA AheadIsTransitive ==
  ASSUME NEW s \in AnyStream, NEW t \in Ahead(s), NEW u \in Ahead(t)
  PROVE  u \in Ahead(s)
BY StreamFields, AheadFields DEF Ahead

LEMMA KindHasMore ==
  ASSUME NEW s \in AnyStream, CurrentKind(s) # "none"
  PROVE  s.index < Len(s.tokens)
BY DEF CurrentKind, HasMoreTokens

\* There is a token to consume, and the stream behind it is ahead.
LEMMA ConsumeCurrentAhead ==
  ASSUME NEW s \in AnyStream, CurrentKind(s) # "none"
  PROVE  /\ ConsumeCurrent(s) \in Ahead(s) /\ ConsumeCurrent(s) \in AnyStream
         /\ ConsumeCurrent(s).index = s.index + 1
         /\ CurrentToken(s) \in Token /\ CurrentToken(s) = s.tokens[s.index + 1]
<1>1. s.index < Len(s.tokens)
  BY KindHasMore
<1>2. ConsumeCurrent(s) = [tokens |-> s.tokens, index |-> s.index + 1, errors |-> s.errors]
  BY StreamFields DEF ConsumeCurrent
<1>3. ConsumeCurrent(s) \in Ahead(s)
  BY <1>1, <1>2, StreamFields DEF Ahead
<1>4. s.tokens[s.index + 1] \in Token
  BY <1>1, StreamFields
<1> QED BY <1>2, <1>3, <1>4, AheadFields DEF CurrentToken

LEMMA ReportAhead ==
  ASSUME NEW s \in AnyStream
  PROVE  /\ Report(s) \in Ahead(s) /\ Report(s) \in AnyStream
         /\ CurrentKind(Report(s)) = CurrentKind(s)
<1>1. Report(s) = [tokens |-> s.tokens, index |-> s.index, errors |-> s.errors + 1]
  BY StreamFields DEF Report
<1>2. Report(s) \in Ahead(s)
  BY <1>1, StreamFields DEF Ahead
<1> QED BY <1>1, <1>2, AheadFields DEF CurrentKind, HasMoreTokens, CurrentToken

-----------------------------------------------------------------------------
(* The descent moves forward.                                              *)

\* What a loop returns, which may have nothing to do.
MovesOn(s, r) ==
  /\ r.stream \in Ahead(s)
  /\ r.tree # <<>> => r.tree = <<r.tree[1]>>

\* What is said of the functions of the descent at s.
Good(s) ==
  /\ MovesForward(s, ParseExpression(s))
  /\ \A lhs, precedence : MovesOn(s, ParseExpressionRhs(lhs, s, precedence))
  /\ \A arguments : ParseFunctionCallArguments(s, arguments).stream \in Ahead(s)

GoodBehind(s) == \A t \in Ahead(s) : t.index > s.index => Good(t)

\* Forward from t is forward from s.
LEMMA MovesForwardFrom ==
  ASSUME NEW s \in AnyStream, NEW t \in Ahead(s), NEW r, MovesForward(t, r)
  PROVE  MovesForward(s, r)
BY StreamFields, AheadFields, AheadIsTransitive DEF MovesForward

LEMMA GoodBehindThere ==
  ASSUME NEW s \in AnyStream, GoodBehind(s), NEW t \in Ahead(s)
  PROVE  GoodBehind(t)
BY StreamFields, AheadFields, AheadIsTransitive DEF GoodBehind

\* Behind a token the hypothesis speaks.
LEMMA GoodRest ==
  ASSUME NEW s \in AnyStream, GoodBehind(s), CurrentKind(s) # "none"
  PROVE  Good(ConsumeCurrent(s))
BY StreamFields, ConsumeCurrentAhead DEF GoodBehind

LEMMA ParsedForward ==
  ASSUME NEW s \in AnyStream, NEW t \in Ahead(s), t.index > s.index, NEW tree
  PROVE  MovesForward(s, Parsed(tree, t))
BY DEF MovesForward, Parsed

LEMMA FailedForward ==
  ASSUME NEW s \in AnyStream, NEW t \in Ahead(s)
  PROVE  MovesForward(s, Failed(t))
BY DEF MovesForward, Failed

\* A token of a kind and what is behind it.
LEMMA UnaryForward ==
  ASSUME NEW s \in AnyStream, Good(s), NEW operator
  PROVE  MovesForward(s, ParseUnaryExpression(operator, s))
<1> DEFINE r == ParseExpression(s)
<1>1. MovesForward(s, r)
  BY DEF Good
<1>2. ParseUnaryExpression(operator, s) =
        IF r.tree = <<>> THEN r ELSE Parsed(Unary(operator, r.tree[1]), r.stream)
  BY DEF ParseUnaryExpression, Then
<1> HIDE DEF r
<1> QED BY <1>1, <1>2, ParsedForward DEF MovesForward

\* A tree that must be followed by a token of a kind.
LEMMA ClosedForward ==
  ASSUME NEW s \in AnyStream, NEW t \in Ahead(s), NEW kind, kind # "none", NEW tree
  PROVE  MovesForward(s, IF CurrentKind(t) = kind THEN Parsed(tree, ConsumeCurrent(t))
                                                  ELSE Failed(t))
<1>1. CASE CurrentKind(t) = kind
  <2>1. t \in AnyStream /\ t.index \in s.index .. Len(s.tokens)
    BY AheadFields
  <2>2. ConsumeCurrent(t) \in Ahead(t) /\ ConsumeCurrent(t).index = t.index + 1
    BY <1>1, <2>1, ConsumeCurrentAhead
  <2>3. ConsumeCurrent(t) \in Ahead(s) /\ ConsumeCurrent(t).index > s.index
    BY <2>1, <2>2, AheadIsTransitive, StreamFields
  <2> QED BY <1>1, <2>3, ParsedForward
<1>2. CASE CurrentKind(t) # kind
  BY <1>2, FailedForward
<1> QED BY <1>1, <1>2

LEMMA ParenForward ==
  ASSUME NEW s \in AnyStream, Good(s)
  PROVE  /\ MovesForward(s, ParseParenExpression(s))
         /\ MovesForward(s, ParseArraySubscriptExpression(s))
<1> DEFINE r == ParseExpression(s)
<1>1. MovesForward(s, r)
  BY DEF Good
<1>2. ParseParenExpression(s) =
        IF r.tree = <<>> THEN r
        ELSE IF CurrentKind(r.stream) = "RParen"
               THEN Parsed(r.tree[1], ConsumeCurrent(r.stream))
               ELSE Failed(r.stream)
  BY DEF ParseParenExpression, Then, MustParse
<1>3. ParseArraySubscriptExpression(s) =
        IF r.tree = <<>> THEN r
        ELSE IF CurrentKind(r.stream) = "RSquare"
               THEN Parsed(Subscript(r.tree[1]), ConsumeCurrent(r.stream))
               ELSE Failed(r.stream)
  BY DEF ParseArraySubscriptExpression, Then, MustParse
<1> HIDE DEF r
<1>4. r.stream \in Ahead(s)
  BY <1>1 DEF MovesForward
<1> QED BY <1>1, <1>2, <1>3, <1>4, ClosedForward

LEMMA TernaryForward ==
  ASSUME NEW s \in AnyStream, Good(s), GoodBehind(s), NEW condition
  PROVE  MovesForward(s, ParseTernaryIfExpression(condition, s))
<1> DEFINE r == ParseExpression(s)
           t == ConsumeCurrent(r.stream)
           q == ParseExpression(t)
<1>1. MovesForward(s, r)
  BY DEF Good
<1>2. ParseTernaryIfExpression(condition, s) =
        IF r.tree = <<>> THEN r
        ELSE IF CurrentKind(r.stream) = "OP_TernaryElse"
               THEN IF q.tree = <<>> THEN q
                    ELSE Parsed(Ternary(condition, r.tree[1], q.tree[1]), q.stream)
               ELSE Failed(r.stream)
  BY DEF ParseTernaryIfExpression, Then, MustParse
<1>3. CASE r.tree # <<>> /\ CurrentKind(r.stream) = "OP_TernaryElse"
  <2>1. r.stream \in Ahead(s) /\ r.stream \in AnyStream /\ r.stream.index \in Nat
    BY <1>1, AheadFields, StreamFields DEF MovesForward
  <2>2. t \in Ahead(r.stream) /\ t.index = r.stream.index + 1 /\ Good(t)
    <3>1. GoodBehind(r.stream)
      BY <2>1, GoodBehindThere
    <3> QED BY <1>3, <2>1, <3>1, ConsumeCurrentAhead, GoodRest
  <2>3. t \in Ahead(s) /\ t \in AnyStream /\ t.index > s.index
    BY <2>1, <2>2, AheadIsTransitive, AheadFields, StreamFields
  <2>4. MovesForward(t, q)
    BY <2>2 DEF Good
  <2>5. MovesForward(s, q)
    BY <2>3, <2>4, MovesForwardFrom
  <2> HIDE DEF q, r, t
  <2> QED BY <1>2, <1>3, <2>5, ParsedForward DEF MovesForward
<1>4. CASE r.tree = <<>>
  BY <1>1, <1>2, <1>4
<1>5. CASE r.tree # <<>> /\ CurrentKind(r.stream) # "OP_TernaryElse"
  <2> HIDE DEF r
  <2> QED BY <1>1, <1>2, <1>5, FailedForward DEF MovesForward
<1> QED BY <1>3, <1>4, <1>5

LEMMA IntegerForward ==
  ASSUME NEW s \in AnyStream, CurrentKind(s) # "none"
  PROVE  MovesForward(s, ParseIntegerLiteral(s))
<1>1. /\ ConsumeCurrent(s) \in Ahead(s) /\ ConsumeCurrent(s).index = s.index + 1
      /\ s.index \in Nat
  BY ConsumeCurrentAhead, StreamFields
<1>2. ConsumeCurrent(Report(s)) \in Ahead(s)
  BY ReportAhead, ConsumeCurrentAhead, AheadIsTransitive
<1> QED BY <1>1, <1>2, ParsedForward, FailedForward DEF ParseIntegerLiteral

LEMMA CallForward ==
  ASSUME NEW s \in AnyStream, Good(s), NEW function
  PROVE  MovesForward(s, ParseFunctionCall(function, s))
<1> DEFINE r == ParseFunctionCallArguments(s, <<>>)
<1>1. r.stream \in Ahead(s)
  BY DEF Good
<1>2. ParseFunctionCall(function, s) =
        IF CurrentKind(r.stream) = "RParen"
          THEN Parsed(Call(function, r.arguments), ConsumeCurrent(r.stream))
          ELSE Failed(r.stream)
  BY DEF ParseFunctionCall, MustParse
<1> HIDE DEF r
<1> QED BY <1>1, <1>2, ClosedForward

\* The name of a function is behind s already.
LEMMA FunctionForward ==
  ASSUME NEW s \in AnyStream, GoodBehind(s), NEW function, CurrentKind(s) # "none"
  PROVE  MovesForward(s, ParseFunctionExpression(function, ConsumeCurrent(s)))
<1> DEFINE t == ConsumeCurrent(s)
<1>1. t \in Ahead(s) /\ t \in AnyStream /\ t.index > s.index
  BY ConsumeCurrentAhead, StreamFields
<1> HIDE DEF t
<1>2. CASE CurrentKind(t) = "LParen"
  <2>1. /\ ConsumeCurrent(t) \in Ahead(t) /\ ConsumeCurrent(t) \in AnyStream
        /\ Good(ConsumeCurrent(t))
    BY <1>1, <1>2, ConsumeCurrentAhead, GoodBehindThere, GoodRest
  <2>2. ConsumeCurrent(t) \in Ahead(s)
    BY <1>1, <2>1, AheadIsTransitive
  <2>3. MovesForward(s, ParseFunctionCall(function, ConsumeCurrent(t)))
    BY <2>1, <2>2, CallForward, MovesForwardFrom
  <2> QED BY <1>2, <2>3 DEF ParseFunctionExpression, t
<1>3. CASE CurrentKind(t) # "LParen"
  BY <1>1, <1>3, ParsedForward DEF ParseFunctionExpression, t
<1> QED BY <1>2, <1>3

LEMMA LhsForward ==
  ASSUME NEW s \in AnyStream, GoodBehind(s)
  PROVE  MovesForward(s, ParseExpressionLhs(s))
<1> DEFINE kind  == CurrentKind(s)
           token == CurrentToken(s)
           rest  == ConsumeCurrent(s)
<1>1. ParseExpressionLhs(s) =
        CASE kind \in UnaryOperator -> ParseUnaryExpression(kind, rest)
          [] kind = "LParen" -> ParseParenExpression(rest)
          [] kind = "LSquare" -> ParseArraySubscriptExpression(rest)
          [] kind = "IntegerLiteral" -> ParseIntegerLiteral(s)
          [] kind \in LiteralKind \ {"IntegerLiteral"} -> Parsed(Literal(token), rest)
          [] kind \in {"FunctionIdentifier", "BuiltIn"} -> ParseFunctionExpression(token, rest)
          [] kind = "VariableIdentifier" -> Parsed(Variable(token), rest)
          [] kind = "Macro" -> Parsed(Macro(token), rest)
          [] OTHER -> Failed(s)
  BY DEF ParseExpressionLhs, IsUnaryOperator
<1> HIDE DEF kind, token, rest
<1>2. CASE kind = "none"
  <2>1. ParseExpressionLhs(s) = Failed(s)
    BY <1>1, <1>2 DEF UnaryOperator, LiteralKind
  <2> QED BY <2>1, StreamFields, FailedForward
<1>3. CASE kind # "none"
  <2>1. rest \in Ahead(s) /\ rest \in AnyStream /\ rest.index > s.index /\ Good(rest)
    BY <1>3, ConsumeCurrentAhead, StreamFields, GoodRest DEF rest, kind
  <2>2. /\ MovesForward(s, ParseUnaryExpression(kind, rest))
        /\ MovesForward(s, ParseParenExpression(rest))
        /\ MovesForward(s, ParseArraySubscriptExpression(rest))
    BY <2>1, UnaryForward, ParenForward, MovesForwardFrom
  <2>3. MovesForward(s, ParseIntegerLiteral(s))
    BY <1>3, IntegerForward DEF kind
  <2>4. MovesForward(s, ParseFunctionExpression(token, rest))
    BY <1>3, FunctionForward DEF kind, rest
  <2>5. /\ MovesForward(s, Parsed(Literal(token), rest))
        /\ MovesForward(s, Parsed(Variable(token), rest))
        /\ MovesForward(s, Parsed(Macro(token), rest))
        /\ MovesForward(s, Failed(s))
    BY <2>1, StreamFields, ParsedForward, FailedForward
  <2> QED BY <1>1, <2>2, <2>3, <2>4, <2>5
<1> QED BY <1>2, <1>3

\* The loop over operators, without its continuations.
LEMMA RhsUnfolded ==
  ASSUME NEW s, NEW lhs, NEW precedence
  PROVE  LET operator == CurrentKind(s)
             rest     == ConsumeCurrent(s)
             r        == ParseExpressionLhs(rest)
             q        == WithTighterRhs(r.tree[1], operator, r.stream)
         IN  ExpressionRhsAt(lhs, s, precedence) =
               IF ~(operator \in BinaryOperator \/ operator = "OP_TernaryIf") THEN Parsed(lhs, s)
               ELSE IF Precedence(operator) < precedence THEN Parsed(lhs, rest)
               ELSE IF operator = "OP_TernaryIf" THEN ParseTernaryIfExpression(lhs, rest)
               ELSE IF r.tree = <<>> THEN r
               ELSE IF q.tree = <<>> THEN q
               ELSE ParseExpressionRhs(Binary(lhs, operator, q.tree[1]), q.stream, precedence)
<1> DEFINE operator == CurrentKind(s)
           rest     == ConsumeCurrent(s)
           r        == ParseExpressionLhs(rest)
           q        == WithTighterRhs(r.tree[1], operator, r.stream)
           loop     == ParseExpressionRhs(Binary(lhs, operator, q.tree[1]), q.stream, precedence)
           behind   == Then(q, LAMBDA rhs, u :
                         ParseExpressionRhs(Binary(lhs, operator, rhs), u, precedence))
           operand  == Then(r, LAMBDA e, t :
                         Then(WithTighterRhs(e, operator, t), LAMBDA rhs, u :
                           ParseExpressionRhs(Binary(lhs, operator, rhs), u, precedence)))
           goesOn   == operator \in BinaryOperator \/ operator = "OP_TernaryIf"
<1>1. behind = IF q.tree = <<>> THEN q ELSE loop
  BY DEF Then
<1>2. operand = IF r.tree = <<>> THEN r ELSE behind
  BY DEF Then
<1>3. CASE ~goesOn
  BY <1>3 DEF ExpressionRhsAt, IsBinaryOperator
<1>4. CASE goesOn /\ Precedence(operator) < precedence
  BY <1>4 DEF ExpressionRhsAt, IsBinaryOperator
<1>5. CASE goesOn /\ ~(Precedence(operator) < precedence) /\ operator = "OP_TernaryIf"
  BY <1>5 DEF ExpressionRhsAt
<1>6. CASE goesOn /\ ~(Precedence(operator) < precedence) /\ operator # "OP_TernaryIf"
  <2>1. ExpressionRhsAt(lhs, s, precedence) = operand
    BY <1>6 DEF ExpressionRhsAt, IsBinaryOperator
  <2> HIDE DEF operand, behind, loop, q, r, rest
  <2>2. ExpressionRhsAt(lhs, s, precedence) =
          IF r.tree = <<>> THEN r ELSE IF q.tree = <<>> THEN q ELSE loop
    BY <1>1, <1>2, <2>1
  <2> QED BY <1>6, <2>2 DEF loop, q, r, rest
<1> QED BY <1>3, <1>4, <1>5, <1>6

LEMMA RhsForward ==
  ASSUME NEW s \in AnyStream, GoodBehind(s), NEW lhs, NEW precedence
  PROVE  MovesOn(s, ExpressionRhsAt(lhs, s, precedence))
<1> DEFINE operator == CurrentKind(s)
           rest     == ConsumeCurrent(s)
           r        == ParseExpressionLhs(rest)
           q        == WithTighterRhs(r.tree[1], operator, r.stream)
           loop     == ParseExpressionRhs(Binary(lhs, operator, q.tree[1]), q.stream, precedence)
           goesOn   == operator \in BinaryOperator \/ operator = "OP_TernaryIf"
<1>1. ExpressionRhsAt(lhs, s, precedence) =
        IF ~goesOn THEN Parsed(lhs, s)
        ELSE IF Precedence(operator) < precedence THEN Parsed(lhs, rest)
        ELSE IF operator = "OP_TernaryIf" THEN ParseTernaryIfExpression(lhs, rest)
        ELSE IF r.tree = <<>> THEN r
        ELSE IF q.tree = <<>> THEN q
        ELSE loop
  BY RhsUnfolded
<1>2. CASE ~goesOn
  BY <1>1, <1>2, StreamFields DEF MovesOn, Parsed
<1>3. CASE goesOn
  <2>1. operator # "none"
    BY <1>3 DEF BinaryOperator, CompoundAssignment, Comparison
  <2>2. rest \in Ahead(s) /\ rest \in AnyStream /\ rest.index > s.index /\ Good(rest)
    BY <2>1, ConsumeCurrentAhead, StreamFields, GoodRest
  <2>3. GoodBehind(rest)
    BY <2>2, GoodBehindThere
  <2>4. MovesOn(s, Parsed(lhs, rest))
    BY <2>2 DEF MovesOn, Parsed
  <2>5. MovesOn(s, ParseTernaryIfExpression(lhs, rest))
    BY <2>2, <2>3, TernaryForward, MovesForwardFrom DEF MovesForward, MovesOn
  <2>6. MovesForward(s, r)
    BY <2>2, <2>3, LhsForward, MovesForwardFrom
  <2>7. MovesOn(s, r)
    BY <2>6 DEF MovesForward, MovesOn
  <2>8. CASE r.tree # <<>>
    <3>1. r.stream \in Ahead(s) /\ r.stream.index > s.index /\ r.stream \in AnyStream
      BY <2>6, <2>8, AheadFields DEF MovesForward
    <3>2. MovesOn(r.stream, q)
      <4>1. Good(r.stream)
        BY <3>1 DEF GoodBehind
      <4> HIDE DEF r
      <4> QED BY <3>1, <4>1, StreamFields DEF Good, MovesOn, Parsed, WithTighterRhs
    <3>3. q.stream \in Ahead(s) /\ q.stream.index > s.index /\ q.stream \in AnyStream
      <4> HIDE DEF r, q
      <4> QED BY <3>1, <3>2, AheadIsTransitive, AheadFields, StreamFields DEF MovesOn
    <3>4. MovesOn(s, q)
      BY <3>2, <3>3 DEF MovesOn
    <3>5. MovesOn(q.stream, loop)
      BY <3>3 DEF GoodBehind, Good
    <3>6. MovesOn(s, loop)
      <4> HIDE DEF q, loop
      <4> QED BY <3>3, <3>5, AheadIsTransitive DEF MovesOn
    <3> HIDE DEF operator, rest, r, q, loop
    <3> QED BY <1>1, <1>3, <2>4, <2>5, <2>8, <3>4, <3>6
  <2> HIDE DEF operator, rest, r, q, loop
  <2> QED BY <1>1, <1>3, <2>4, <2>5, <2>7, <2>8
<1> QED BY <1>2, <1>3

LEMMA ExpressionForward ==
  ASSUME NEW s \in AnyStream, GoodBehind(s)
  PROVE  MovesForward(s, ExpressionAt(s))
<1> DEFINE r == ParseExpressionLhs(s)
           q == ParseExpressionRhs(r.tree[1], r.stream, 0)
<1>1. ExpressionAt(s) = IF r.tree = <<>> THEN r ELSE q
  BY DEF ExpressionAt, Then
<1>2. MovesForward(s, r)
  BY LhsForward
<1>3. CASE r.tree # <<>>
  <2>1. r.stream \in Ahead(s) /\ r.stream.index > s.index /\ r.stream \in AnyStream
    BY <1>2, <1>3, AheadFields DEF MovesForward
  <2>2. MovesOn(r.stream, q)
    BY <2>1 DEF GoodBehind, Good
  <2> HIDE DEF r, q
  <2>3. q.stream \in Ahead(s) /\ q.stream.index > s.index
    BY <2>1, <2>2, AheadIsTransitive, AheadFields, StreamFields DEF MovesOn
  <2> QED BY <1>1, <1>3, <2>2, <2>3 DEF MovesOn, MovesForward
<1> HIDE DEF r, q
<1> QED BY <1>1, <1>2, <1>3

LEMMA ArgumentsForward ==
  ASSUME NEW s \in AnyStream, GoodBehind(s), MovesForward(s, ParseExpression(s)),
         NEW arguments
  PROVE  FunctionCallArgumentsAt(s, arguments).stream \in Ahead(s)
<1> DEFINE r == ParseExpression(s)
           t == IF CurrentKind(r.stream) = "Comma" THEN ConsumeCurrent(r.stream) ELSE r.stream
           loop == ParseFunctionCallArguments(t, arguments \o r.tree)
<1>1. FunctionCallArgumentsAt(s, arguments) =
        IF CurrentKind(s) \in {"RParen", "none"} THEN [arguments |-> arguments, stream |-> s]
        ELSE IF r.tree = <<>> THEN [arguments |-> <<>>, stream |-> r.stream]
        ELSE loop
  BY DEF FunctionCallArgumentsAt
<1>2. r.stream \in Ahead(s) /\ s \in Ahead(s)
  BY StreamFields DEF MovesForward
<1>3. CASE r.tree # <<>>
  <2>1. r.stream \in AnyStream /\ r.stream.index > s.index /\ r.stream \in Ahead(r.stream)
    BY <1>2, <1>3, AheadFields, StreamFields DEF MovesForward
  <2>2. t \in Ahead(r.stream)
    BY <2>1, ConsumeCurrentAhead
  <2>3. t \in Ahead(s) /\ t.index > s.index /\ t \in AnyStream
    BY <1>2, <2>1, <2>2, AheadIsTransitive, AheadFields, StreamFields
  <2>4. loop.stream \in Ahead(t)
    BY <2>3 DEF GoodBehind, Good
  <2> HIDE DEF r, t, loop
  <2>5. loop.stream \in Ahead(s)
    BY <2>3, <2>4, AheadIsTransitive
  <2> QED BY <1>1, <1>2, <1>3, <2>5
<1> HIDE DEF r, loop
<1> QED BY <1>1, <1>2, <1>3

\* By the number of tokens left.
LEMMA AllGood ==
  ASSUME ExpressionDescent
  PROVE  \A s \in AnyStream : Good(s)
<1> DEFINE Left(s) == Len(s.tokens) - s.index
           Bad     == {s \in AnyStream : ~Good(s)}
<1>1. \A s \in AnyStream : Left(s) \in Nat
  BY StreamFields
<1>2. SUFFICES ASSUME Bad # {} PROVE FALSE
  OBVIOUS
<1>3. PICK s \in Bad : \A t \in Bad : Left(s) <= Left(t)
  <2> DEFINE T == {Left(t) : t \in Bad}
  <2>1. T \in SUBSET Nat /\ T # {}
    BY <1>1, <1>2
  <2>2. PICK n \in T : \A m \in T : n <= m
    <3> HIDE DEF T
    <3> QED BY <2>1, NatLeast
  <2> QED BY <2>2
<1>4. s \in AnyStream /\ ~Good(s)
  BY <1>3
<1>5. GoodBehind(s)
  <2> SUFFICES ASSUME NEW t \in Ahead(s), t.index > s.index PROVE Good(t)
    BY DEF GoodBehind
  <2>1. t \in AnyStream /\ Left(t) < Left(s)
    BY <1>4, StreamFields, AheadFields
  <2>2. t \notin Bad
    BY <1>1, <1>3, <1>4, <2>1
  <2> QED BY <2>1, <2>2
<1>6. MovesForward(s, ParseExpression(s))
  BY <1>4, <1>5, ExpressionForward DEF ExpressionDescent
<1>7. \A lhs, precedence : MovesOn(s, ParseExpressionRhs(lhs, s, precedence))
  BY <1>4, <1>5, RhsForward DEF ExpressionDescent
<1>8. \A arguments : ParseFunctionCallArguments(s, arguments).stream \in Ahead(s)
  BY <1>4, <1>5, <1>6, ArgumentsForward DEF ExpressionDescent
<1> QED BY <1>4, <1>6, <1>7, <1>8 DEF Good

\* No expression is made of no token, and none is read past the end: the same
\* for each loop of the descent, which may stop where it is.
THEOREM ExpressionsMoveForward ==
  ASSUME ExpressionDescent
  PROVE  \A s \in AnyStream : MovesForward(s, ParseExpression(s))
BY AllGood DEF Good

-----------------------------------------------------------------------------
(* One call of ParseExpression.                                            *)

IInv ==
  /\ called \in {"ParseExpression", "ParseStatement", "ParseFunctionDefinition"}
  /\ stream \in AnyStream
  /\ ~parsed => trees = <<>>
  /\ Len(trees) <= 1
  /\ trees # <<>> => stream.index > 0

LEMMA StreamType ==
  ASSUME NEW tokens \in Seq(Token)
  PROVE  /\ Stream(tokens) \in AnyStream /\ Stream(tokens).tokens = tokens
         /\ Stream(tokens).index = 0 /\ Stream(tokens).errors = 0
BY DEF Stream, AnyStream

LEMMA InitOK == Init => IInv
<1> SUFFICES ASSUME Init PROVE IInv
  OBVIOUS
<1>1. stream \in AnyStream
  BY StreamType, SourceAssumption, WrittenAssumption DEF Init
<1>2. trees = <<>> /\ Len(trees) <= 1 /\ called = "ParseExpression"
  BY DEF Init
<1> QED BY <1>1, <1>2 DEF IInv

LEMMA ParseOK ==
  ASSUME ExpressionDescent, IInv, [Parse]_vars
  PROVE  IInv'
<1>1. CASE Parse
  <2> DEFINE r == ParseExpression(stream)
  <2>1. stream \in AnyStream
    BY DEF IInv
  <2>2. MovesForward(stream, r)
    BY <2>1, ExpressionsMoveForward
  <2>3. trees' = r.tree /\ stream' = r.stream /\ parsed' = TRUE /\ called' = called
    BY <1>1 DEF Parse, Returns
  <2> HIDE DEF r
  <2>4. r.stream \in AnyStream /\ stream.index \in Nat /\ r.stream.index \in Nat
    <3>1. r.stream \in AnyStream
      BY <2>1, <2>2, AheadFields DEF MovesForward
    <3> QED BY <2>1, <3>1, StreamFields
  <2>5. r.tree # <<>> => r.tree = <<r.tree[1]>> /\ r.stream.index > stream.index
    BY <2>2 DEF MovesForward
  <2>6. Len(r.tree) <= 1
    <3>1. CASE r.tree = <<>>
      BY <3>1
    <3>2. ASSUME NEW tree, r.tree = <<tree>> PROVE Len(r.tree) <= 1
      BY <3>2
    <3> QED BY <2>5, <3>1, <3>2, Zenon
  <2> QED BY <2>3, <2>4, <2>5, <2>6 DEF IInv
<1>2. CASE UNCHANGED vars
  BY <1>2 DEF vars, IInv
<1> QED BY <1>1, <1>2

\* However an expression is written, well or not, a call of ParseExpression stays
\* in the tokens and uses one when it returns something.
THEOREM TypeCorrect ==
  ASSUME ExpressionDescent
  PROVE  Spec => []TypeOK
<1>1. Init => IInv
  BY InitOK
<1>2. IInv /\ [Parse]_vars => IInv'
  BY ParseOK
<1>3. IInv => TypeOK
  BY StreamFields DEF IInv, TypeOK
<1> QED BY <1>1, <1>2, <1>3, PTL DEF Spec
-----------------------------------------------------------------------------
(* Statements and functions move forward.                                  *)

LEMMA FirstFrom ==
  ASSUME NEW m \in Nat, NEW n \in Nat, m <= n, NEW T \in SUBSET (m .. n), n \in T
  PROVE  \E i \in T : \A j \in m .. i - 1 : j \notin T
<1>1. PICK i \in T : \A j \in T : i <= j
  BY NatLeast
<1> QED BY <1>1

LEMMA ConsumeWhileAhead ==
  ASSUME NEW s \in AnyStream, NEW kinds
  PROVE  ConsumeWhile(kinds, s) \in Ahead(s)
<1> DEFINE n == Len(s.tokens)
           First(i) == /\ i < n => s.tokens[i + 1].kind \notin kinds
                       /\ \A j \in s.index + 1 .. i : ~(s.tokens[j].kind \notin kinds)
           T == {i \in s.index .. n : i < n => s.tokens[i + 1].kind \notin kinds}
<1>1. s.index \in Nat /\ n \in Nat /\ s.index <= n
  BY StreamFields
<1>2. PICK i \in T : \A j \in s.index .. i - 1 : j \notin T
  <2>1. n \in T /\ T \in SUBSET (s.index .. n)
    BY <1>1
  <2> HIDE DEF T
  <2> QED BY <1>1, <2>1, FirstFrom
<1>3. i \in s.index .. n /\ First(i)
  <2>1. ASSUME NEW j \in s.index + 1 .. i PROVE s.tokens[j].kind \in kinds
    <3>1. j - 1 \in s.index .. i - 1 /\ j - 1 + 1 = j /\ j - 1 < n /\ j - 1 \in s.index .. n
      BY <1>1
    <3>2. j - 1 \notin T
      BY <1>2, <3>1
    <3> QED BY <3>1, <3>2
  <2> QED BY <2>1
<1> DEFINE c == CHOOSE k \in s.index .. n : First(k)
<1>4. c \in s.index .. n
  <2> HIDE DEF First, n
  <2> QED BY <1>3
<1>5. ConsumeWhile(kinds, s) = [s EXCEPT !.index = c]
  BY DEF ConsumeWhile, ConsumeTo
<1> HIDE DEF c
<1> QED BY <1>1, <1>4, <1>5, StreamFields DEF Ahead

LEMMA SkipAhead ==
  ASSUME NEW s \in AnyStream
  PROVE  /\ ConsumeNewLineAndComments(s) \in Ahead(s)
         /\ ConsumeNewLineAndComments(s) \in AnyStream
BY ConsumeWhileAhead, AheadFields DEF ConsumeNewLineAndComments

\* t is ahead of s by some token.
Behind(s, t) == t \in Ahead(s) /\ t \in AnyStream /\ t.index > s.index

LEMMA RestBehind ==
  ASSUME NEW s \in AnyStream, CurrentKind(s) # "none"
  PROVE  Behind(s, ConsumeCurrent(s)) /\ ConsumeCurrent(s) \in AnyStream
BY ConsumeCurrentAhead, StreamFields DEF Behind

LEMMA BehindOn ==
  ASSUME NEW s \in AnyStream, NEW t, Behind(s, t), NEW u \in Ahead(t)
  PROVE  Behind(s, u) /\ u \in AnyStream
BY AheadIsTransitive, AheadFields, StreamFields DEF Behind

LEMMA OnBehind ==
  ASSUME NEW s \in AnyStream, NEW t \in Ahead(s), NEW u, Behind(t, u)
  PROVE  Behind(s, u)
BY AheadIsTransitive, AheadFields, StreamFields DEF Behind

LEMMA ForwardStream ==
  ASSUME NEW s \in AnyStream, NEW r, MovesForward(s, r)
  PROVE  /\ r.stream \in Ahead(s) /\ r.stream \in AnyStream /\ MovesOn(s, r)
         /\ r.tree # <<>> => Behind(s, r.stream)
BY AheadFields DEF MovesForward, MovesOn, Behind

LEMMA OnStream ==
  ASSUME NEW s \in AnyStream, NEW r, MovesOn(s, r)
  PROVE  r.stream \in Ahead(s) /\ r.stream \in AnyStream
BY AheadFields DEF MovesOn

LEMMA BehindForward ==
  ASSUME NEW s \in AnyStream, NEW t, Behind(s, t), NEW r, MovesOn(t, r)
  PROVE  MovesForward(s, r) /\ MovesOn(s, r)
<1>1. Behind(s, r.stream)
  BY BehindOn DEF MovesOn
<1> QED BY <1>1 DEF Behind, MovesOn, MovesForward

LEMMA ParsedOn ==
  ASSUME NEW s \in AnyStream, NEW t \in Ahead(s), NEW tree
  PROVE  MovesOn(s, Parsed(tree, t)) /\ MovesOn(s, Failed(t))
BY DEF MovesOn, Parsed, Failed

\* What is said of the functions of the descent at s.
StatementGood(s) ==
  /\ MovesForward(s, ParseStatement(s))
  /\ \A ends, statements : MovesOn(s, ParseBody(ends, statements, s))
  /\ \A statements : MovesOn(s, ParseWhileBody(statements, s))
  /\ \A cases : MovesOn(s, ParseElseIfCases(cases, s))
  /\ \A specifiers : MovesForward(s, ParseSpecifiers(specifiers, s))
  /\ \A parameter :
       LET r == ParseParameterPart(parameter, s)
       IN  MovesOn(s, r) /\ (r.tree # <<>> => CurrentKind(r.stream) \in {"Comma", "RParen"})
  /\ \A parameters : MovesOn(s, ParseParameters(parameters, s))

StatementsGoodBehind(s) == \A t : Behind(s, t) => StatementGood(t)

LEMMA StatementsGoodThere ==
  ASSUME NEW s \in AnyStream, StatementsGoodBehind(s), NEW t \in Ahead(s)
  PROVE  StatementsGoodBehind(t)
BY OnBehind DEF StatementsGoodBehind

LEMMA SpecifiersForward ==
  ASSUME StatementDescent, NEW s \in AnyStream, StatementsGoodBehind(s), NEW specifiers
  PROVE  MovesForward(s, ParseSpecifiers(specifiers, s))
<1> DEFINE kind == CurrentKind(s)
           rest == ConsumeCurrent(s)
           v    == [name |-> CurrentToken(s).text, scope |-> ScopeOf(specifiers)]
           loop == ParseSpecifiers(specifiers \cup {kind}, rest)
<1>1. ParseSpecifiers(specifiers, s) =
        CASE kind = "none" -> Failed(s)
          [] kind = "VariableIdentifier" -> Parsed(v, rest)
          [] kind \in Specifier /\ ~Repeated(kind, specifiers) -> loop
          [] OTHER -> Failed(rest)
  BY DEF StatementDescent, SpecifiersAt
<1>2. CASE kind = "none"
  BY <1>1, <1>2, StreamFields, FailedForward DEF Specifier
<1>3. CASE kind # "none"
  <2>1. Behind(s, rest)
    BY <1>3, RestBehind
  <2>2. rest \in Ahead(s) /\ rest.index > s.index
    BY <2>1 DEF Behind
  <2>3. MovesOn(rest, loop)
    BY <2>1, ForwardStream DEF StatementsGoodBehind, StatementGood, Behind
  <2> HIDE DEF kind, rest, v, loop
  <2>4. MovesForward(s, loop)
    BY <2>1, <2>3, BehindForward
  <2> QED BY <1>1, <1>3, <2>2, <2>4, ParsedForward, FailedForward
<1> QED BY <1>2, <1>3

LEMMA AssignmentForward ==
  ASSUME ExpressionDescent, StatementDescent, NEW s \in AnyStream, StatementsGoodBehind(s)
  PROVE  MovesForward(s, ParseVariableAssignment(s))
<1> DEFINE v == ParseSpecifiers({}, s)
           t == v.stream
           r == ParseExpression(ConsumeCurrent(t))
<1>1. ParseVariableAssignment(s) =
        IF v.tree = <<>> THEN v
        ELSE IF CurrentKind(t) # "OP_Equals"
               THEN Parsed(VariableAssignment(v.tree[1].name, v.tree[1].scope, <<>>), t)
        ELSE IF r.tree = <<>> THEN r
        ELSE Parsed(VariableAssignment(v.tree[1].name, v.tree[1].scope, <<r.tree[1]>>), r.stream)
  BY DEF ParseVariableAssignment, Then
<1>2. MovesForward(s, v) /\ t \in Ahead(s) /\ t \in AnyStream
  BY SpecifiersForward, ForwardStream
<1>3. CASE v.tree # <<>> /\ CurrentKind(t) = "OP_Equals"
  <2>1. Behind(s, t)
    BY <1>2, <1>3, ForwardStream
  <2>2. Behind(s, ConsumeCurrent(t)) /\ ConsumeCurrent(t) \in AnyStream
    BY <1>2, <1>3, <2>1, ConsumeCurrentAhead, BehindOn
  <2>3. MovesForward(ConsumeCurrent(t), r)
    BY <2>2, ExpressionsMoveForward
  <2>4. MovesForward(s, r)
    BY <2>2, <2>3, ForwardStream, BehindForward
  <2>5. r.tree # <<>> => r.stream \in Ahead(s) /\ r.stream.index > s.index
    BY <2>4 DEF MovesForward
  <2> HIDE DEF v, r
  <2> QED BY <1>1, <1>3, <2>4, <2>5, ParsedForward
<1>4. CASE v.tree = <<>>
  BY <1>1, <1>2, <1>4
<1>5. CASE v.tree # <<>> /\ CurrentKind(t) # "OP_Equals"
  <2>1. t \in Ahead(s) /\ t.index > s.index
    BY <1>2, <1>5 DEF MovesForward
  <2> HIDE DEF v
  <2> QED BY <1>1, <1>5, <2>1, ParsedForward
<1> QED BY <1>3, <1>4, <1>5

LEMMA ExpressionStatementForward ==
  ASSUME ExpressionDescent, NEW s \in AnyStream
  PROVE  MovesForward(s, ParseExpressionStatement(s))
<1> DEFINE r == ParseExpression(s)
<1>1. ParseExpressionStatement(s) =
        IF r.tree = <<>> THEN r
        ELSE IF IsValidAsStatement(r.tree[1])
               THEN Parsed(ExpressionStatement(r.tree[1]), r.stream)
               ELSE Failed(r.stream)
  BY DEF ParseExpressionStatement, Then
<1>2. MovesForward(s, r)
  BY ExpressionsMoveForward
<1> HIDE DEF r
<1> QED BY <1>1, <1>2, ParsedForward, FailedForward DEF MovesForward

LEMMA ExitForward ==
  ASSUME ExpressionDescent, NEW s \in AnyStream
  PROVE  MovesOn(s, ParseExitStatement(s))
<1> DEFINE r == ParseExpression(s)
<1>1. r.stream \in Ahead(s)
  BY ExpressionsMoveForward DEF MovesForward
<1> QED BY <1>1, ParsedOn DEF ParseExitStatement

LEMMA WhileForward ==
  ASSUME ExpressionDescent, NEW s \in AnyStream, StatementsGoodBehind(s)
  PROVE  MovesForward(s, ParseWhileStatement(s))
<1> DEFINE r == ParseExpression(s)
           b == ParseWhileBody(<<>>, r.stream)
<1>1. ParseWhileStatement(s) =
        IF r.tree = <<>> THEN r
        ELSE IF b.tree = <<>> THEN b
        ELSE IF CurrentKind(b.stream) = "KW_WEnd"
               THEN Parsed(WhileStatement(r.tree[1], b.tree[1]), ConsumeCurrent(b.stream))
               ELSE Failed(b.stream)
  BY DEF ParseWhileStatement, Then, MustParse
<1>2. MovesForward(s, r)
  BY ExpressionsMoveForward
<1>3. CASE r.tree = <<>>
  BY <1>1, <1>2, <1>3
<1>4. CASE r.tree # <<>>
  <2>1. Behind(s, r.stream)
    BY <1>2, <1>4, ForwardStream
  <2>2. MovesOn(r.stream, b)
    BY <2>1 DEF StatementsGoodBehind, StatementGood
  <2> HIDE DEF r, b
  <2>3. MovesForward(s, b)
    BY <2>1, <2>2, BehindForward
  <2>4. b.stream \in Ahead(s)
    BY <2>3 DEF MovesForward
  <2> QED BY <1>1, <1>4, <2>3, <2>4, ClosedForward
<1> QED BY <1>3, <1>4

\* The statements of an ElseIf or Else case.
LEMMA CaseForward ==
  ASSUME NEW s, StatementGood(s)
  PROVE  MovesOn(s, ParseIfCaseStatements(s)) /\ ParseIfCaseStatements(s).tree # <<>>
<1> DEFINE r == ParseBody(IfEnd, <<>>, s)
<1>1. MovesOn(s, r)
  BY DEF StatementGood
<1> QED BY <1>1 DEF ParseIfCaseStatements, Parsed, MovesOn

LEMMA ElseForward ==
  ASSUME NEW s \in AnyStream, StatementsGoodBehind(s)
  PROVE  MovesOn(s, ParseElseCase(s))
<1>1. CASE CurrentKind(s) # "KW_Else"
  BY <1>1, StreamFields, ParsedOn DEF ParseElseCase
<1>2. CASE CurrentKind(s) = "KW_Else"
  <2> DEFINE t == ConsumeNewLineAndComments(ConsumeCurrent(s))
  <2>1. Behind(s, t)
    BY <1>2, RestBehind, SkipAhead, BehindOn
  <2>2. MovesOn(t, ParseIfCaseStatements(t))
    BY <2>1, CaseForward DEF StatementsGoodBehind
  <2>3. ParseElseCase(s) = ParseIfCaseStatements(t)
    BY <1>2 DEF ParseElseCase
  <2> HIDE DEF t
  <2> QED BY <2>1, <2>2, <2>3, BehindForward
<1> QED BY <1>1, <1>2

LEMMA AfterThenAhead ==
  ASSUME NEW s \in AnyStream
  PROVE  AfterThen(s) \in Ahead(s) /\ AfterThen(s) \in AnyStream
<1> DEFINE t == IF CurrentKind(s) = "KW_Then" THEN ConsumeCurrent(s) ELSE s
<1>1. t \in Ahead(s) /\ t \in AnyStream
  BY ConsumeCurrentAhead, StreamFields
<1>2. ConsumeNewLineAndComments(t) \in Ahead(t) /\ ConsumeNewLineAndComments(t) \in AnyStream
  BY <1>1, SkipAhead
<1>3. AfterThen(s) = ConsumeNewLineAndComments(t)
  BY DEF AfterThen
<1> HIDE DEF t
<1> QED BY <1>1, <1>2, <1>3, AheadIsTransitive

\* The two functions of If, unfolded.
LEMMA ElseIfCasesUnfolded ==
  ASSUME StatementDescent, NEW s \in AnyStream, NEW cases
  PROVE  LET r == ParseExpression(ConsumeCurrent(s))
             b == ParseIfCaseStatements(AfterThen(r.stream))
         IN  ParseElseIfCases(cases, s) =
               IF CurrentKind(s) # "KW_ElseIf" THEN Parsed(cases, s)
               ELSE IF r.tree = <<>> THEN r
               ELSE IF b.tree = <<>> THEN b
               ELSE ParseElseIfCases(Append(cases, IfCase(r.tree[1], b.tree[1])), b.stream)
<1> DEFINE r == ParseExpression(ConsumeCurrent(s))
           b == ParseIfCaseStatements(AfterThen(r.stream))
<1>1. ParseElseIfCases(cases, s) = ElseIfCasesAt(cases, s)
  BY DEF StatementDescent
<1>2. CASE CurrentKind(s) # "KW_ElseIf"
  BY <1>1, <1>2 DEF ElseIfCasesAt
<1>3. CASE CurrentKind(s) = "KW_ElseIf" /\ r.tree = <<>>
  BY <1>1, <1>3 DEF ElseIfCasesAt, Then
<1>4. CASE CurrentKind(s) = "KW_ElseIf" /\ r.tree # <<>> /\ b.tree = <<>>
  BY <1>1, <1>4 DEF ElseIfCasesAt, Then
<1>5. CASE CurrentKind(s) = "KW_ElseIf" /\ r.tree # <<>> /\ b.tree # <<>>
  BY <1>1, <1>5 DEF ElseIfCasesAt, Then
<1> QED BY <1>2, <1>3, <1>4, <1>5

LEMMA IfCasesUnfolded ==
  ASSUME NEW condition, NEW s
  PROVE  LET b == ParseBody(IfEnd, <<>>, s)
             c == ParseElseIfCases(<<IfCase(condition, b.tree[1])>>, b.stream)
         IN  ParseIfCases(condition, s) =
               IF b.tree = <<>> THEN b
               ELSE IF c.tree = <<>> THEN c
               ELSE ParseIfEnd(c.tree[1], c.stream)
<1> DEFINE b == ParseBody(IfEnd, <<>>, s)
           c == ParseElseIfCases(<<IfCase(condition, b.tree[1])>>, b.stream)
<1>1. CASE b.tree = <<>>
  BY <1>1 DEF ParseIfCases, Then
<1>2. CASE b.tree # <<>> /\ c.tree = <<>>
  BY <1>2 DEF ParseIfCases, Then
<1>3. CASE b.tree # <<>> /\ c.tree # <<>>
  BY <1>3 DEF ParseIfCases, Then
<1> QED BY <1>1, <1>2, <1>3

LEMMA ElseIfForward ==
  ASSUME ExpressionDescent, StatementDescent, NEW s \in AnyStream, StatementsGoodBehind(s),
         NEW cases
  PROVE  MovesOn(s, ParseElseIfCases(cases, s))
<1> DEFINE r == ParseExpression(ConsumeCurrent(s))
           b == ParseIfCaseStatements(AfterThen(r.stream))
           loop == ParseElseIfCases(Append(cases, IfCase(r.tree[1], b.tree[1])), b.stream)
<1>1. ParseElseIfCases(cases, s) =
        IF CurrentKind(s) # "KW_ElseIf" THEN Parsed(cases, s)
        ELSE IF r.tree = <<>> THEN r
        ELSE IF b.tree = <<>> THEN b
        ELSE loop
  BY ElseIfCasesUnfolded
<1>2. CASE CurrentKind(s) # "KW_ElseIf"
  BY <1>1, <1>2, StreamFields, ParsedOn
<1>3. CASE CurrentKind(s) = "KW_ElseIf"
  <2>1. Behind(s, ConsumeCurrent(s)) /\ ConsumeCurrent(s) \in AnyStream
    BY <1>3, RestBehind
  <2>2. MovesOn(ConsumeCurrent(s), r) /\ r.stream \in Ahead(ConsumeCurrent(s))
    BY <2>1, ExpressionsMoveForward, ForwardStream
  <2>3. MovesOn(s, r) /\ Behind(s, r.stream)
    <3> HIDE DEF r
    <3> QED BY <2>1, <2>2, BehindForward, BehindOn
  <2>4. Behind(s, AfterThen(r.stream))
    <3> HIDE DEF r
    <3> QED BY <2>3, AfterThenAhead, BehindOn DEF Behind
  <2>5. MovesOn(AfterThen(r.stream), b)
    BY <2>4, CaseForward DEF StatementsGoodBehind
  <2>6. MovesOn(s, b) /\ Behind(s, b.stream)
    <3> HIDE DEF r, b
    <3> QED BY <2>4, <2>5, BehindForward, BehindOn DEF MovesOn
  <2>7. MovesOn(b.stream, loop)
    BY <2>6 DEF StatementsGoodBehind, StatementGood
  <2> HIDE DEF r, b, loop
  <2>8. MovesOn(s, loop)
    BY <2>6, <2>7, BehindForward
  <2> QED BY <1>1, <1>3, <2>3, <2>6, <2>8
<1> QED BY <1>2, <1>3

LEMMA IfEndForward ==
  ASSUME NEW s \in AnyStream, StatementsGoodBehind(s), NEW cases
  PROVE  MovesForward(s, ParseIfEnd(cases, s))
<1> DEFINE e == ParseElseCase(s)
<1>1. ParseIfEnd(cases, s) =
        IF e.tree = <<>> THEN e
        ELSE IF CurrentKind(e.stream) = "KW_EndIf"
               THEN Parsed(IfStatement(cases, e.tree[1]), ConsumeCurrent(e.stream))
               ELSE Failed(e.stream)
  BY DEF ParseIfEnd, Then, MustParse
<1>2. MovesOn(s, e)
  BY ElseForward
<1> HIDE DEF e
<1>3. CASE e.tree = <<>>
  BY <1>1, <1>2, <1>3 DEF MovesOn, MovesForward
<1>4. CASE e.tree # <<>>
  BY <1>1, <1>2, <1>4, ClosedForward DEF MovesOn
<1> QED BY <1>3, <1>4

LEMMA IfForward ==
  ASSUME ExpressionDescent, NEW s \in AnyStream, StatementsGoodBehind(s)
  PROVE  MovesForward(s, ParseIfStatement(s))
<1> DEFINE r == ParseExpression(s)
           t == ConsumeNewLineAndComments(ConsumeCurrent(r.stream))
           b == ParseBody(IfEnd, <<>>, t)
           c == ParseElseIfCases(<<IfCase(r.tree[1], b.tree[1])>>, b.stream)
           e == ParseIfEnd(c.tree[1], c.stream)
<1>1. ParseIfStatement(s) =
        IF r.tree = <<>> THEN r
        ELSE IF CurrentKind(r.stream) = "KW_Then" THEN ParseIfCases(r.tree[1], t)
        ELSE Failed(r.stream)
  BY DEF ParseIfStatement, Then, MustParse
<1>2. ParseIfCases(r.tree[1], t) =
        IF b.tree = <<>> THEN b ELSE IF c.tree = <<>> THEN c ELSE e
  BY IfCasesUnfolded
<1>3. MovesForward(s, r)
  BY ExpressionsMoveForward
<1>4. CASE r.tree = <<>>
  BY <1>1, <1>3, <1>4
<1>5. CASE r.tree # <<>> /\ CurrentKind(r.stream) = "KW_Then"
  <2>1. Behind(s, r.stream)
    BY <1>3, <1>5, ForwardStream
  <2>2. Behind(s, t)
    <3>1. ConsumeCurrent(r.stream) \in Ahead(r.stream)
      BY <1>5, <2>1, ConsumeCurrentAhead DEF Behind
    <3>2. Behind(s, ConsumeCurrent(r.stream)) /\ ConsumeCurrent(r.stream) \in AnyStream
      BY <2>1, <3>1, BehindOn
    <3> QED BY <3>2, SkipAhead, BehindOn
  <2>3. MovesOn(t, b)
    BY <2>2 DEF StatementsGoodBehind, StatementGood
  <2>4. MovesForward(s, b) /\ Behind(s, b.stream)
    <3> HIDE DEF t, b
    <3> QED BY <2>2, <2>3, BehindForward, BehindOn DEF MovesOn
  <2>5. MovesOn(b.stream, c)
    BY <2>4 DEF StatementsGoodBehind, StatementGood
  <2>6. MovesForward(s, c) /\ Behind(s, c.stream)
    <3> HIDE DEF b, c
    <3> QED BY <2>4, <2>5, BehindForward, BehindOn DEF MovesOn
  <2>7. MovesForward(c.stream, e)
    <3>1. c.stream \in Ahead(s) /\ c.stream \in AnyStream
      BY <2>6 DEF Behind
    <3>2. StatementsGoodBehind(c.stream)
      BY <3>1, StatementsGoodThere
    <3> QED BY <3>1, <3>2, IfEndForward
  <2> HIDE DEF r, t, b, c, e
  <2>8. MovesForward(s, e)
    BY <2>6, <2>7, ForwardStream, BehindForward DEF Behind
  <2> QED BY <1>1, <1>2, <1>5, <2>4, <2>6, <2>8
<1>6. CASE r.tree # <<>> /\ CurrentKind(r.stream) # "KW_Then"
  <2> HIDE DEF r
  <2> QED BY <1>1, <1>3, <1>6, FailedForward DEF MovesForward
<1> QED BY <1>4, <1>5, <1>6

LEMMA StatementForward ==
  ASSUME ExpressionDescent, StatementDescent, NEW s \in AnyStream, StatementsGoodBehind(s)
  PROVE  MovesForward(s, ParseStatement(s))
<1> DEFINE t    == ConsumeNewLineAndComments(s)
           kind == CurrentKind(t)
           rest == ConsumeCurrent(t)
<1>1. ParseStatement(s) =
        CASE kind = "none" -> Failed(t)
          [] kind \in Specifier \cup {"VariableIdentifier"} -> ParseVariableAssignment(t)
          [] kind = "KW_If" -> ParseIfStatement(rest)
          [] kind = "KW_While" -> ParseWhileStatement(rest)
          [] kind = "KW_Exit" -> ParseExitStatement(rest)
          [] OTHER -> ParseExpressionStatement(t)
  BY DEF StatementDescent, StatementOfKindAt
<1>2. t \in Ahead(s) /\ t \in AnyStream
  BY SkipAhead
<1>3. StatementsGoodBehind(t)
  BY <1>2, StatementsGoodThere
<1> HIDE DEF t
<1>4. CASE kind = "none"
  BY <1>1, <1>2, <1>4, FailedForward DEF Specifier
<1>5. CASE kind # "none"
  <2>1. /\ MovesForward(s, ParseVariableAssignment(t))
        /\ MovesForward(s, ParseExpressionStatement(t))
    BY <1>2, <1>3, AssignmentForward, ExpressionStatementForward, MovesForwardFrom
  <2>2. Behind(t, rest) /\ rest \in AnyStream /\ rest \in Ahead(t)
    BY <1>2, <1>5, RestBehind, ConsumeCurrentAhead
  <2>3. StatementsGoodBehind(rest)
    BY <1>2, <1>3, <2>2, StatementsGoodThere
  <2> HIDE DEF rest, kind
  <2>4. /\ MovesOn(rest, ParseIfStatement(rest)) /\ MovesOn(rest, ParseWhileStatement(rest))
        /\ MovesOn(rest, ParseExitStatement(rest))
    BY <2>2, <2>3, IfForward, WhileForward, ExitForward, ForwardStream
  <2>5. Behind(s, rest)
    BY <1>2, <2>2, OnBehind
  <2>6. /\ MovesForward(s, ParseIfStatement(rest)) /\ MovesForward(s, ParseWhileStatement(rest))
        /\ MovesForward(s, ParseExitStatement(rest))
    BY <2>4, <2>5, BehindForward
  <2> QED BY <1>1, <1>5, <2>1, <2>6
<1> QED BY <1>4, <1>5

LEMMA BodyForward ==
  ASSUME StatementDescent, NEW s \in AnyStream, StatementsGoodBehind(s),
         MovesForward(s, ParseStatement(s)), NEW ends, NEW statements
  PROVE  MovesOn(s, ParseBody(ends, statements, s))
<1> DEFINE r == ParseStatement(s)
           t == ConsumeNewLineAndComments(r.stream)
           loop == ParseBody(ends, Append(statements, r.tree[1]), t)
<1>1. ParseBody(ends, statements, s) =
        IF CurrentKind(s) \in ends \cup {"none"} THEN Parsed(statements, s)
        ELSE IF r.tree = <<>> THEN r
        ELSE loop
  BY DEF StatementDescent, BodyAt, Then
<1>2. MovesOn(s, r) /\ MovesOn(s, Parsed(statements, s))
  BY ForwardStream, StreamFields, ParsedOn
<1>3. CASE r.tree # <<>>
  <2>1. Behind(s, r.stream)
    BY <1>3, ForwardStream
  <2>2. Behind(s, t)
    BY <2>1, SkipAhead, BehindOn DEF Behind
  <2>3. MovesOn(t, loop)
    BY <2>2 DEF StatementsGoodBehind, StatementGood
  <2> HIDE DEF r, t, loop
  <2> QED BY <1>1, <1>2, <1>3, <2>2, <2>3, BehindForward
<1>4. CASE r.tree = <<>>
  BY <1>1, <1>2, <1>4
<1> QED BY <1>3, <1>4

LEMMA WhileBodyForward ==
  ASSUME StatementDescent, NEW s \in AnyStream, StatementsGoodBehind(s),
         MovesForward(s, ParseStatement(s)), NEW statements
  PROVE  MovesOn(s, ParseWhileBody(statements, s))
<1> DEFINE r == ParseStatement(s)
           loop == ParseWhileBody(Append(statements, r.tree[1]), r.stream)
<1>1. ParseWhileBody(statements, s) =
        IF CurrentKind(s) \in {"KW_WEnd", "none"} THEN Parsed(statements, s)
        ELSE IF r.tree = <<>> THEN r
        ELSE loop
  BY DEF StatementDescent, WhileBodyAt, Then
<1>2. MovesOn(s, r) /\ MovesOn(s, Parsed(statements, s))
  BY ForwardStream, StreamFields, ParsedOn
<1>3. CASE r.tree # <<>>
  <2>1. Behind(s, r.stream)
    BY <1>3, ForwardStream
  <2>2. MovesOn(r.stream, loop)
    BY <2>1 DEF StatementsGoodBehind, StatementGood
  <2> HIDE DEF r, loop
  <2> QED BY <1>1, <1>2, <1>3, <2>1, <2>2, BehindForward
<1>4. CASE r.tree = <<>>
  BY <1>1, <1>2, <1>4
<1> QED BY <1>3, <1>4

\* A parameter ends at a comma or a parenthesis, not only with its tokens.
EndsParameter(r) == r.tree # <<>> => CurrentKind(r.stream) \in {"Comma", "RParen"}

LEMMA ParameterPartForward ==
  ASSUME ExpressionDescent, StatementDescent, NEW s \in AnyStream, StatementsGoodBehind(s),
         NEW parameter
  PROVE  /\ MovesOn(s, ParseParameterPart(parameter, s))
         /\ EndsParameter(ParseParameterPart(parameter, s))
<1> DEFINE kind  == CurrentKind(s)
           rest  == ConsumeCurrent(s)
           r     == ParseExpression(rest)
           named == [parameter EXCEPT !.name = CurrentToken(s).text]
           init  == [parameter EXCEPT !.defaultInit =
                       Append(@, VariableAssignment(parameter.name, "Auto", <<r.tree[1]>>))]
           behindName == ParseParameterPart(named, rest)
           behindWord == ParseParameterPart(parameter, rest)
           behindInit == ParseParameterPart(init, r.stream)
           default == kind = "OP_Equals" /\ parameter.name # ""
<1>1. ParseParameterPart(parameter, s) =
        CASE kind = "VariableIdentifier" -> behindName
          [] kind \in {"KW_Const", "KW_ByRef"} -> behindWord
          [] default -> IF r.tree = <<>> THEN r ELSE behindInit
          [] kind \in {"Comma", "RParen"} -> Parsed(parameter, s)
          [] OTHER -> Failed(s)
  BY DEF StatementDescent, ParameterPartAt, Then
<1>2. /\ MovesOn(s, Parsed(parameter, s)) /\ MovesOn(s, Failed(s)) /\ EndsParameter(Failed(s))
      /\ kind \in {"Comma", "RParen"} => EndsParameter(Parsed(parameter, s))
  BY StreamFields, ParsedOn DEF EndsParameter, Parsed, Failed
<1>3. CASE kind \notin {"VariableIdentifier", "KW_Const", "KW_ByRef", "OP_Equals"}
  <2> HIDE DEF kind, behindName, behindWord, behindInit, r
  <2> QED BY <1>1, <1>2, <1>3
<1>4. CASE kind \in {"VariableIdentifier", "KW_Const", "KW_ByRef", "OP_Equals"}
  <2>1. Behind(s, rest) /\ rest \in AnyStream
    BY <1>4, RestBehind
  <2>2. /\ MovesOn(rest, behindName) /\ EndsParameter(behindName)
        /\ MovesOn(rest, behindWord) /\ EndsParameter(behindWord)
    BY <2>1 DEF StatementsGoodBehind, StatementGood, EndsParameter
  <2>3. MovesForward(rest, r)
    BY <2>1, ExpressionsMoveForward
  <2>4. MovesOn(s, r) /\ Behind(s, r.stream)
    <3> HIDE DEF r, rest
    <3> QED BY <2>1, <2>3, ForwardStream, BehindForward, BehindOn
  <2>5. MovesOn(r.stream, behindInit) /\ EndsParameter(behindInit)
    BY <2>4 DEF StatementsGoodBehind, StatementGood, EndsParameter
  <2> HIDE DEF rest, r, behindName, behindWord, behindInit
  <2>6. MovesOn(s, behindName) /\ MovesOn(s, behindWord) /\ MovesOn(s, behindInit)
    BY <2>1, <2>2, <2>4, <2>5, BehindForward
  <2>7. r.tree = <<>> => EndsParameter(r)
    BY DEF EndsParameter
  <2>8. CASE kind = "OP_Equals"
    <3>1. CASE ~default
      <4>1. ParseParameterPart(parameter, s) = Failed(s)
        BY <1>1, <2>8, <3>1
      <4> QED BY <1>2, <4>1
    <3>2. CASE default
      <4>1. ParseParameterPart(parameter, s) = IF r.tree = <<>> THEN r ELSE behindInit
        BY <1>1, <2>8, <3>2
      <4> QED BY <2>4, <2>5, <2>6, <2>7, <4>1
    <3> QED BY <3>1, <3>2
  <2>9. CASE kind # "OP_Equals"
    <3>1. ParseParameterPart(parameter, s) \in {behindName, behindWord}
      BY <1>1, <1>4, <2>9
    <3> QED BY <2>2, <2>6, <3>1
  <2> QED BY <2>8, <2>9
<1> QED BY <1>3, <1>4

LEMMA ParametersForward ==
  ASSUME ExpressionDescent, StatementDescent, NEW s \in AnyStream, StatementsGoodBehind(s),
         NEW parameters
  PROVE  MovesOn(s, ParseParameters(parameters, s))
<1> DEFINE r == ParseParameterPart([name |-> "", defaultInit |-> <<>>], s)
           t == IF CurrentKind(r.stream) = "Comma" THEN ConsumeCurrent(r.stream) ELSE r.stream
           loop == ParseParameters(Append(parameters, r.tree[1]), t)
<1>1. ParseParameters(parameters, s) =
        IF CurrentKind(s) \in {"RParen", "none"} THEN Parsed(parameters, s)
        ELSE IF r.tree = <<>> THEN r
        ELSE loop
  BY DEF StatementDescent, ParametersAt, Then
<1>2. MovesOn(s, r) /\ EndsParameter(r) /\ MovesOn(s, Parsed(parameters, s))
  BY ParameterPartForward, StreamFields, ParsedOn
<1> HIDE DEF r, loop
<1>3. CASE r.tree # <<>> /\ CurrentKind(s) \notin {"RParen", "none"}
  <2>1. r.stream \in Ahead(s) /\ r.stream \in AnyStream
    BY <1>2, OnStream
  <2>2. Behind(s, t)
    <3>1. CASE CurrentKind(r.stream) = "Comma"
      <4>1. Behind(r.stream, ConsumeCurrent(r.stream))
        BY <2>1, <3>1, RestBehind
      <4> QED BY <2>1, <3>1, <4>1, OnBehind
    <3>2. CASE CurrentKind(r.stream) = "RParen"
      <4>1. r.stream.index # s.index
        <5>1. r.stream.tokens = s.tokens
          BY <2>1, AheadFields
        <5> QED BY <1>3, <3>2, <5>1 DEF CurrentKind, CurrentToken, HasMoreTokens
      <4>2. r.stream.index > s.index
        BY <2>1, <4>1, AheadFields, StreamFields
      <4> QED BY <2>1, <3>2, <4>2 DEF Behind
    <3> QED BY <1>2, <1>3, <3>1, <3>2 DEF EndsParameter
  <2>3. MovesOn(t, loop)
    BY <2>2 DEF StatementsGoodBehind, StatementGood, loop
  <2> HIDE DEF t
  <2> QED BY <1>1, <1>3, <2>2, <2>3, BehindForward
<1>4. CASE r.tree = <<>> \/ CurrentKind(s) \in {"RParen", "none"}
  BY <1>1, <1>2, <1>4
<1> QED BY <1>3, <1>4

\* By the number of tokens left.
LEMMA AllStatementsGood ==
  ASSUME ExpressionDescent, StatementDescent
  PROVE  \A s \in AnyStream : StatementGood(s)
<1> DEFINE Left(s) == Len(s.tokens) - s.index
           Bad     == {s \in AnyStream : ~StatementGood(s)}
<1>1. \A s \in AnyStream : Left(s) \in Nat
  BY StreamFields
<1>2. SUFFICES ASSUME Bad # {} PROVE FALSE
  OBVIOUS
<1>3. PICK s \in Bad : \A t \in Bad : Left(s) <= Left(t)
  <2> DEFINE T == {Left(t) : t \in Bad}
  <2>1. T \in SUBSET Nat /\ T # {}
    BY <1>1, <1>2
  <2>2. PICK n \in T : \A m \in T : n <= m
    <3> HIDE DEF T
    <3> QED BY <2>1, NatLeast
  <2> QED BY <2>2
<1>4. s \in AnyStream /\ ~StatementGood(s)
  BY <1>3
<1>5. StatementsGoodBehind(s)
  <2> SUFFICES ASSUME NEW t, Behind(s, t) PROVE StatementGood(t)
    BY DEF StatementsGoodBehind
  <2>1. t \in AnyStream /\ Left(t) < Left(s)
    BY <1>4, StreamFields, AheadFields DEF Behind
  <2>2. t \notin Bad
    BY <1>1, <1>3, <1>4, <2>1
  <2> QED BY <2>1, <2>2
<1>6. MovesForward(s, ParseStatement(s))
  BY <1>4, <1>5, StatementForward
<1> QED BY <1>4, <1>5, <1>6, BodyForward, WhileBodyForward, ElseIfForward, SpecifiersForward,
           ParameterPartForward, ParametersForward DEF StatementGood, EndsParameter

LEMMA FunctionBodyForward ==
  ASSUME ExpressionDescent, StatementDescent, NEW s \in AnyStream, NEW name, NEW parameters
  PROVE  MovesForward(s, ParseFunctionBody(name, parameters, s))
<1> DEFINE b == ParseBody({"KW_EndFunc"}, <<>>, s)
<1>1. ParseFunctionBody(name, parameters, s) =
        IF b.tree = <<>> THEN b
        ELSE IF CurrentKind(b.stream) = "KW_EndFunc"
               THEN Parsed([name |-> name, parameters |-> parameters, body |-> b.tree[1]],
                           ConsumeCurrent(b.stream))
               ELSE Failed(b.stream)
  BY DEF ParseFunctionBody, Then, MustParse
<1>2. MovesOn(s, b)
  BY AllStatementsGood DEF StatementGood
<1> HIDE DEF b
<1>3. CASE b.tree = <<>>
  BY <1>1, <1>2, <1>3 DEF MovesOn, MovesForward
<1>4. CASE b.tree # <<>>
  BY <1>1, <1>2, <1>4, ClosedForward DEF MovesOn
<1> QED BY <1>3, <1>4

LEMMA FunctionDefinitionForward ==
  ASSUME ExpressionDescent, StatementDescent, NEW s \in AnyStream
  PROVE  MovesForward(s, ParseFunctionDefinition(s))
<1> DEFINE t == ConsumeCurrent(s)
           u == ConsumeCurrent(t)
           r == ParseParameters(<<>>, u)
           v == ConsumeCurrent(r.stream)
           w == ConsumeCurrent(v)
           b == ParseFunctionBody(CurrentToken(s).text, r.tree[1], w)
<1>1. ParseFunctionDefinition(s) =
        IF CurrentKind(s) # "FunctionIdentifier" THEN Failed(s)
        ELSE IF CurrentKind(t) # "LParen" THEN Failed(t)
        ELSE IF r.tree = <<>> THEN r
        ELSE IF CurrentKind(r.stream) # "RParen" THEN Failed(r.stream)
        ELSE IF CurrentKind(v) # "NewLine" THEN Failed(v)
        ELSE b
  BY DEF ParseFunctionDefinition, Then, MustParse
<1>2. CASE CurrentKind(s) # "FunctionIdentifier"
  BY <1>1, <1>2, StreamFields, FailedForward
<1>3. CASE CurrentKind(s) = "FunctionIdentifier"
  <2>1. Behind(s, t) /\ t \in AnyStream
    BY <1>3, RestBehind
  <2>2. MovesForward(s, Failed(t))
    BY <2>1, FailedForward DEF Behind
  <2>3. CASE CurrentKind(t) # "LParen"
    BY <1>1, <1>3, <2>2, <2>3
  <2>4. CASE CurrentKind(t) = "LParen"
    <3>1. Behind(s, u) /\ u \in AnyStream
      BY <2>1, <2>4, ConsumeCurrentAhead, BehindOn
    <3>2. MovesOn(u, r)
      BY <3>1, AllStatementsGood DEF StatementGood
    <3> HIDE DEF t, u, r
    <3>3. MovesForward(s, r) /\ Behind(s, r.stream) /\ r.stream \in AnyStream
      BY <3>1, <3>2, BehindForward, BehindOn DEF MovesOn
    <3>4. MovesForward(s, Failed(r.stream))
      BY <3>3, FailedForward DEF Behind
    <3>5. CASE r.tree = <<>> \/ CurrentKind(r.stream) # "RParen"
      BY <1>1, <1>3, <2>4, <3>3, <3>4, <3>5
    <3>6. CASE r.tree # <<>> /\ CurrentKind(r.stream) = "RParen"
      <4>1. Behind(s, v) /\ v \in AnyStream
        BY <3>3, <3>6, ConsumeCurrentAhead, BehindOn
      <4>2. MovesForward(s, Failed(v))
        BY <4>1, FailedForward DEF Behind
      <4>3. CASE CurrentKind(v) # "NewLine"
        BY <1>1, <1>3, <2>4, <3>6, <4>2, <4>3
      <4>4. CASE CurrentKind(v) = "NewLine"
        <5>1. Behind(s, w) /\ w \in AnyStream
          BY <4>1, <4>4, ConsumeCurrentAhead, BehindOn
        <5>2. MovesForward(w, b)
          BY <5>1, FunctionBodyForward
        <5> HIDE DEF v, w, b
        <5>3. MovesForward(s, b)
          BY <5>1, <5>2, ForwardStream, BehindForward
        <5> QED BY <1>1, <1>3, <2>4, <3>6, <4>4, <5>3
      <4> QED BY <4>3, <4>4
    <3> QED BY <3>5, <3>6
  <2> QED BY <2>3, <2>4
<1> QED BY <1>2, <1>3

\* What the parser's loop counts on: a statement or a function is some token,
\* and nothing is read past the end of the file.
THEOREM StatementsMoveForward ==
  ASSUME ExpressionDescent, StatementDescent
  PROVE  \A s \in AnyStream :
           MovesForward(s, ParseStatement(s)) /\ MovesForward(s, ParseFunctionDefinition(s))
BY AllStatementsGood, FunctionDefinitionForward DEF StatementGood

-----------------------------------------------------------------------------
(* Tokens that are at hand.                                                *)

\* The tokens from s on begin with those of w.
At(s, w) ==
  /\ s \in AnyStream /\ w \in Seq(Token)
  /\ s.index + Len(w) <= Len(s.tokens)
  /\ \A i \in 1 .. Len(w) : s.tokens[s.index + i] = w[i]

Skip(s, n) == [s EXCEPT !.index = @ + n]

LEMMA SkipType ==
  ASSUME NEW s, NEW w, At(s, w)
  PROVE  /\ Skip(s, Len(w)) \in AnyStream /\ Skip(s, Len(w)).tokens = s.tokens
         /\ Skip(s, Len(w)).index = s.index + Len(w)
         /\ Skip(s, Len(w)).errors = s.errors
<1>1. s \in AnyStream /\ Len(w) \in Nat /\ s.index + Len(w) <= Len(s.tokens)
  BY DEF At
<1>2. Skip(s, Len(w)) =
        [tokens |-> s.tokens, index |-> s.index + Len(w), errors |-> s.errors]
  BY <1>1, StreamFields DEF Skip
<1>3. s.index + Len(w) \in Nat
  BY <1>1, StreamFields
<1> QED BY <1>1, <1>2, <1>3, StreamFields DEF AnyStream

LEMMA SkipSkip ==
  ASSUME NEW s \in AnyStream, NEW m \in Nat, NEW n \in Nat
  PROVE  Skip(Skip(s, m), n) = Skip(s, m + n)
<1>1. s = [tokens |-> s.tokens, index |-> s.index, errors |-> s.errors] /\ s.index \in Nat
  BY StreamFields
<1>2. \A k \in Nat :
        Skip(s, k) = [tokens |-> s.tokens, index |-> s.index + k, errors |-> s.errors]
  BY <1>1 DEF Skip
<1> DEFINE t == [tokens |-> s.tokens, index |-> s.index + m, errors |-> s.errors]
<1>3. Skip(Skip(s, m), n) =
        [tokens |-> s.tokens, index |-> s.index + m + n, errors |-> s.errors]
  <2>1. Skip(s, m) = t
    BY <1>2
  <2>2. Skip(t, n) = [tokens |-> s.tokens, index |-> s.index + m + n, errors |-> s.errors]
    BY DEF Skip
  <2> HIDE DEF t
  <2> QED BY <2>1, <2>2
<1>4. s.index + m + n = s.index + (m + n) /\ m + n \in Nat
  BY <1>1
<1> QED BY <1>2, <1>3, <1>4

LEMMA AtConcat ==
  ASSUME NEW s, NEW v \in Seq(Token), NEW w \in Seq(Token), At(s, v \o w)
  PROVE  /\ At(s, v) /\ At(Skip(s, Len(v)), w)
         /\ Skip(Skip(s, Len(v)), Len(w)) = Skip(s, Len(v \o w))
<1>1. /\ s \in AnyStream /\ Len(v) \in Nat /\ Len(w) \in Nat /\ Len(v \o w) = Len(v) + Len(w)
      /\ s.index \in Nat /\ Len(s.tokens) \in Nat
      /\ s.index + (Len(v) + Len(w)) <= Len(s.tokens)
  BY StreamFields DEF At
<1>2. \A i \in 1 .. Len(v) : i \in 1 .. Len(v \o w) /\ (v \o w)[i] = v[i]
  BY <1>1
<1>3. At(s, v)
  <2>1. s.index + Len(v) <= Len(s.tokens)
    BY <1>1
  <2> QED BY <1>1, <1>2, <2>1 DEF At
<1>4. At(Skip(s, Len(v)), w)
  <2>1. /\ Skip(s, Len(v)) \in AnyStream /\ Skip(s, Len(v)).tokens = s.tokens
        /\ Skip(s, Len(v)).index = s.index + Len(v)
    BY <1>3, SkipType
  <2>2. ASSUME NEW i \in 1 .. Len(w) PROVE s.tokens[s.index + Len(v) + i] = w[i]
    <3>1. Len(v) + i \in 1 .. Len(v \o w) /\ (v \o w)[Len(v) + i] = w[i]
      BY <1>1
    <3>2. s.tokens[s.index + (Len(v) + i)] = w[i]
      BY <3>1 DEF At
    <3>3. s.index + (Len(v) + i) = s.index + Len(v) + i
      BY <1>1
    <3> QED BY <3>2, <3>3
  <2>3. s.index + Len(v) + Len(w) <= Len(s.tokens)
    BY <1>1
  <2> QED BY <2>1, <2>2, <2>3 DEF At
<1>5. Skip(Skip(s, Len(v)), Len(w)) = Skip(s, Len(v \o w))
  BY <1>1, SkipSkip
<1> QED BY <1>3, <1>4, <1>5

LEMMA AtOne ==
  ASSUME NEW s, NEW token \in Token, At(s, <<token>>)
  PROVE  /\ s \in AnyStream /\ CurrentToken(s) = token /\ CurrentKind(s) = token.kind
         /\ ConsumeCurrent(s) = Skip(s, 1)
<1>1. s \in AnyStream /\ s.index + 1 <= Len(s.tokens) /\ s.tokens[s.index + 1] = token
  BY DEF At
<1> QED BY <1>1, StreamFields DEF CurrentToken, CurrentKind, HasMoreTokens, ConsumeCurrent, Skip

\* A token and what is behind it.
LEMMA AtFirst ==
  ASSUME NEW s, NEW token \in Token, NEW w \in Seq(Token), At(s, <<token>> \o w)
  PROVE  /\ s \in AnyStream /\ CurrentToken(s) = token /\ CurrentKind(s) = token.kind
         /\ ConsumeCurrent(s) = Skip(s, 1)
         /\ At(ConsumeCurrent(s), w)
         /\ Skip(ConsumeCurrent(s), Len(w)) = Skip(s, Len(<<token>> \o w))
<1>1. <<token>> \in Seq(Token) /\ Len(<<token>>) = 1
  OBVIOUS
<1>2. /\ At(s, <<token>>) /\ At(Skip(s, 1), w)
      /\ Skip(Skip(s, 1), Len(w)) = Skip(s, Len(<<token>> \o w))
  BY <1>1, AtConcat
<1> QED BY <1>2, AtOne

\* A token behind what is before it.
LEMMA AtLast ==
  ASSUME NEW s, NEW token \in Token, NEW w \in Seq(Token), At(s, w \o <<token>>)
  PROVE  /\ At(s, w) /\ CurrentKind(Skip(s, Len(w))) = token.kind
         /\ ConsumeCurrent(Skip(s, Len(w))) = Skip(s, Len(w \o <<token>>))
<1>1. <<token>> \in Seq(Token) /\ Len(<<token>>) = 1
  OBVIOUS
<1>2. /\ At(s, w) /\ At(Skip(s, Len(w)), <<token>>)
      /\ Skip(Skip(s, Len(w)), 1) = Skip(s, Len(w \o <<token>>))
  BY <1>1, AtConcat
<1> QED BY <1>2, AtOne

\* Tokens between two others.
LEMMA AtEnclosed ==
  ASSUME NEW s, NEW open \in Token, NEW close \in Token, NEW w \in Seq(Token),
         At(s, <<open>> \o w \o <<close>>)
  PROVE  LET rest == ConsumeCurrent(s)
         IN  /\ s \in AnyStream /\ CurrentKind(s) = open.kind /\ CurrentToken(s) = open
             /\ At(rest, w) /\ CurrentKind(Skip(rest, Len(w))) = close.kind
             /\ ConsumeCurrent(Skip(rest, Len(w))) = Skip(s, Len(<<open>> \o w \o <<close>>))
<1>1. PICK closed \in Seq(Token) : closed = w \o <<close>>
  <2>1. w \o <<close>> \in Seq(Token)
    OBVIOUS
  <2> QED BY <2>1
<1>2. <<open>> \o w \o <<close>> = <<open>> \o closed
  BY <1>1
<1>3. At(s, <<open>> \o closed)
  BY <1>2
<1>4. /\ s \in AnyStream /\ CurrentKind(s) = open.kind /\ CurrentToken(s) = open
      /\ At(ConsumeCurrent(s), closed)
      /\ Skip(ConsumeCurrent(s), Len(closed)) = Skip(s, Len(<<open>> \o closed))
  BY <1>3, AtFirst
<1>5. At(ConsumeCurrent(s), w \o <<close>>)
  BY <1>1, <1>4
<1>6. /\ At(ConsumeCurrent(s), w)
      /\ CurrentKind(Skip(ConsumeCurrent(s), Len(w))) = close.kind
      /\ ConsumeCurrent(Skip(ConsumeCurrent(s), Len(w)))
           = Skip(ConsumeCurrent(s), Len(w \o <<close>>))
  BY <1>5, AtLast
<1>7. Skip(ConsumeCurrent(s), Len(w \o <<close>>)) = Skip(s, Len(<<open>> \o w \o <<close>>))
  BY <1>1, <1>2, <1>4
<1> QED BY <1>4, <1>6, <1>7

\* A token with tokens on both sides.
LEMMA AtBetween ==
  ASSUME NEW s, NEW v \in Seq(Token), NEW token \in Token, NEW w \in Seq(Token),
         At(s, v \o <<token>> \o w)
  PROVE  LET there == Skip(s, Len(v))
             rest  == ConsumeCurrent(there)
         IN  /\ At(s, v) /\ there \in AnyStream /\ CurrentKind(there) = token.kind
             /\ At(rest, w) /\ Skip(rest, Len(w)) = Skip(s, Len(v \o <<token>> \o w))
<1>1. PICK before \in Seq(Token) : before = v \o <<token>>
  <2>1. v \o <<token>> \in Seq(Token)
    OBVIOUS
  <2> QED BY <2>1
<1>2. At(s, before \o w)
  BY <1>1
<1>3. /\ At(s, before) /\ At(Skip(s, Len(before)), w)
      /\ Skip(Skip(s, Len(before)), Len(w)) = Skip(s, Len(before \o w))
  BY <1>2, AtConcat
<1>4. At(s, v \o <<token>>)
  BY <1>1, <1>3
<1>5. /\ At(s, v) /\ CurrentKind(Skip(s, Len(v))) = token.kind
      /\ ConsumeCurrent(Skip(s, Len(v))) = Skip(s, Len(v \o <<token>>))
  BY <1>4, AtLast
<1> QED BY <1>1, <1>3, <1>5, SkipType

-----------------------------------------------------------------------------
(* Trees and their tokens.                                                 *)

Compounds == Unaries \cup Binaries \cup Ternaries
Simple    == Atoms \cup Subscripts \cup Calls

LEMMA TreeKinds ==
  ASSUME NEW e \in Tree
  PROVE  e \in Compounds \cup Simple
BY TreeAssumption DEF Compounds, Simple

LEMMA CompoundOrNot ==
  /\ \A e \in Compounds : IsCompound(e)
  /\ \A e \in Simple : ~IsCompound(e)
BY DEF Compounds, Simple, Unaries, Binaries, Ternaries, Atoms, Subscripts, Calls, IsCompound

LEMMA TokType ==
  ASSUME NEW kind \in TokenKind, NEW text \in STRING
  PROVE  /\ Tok(kind, text) \in Token
         /\ Tok(kind, text).kind = kind /\ Tok(kind, text).text = text
BY DEF Tok, Token

LEMMA SignType ==
  ASSUME NEW kind \in TokenKind
  PROVE  Sign(kind) \in Token /\ Sign(kind).kind = kind
BY TokType, NoTextAssumption DEF Sign

\* Operators are kinds of tokens, and none of them opens or closes anything.
LEMMA OperatorKinds ==
  /\ UnaryOperator \subseteq TokenKind /\ BinaryOperator \subseteq TokenKind
  /\ \A kind \in {"RParen", "none", "LParen", "Comma", "LSquare", "RSquare", "OP_TernaryIf",
                  "OP_TernaryElse"} :
       kind \notin UnaryOperator /\ kind \notin BinaryOperator /\ kind \notin LiteralKind
BY DEF UnaryOperator, BinaryOperator, CompoundAssignment, Comparison, LiteralKind, TokenKind

LEMMA InParensType ==
  ASSUME NEW w \in Seq(Token)
  PROVE  InParens(w) \in Seq(Token)
<1>1. Sign("LParen") \in Token /\ Sign("RParen") \in Token
  BY SignType DEF TokenKind
<1> QED BY <1>1 DEF InParens

LEMMA WrittenType ==
  ASSUME NEW e \in Tree
  PROVE  Written(e) \in Seq(Token) /\ WrittenOperand(e) \in Seq(Token)
BY WrittenAssumption, InParensType DEF WrittenOperand

\* The shapes of the trees and how each is written.
LEMMA UnaryShape ==
  ASSUME NEW e \in Tree, e \in Unaries
  PROVE  /\ e = Unary(e.operator, e.expression)
         /\ e.operator \in UnaryOperator /\ e.expression \in Tree
         /\ Written(e) = <<Sign(e.operator)>> \o WrittenOperand(e.expression)
<1>1. /\ e.kind = "UnaryExpression" /\ e.operator \in UnaryOperator /\ e.expression \in Tree
      /\ e = Unary(e.operator, e.expression)
  BY DEF Unaries, Unary
<1>2. WrittenAs(e) = <<Sign(e.operator)>> \o WrittenOperand(e.expression)
  BY <1>1 DEF WrittenAs
<1> QED BY <1>1, <1>2, WrittenAssumption

LEMMA BinaryShape ==
  ASSUME NEW e \in Tree, e \in Binaries
  PROVE  /\ e = Binary(e.lhs, e.operator, e.rhs)
         /\ e.operator \in BinaryOperator /\ e.lhs \in Tree /\ e.rhs \in Tree
         /\ Written(e) = WrittenOperand(e.lhs) \o <<Sign(e.operator)>> \o WrittenOperand(e.rhs)
<1>1. /\ e.kind = "BinaryExpression" /\ e.operator \in BinaryOperator
      /\ e.lhs \in Tree /\ e.rhs \in Tree
      /\ e = Binary(e.lhs, e.operator, e.rhs)
  BY DEF Binaries, Binary
<1>2. WrittenAs(e) = WrittenOperand(e.lhs) \o <<Sign(e.operator)>> \o WrittenOperand(e.rhs)
  BY <1>1 DEF WrittenAs
<1> QED BY <1>1, <1>2, WrittenAssumption

LEMMA TernaryShape ==
  ASSUME NEW e \in Tree, e \in Ternaries
  PROVE  /\ e = Ternary(e.condition, e.ifTrue, e.ifFalse)
         /\ e.condition \in Tree /\ e.ifTrue \in Tree /\ e.ifFalse \in Tree
         /\ Written(e) =
              WrittenOperand(e.condition) \o <<Sign("OP_TernaryIf")>> \o Written(e.ifTrue)
                \o <<Sign("OP_TernaryElse")>> \o Written(e.ifFalse)
<1>1. /\ e.kind = "TernaryIfExpression"
      /\ e.condition \in Tree /\ e.ifTrue \in Tree /\ e.ifFalse \in Tree
      /\ e = Ternary(e.condition, e.ifTrue, e.ifFalse)
  BY DEF Ternaries, Ternary
<1>2. WrittenAs(e) =
        WrittenOperand(e.condition) \o <<Sign("OP_TernaryIf")>> \o Written(e.ifTrue)
          \o <<Sign("OP_TernaryElse")>> \o Written(e.ifFalse)
  BY <1>1 DEF WrittenAs
<1> QED BY <1>1, <1>2, WrittenAssumption

LEMMA SubscriptShape ==
  ASSUME NEW e \in Tree, e \in Subscripts
  PROVE  /\ e = Subscript(e.index) /\ e.index \in Tree
         /\ Written(e) = <<Sign("LSquare")>> \o Written(e.index) \o <<Sign("RSquare")>>
<1>1. /\ e.kind = "ArraySubscriptExpression" /\ e.index \in Tree /\ e = Subscript(e.index)
  BY DEF Subscripts, Subscript
<1>2. WrittenAs(e) = <<Sign("LSquare")>> \o Written(e.index) \o <<Sign("RSquare")>>
  BY <1>1 DEF WrittenAs
<1> QED BY <1>1, <1>2, WrittenAssumption

LEMMA CallShape ==
  ASSUME NEW e \in Tree, e \in Calls
  PROVE  /\ e = Call(FunctionToken(e), e.arguments) /\ e.arguments \in Seq(Tree)
         /\ FunctionToken(e) \in Token
         /\ FunctionToken(e).kind \in {"FunctionIdentifier", "BuiltIn"}
         /\ Written(e) = <<FunctionToken(e)>> \o InParens(WithCommas(e.arguments))
<1>1. /\ e.kind \in {"FunctionCall", "BuiltInCall"} /\ e.function \in STRING
      /\ e.arguments \in Seq(Tree)
      /\ e = [kind |-> e.kind, function |-> e.function, arguments |-> e.arguments]
  BY DEF Calls
<1>2. WrittenAs(e) = <<FunctionToken(e)>> \o InParens(WithCommas(e.arguments))
  BY <1>1 DEF WrittenAs
<1>3. /\ FunctionToken(e) \in Token /\ FunctionToken(e).text = e.function
      /\ FunctionToken(e).kind \in {"FunctionIdentifier", "BuiltIn"}
      /\ FunctionToken(e).kind = "BuiltIn" <=> e.kind = "BuiltInCall"
  <2>1. CASE e.kind = "BuiltInCall"
    BY <1>1, <2>1, TokType DEF FunctionToken, TokenKind
  <2>2. CASE e.kind = "FunctionCall"
    BY <1>1, <2>2, TokType DEF FunctionToken, TokenKind
  <2> QED BY <1>1, <2>1, <2>2
<1>4. Call(FunctionToken(e), e.arguments) = e
  BY <1>1, <1>3 DEF Call
<1> QED BY <1>1, <1>2, <1>3, <1>4, WrittenAssumption

\* An atom is one token.
AtomToken(e) == Written(e)[1]

LEMMA AtomShape ==
  ASSUME NEW e \in Tree, e \in Atoms
  PROVE  /\ AtomToken(e) \in Token /\ Written(e) = <<AtomToken(e)>>
         /\ \/ e = Literal(AtomToken(e)) /\ AtomToken(e) \in LiteralToken
            \/ e = Variable(AtomToken(e)) /\ AtomToken(e).kind = "VariableIdentifier"
            \/ e = Macro(AtomToken(e)) /\ AtomToken(e).kind = "Macro"
            \/ e = Reference(AtomToken(e)) /\ AtomToken(e).kind = "FunctionIdentifier"
<1>1. Written(e) = WrittenAs(e)
  BY WrittenAssumption
<1>2. CASE e \in [kind: {"Literal"}, value: LiteralToken]
  <2>1. e.kind = "Literal" /\ e.value \in LiteralToken /\ e = Literal(e.value)
    BY <1>2 DEF Literal
  <2>2. Written(e) = <<e.value>>
    BY <1>1, <2>1 DEF WrittenAs
  <2> QED BY <2>1, <2>2 DEF AtomToken, LiteralToken
<1>3. CASE e \in [kind: {"VariableExpression"}, name: STRING]
  <2>1. e.kind = "VariableExpression" /\ e.name \in STRING
    BY <1>3
  <2>2. Written(e) = <<Tok("VariableIdentifier", e.name)>>
    BY <1>1, <2>1 DEF WrittenAs
  <2>3. AtomToken(e) = Tok("VariableIdentifier", e.name)
    BY <2>2 DEF AtomToken
  <2>4. /\ Tok("VariableIdentifier", e.name) \in Token
        /\ Tok("VariableIdentifier", e.name).kind = "VariableIdentifier"
        /\ Tok("VariableIdentifier", e.name).text = e.name
    <3>1. "VariableIdentifier" \in TokenKind
      BY DEF TokenKind
    <3> QED BY <2>1, <3>1, TokType
  <2>5. e = Variable(AtomToken(e))
    BY <1>3, <2>3, <2>4 DEF Variable
  <2> QED BY <2>2, <2>3, <2>4, <2>5
<1>4. CASE e \in [kind: {"MacroExpression"}, macro: STRING]
  <2>1. e.kind = "MacroExpression" /\ e.macro \in STRING
    BY <1>4
  <2>2. Written(e) = <<Tok("Macro", e.macro)>>
    BY <1>1, <2>1 DEF WrittenAs
  <2>3. AtomToken(e) = Tok("Macro", e.macro)
    BY <2>2 DEF AtomToken
  <2>4. /\ Tok("Macro", e.macro) \in Token
        /\ Tok("Macro", e.macro).kind = "Macro"
        /\ Tok("Macro", e.macro).text = e.macro
    <3>1. "Macro" \in TokenKind
      BY DEF TokenKind
    <3> QED BY <2>1, <3>1, TokType
  <2>5. e = Macro(AtomToken(e))
    BY <1>4, <2>3, <2>4 DEF Macro
  <2> QED BY <2>2, <2>3, <2>4, <2>5
<1>5. CASE e \in [kind: {"FunctionReferenceExpression"}, function: STRING]
  <2>1. e.kind = "FunctionReferenceExpression" /\ e.function \in STRING
    BY <1>5
  <2>2. Written(e) = <<Tok("FunctionIdentifier", e.function)>>
    BY <1>1, <2>1 DEF WrittenAs, FunctionToken
  <2>3. AtomToken(e) = Tok("FunctionIdentifier", e.function)
    BY <2>2 DEF AtomToken
  <2>4. /\ Tok("FunctionIdentifier", e.function) \in Token
        /\ Tok("FunctionIdentifier", e.function).kind = "FunctionIdentifier"
        /\ Tok("FunctionIdentifier", e.function).text = e.function
    <3>1. "FunctionIdentifier" \in TokenKind
      BY DEF TokenKind
    <3> QED BY <2>1, <3>1, TokType
  <2>5. e = Reference(AtomToken(e))
    BY <1>5, <2>3, <2>4 DEF Reference
  <2> QED BY <2>2, <2>3, <2>4, <2>5
<1> QED BY <1>2, <1>3, <1>4, <1>5 DEF Atoms

-----------------------------------------------------------------------------
(* What is written is read back.                                           *)

\* Nothing that goes on with an expression, nor a call of the function before.
Ends(s) == CurrentKind(s) \notin BinaryOperator \cup {"OP_TernaryIf", "LParen"}

ReadsBack(e) ==
  \A s : At(s, Written(e)) /\ Ends(Skip(s, Len(Written(e)))) =>
           ParseExpression(s) = Parsed(e, Skip(s, Len(Written(e))))

ReadsOperand(e) ==
  \A s : /\ At(s, WrittenOperand(e))
         /\ CurrentKind(Skip(s, Len(WrittenOperand(e)))) # "LParen"
         => ParseExpressionLhs(s) = Parsed(e, Skip(s, Len(WrittenOperand(e))))

LEMMA ParsedFields ==
  ASSUME NEW tree, NEW s
  PROVE  /\ Parsed(tree, s).tree = <<tree>> /\ Parsed(tree, s).tree # <<>>
         /\ Parsed(tree, s).tree[1] = tree /\ Parsed(tree, s).stream = s
BY DEF Parsed

LEMMA ExpressionUnfolded ==
  ASSUME ExpressionDescent, NEW s \in AnyStream
  PROVE  LET r == ParseExpressionLhs(s)
         IN  ParseExpression(s) =
               IF r.tree = <<>> THEN r ELSE ParseExpressionRhs(r.tree[1], r.stream, 0)
<1>1. ParseExpression(s) = ExpressionAt(s)
  BY DEF ExpressionDescent
<1> QED BY <1>1 DEF ExpressionAt, Then

LEMMA PrecedenceType ==
  ASSUME NEW kind
  PROVE  Precedence(kind) \in Nat
BY DEF Precedence

LEMMA RhsEnds ==
  ASSUME ExpressionDescent, NEW s \in AnyStream, Ends(s), NEW lhs, NEW precedence
  PROVE  ParseExpressionRhs(lhs, s, precedence) = Parsed(lhs, s)
<1>1. ParseExpressionRhs(lhs, s, precedence) = ExpressionRhsAt(lhs, s, precedence)
  BY DEF ExpressionDescent
<1> QED BY <1>1, RhsUnfolded DEF Ends

\* An operand that nothing goes on with is an expression.
LEMMA OperandAlone ==
  ASSUME ExpressionDescent, NEW e \in Tree, ReadsOperand(e),
         NEW s, At(s, WrittenOperand(e)), Ends(Skip(s, Len(WrittenOperand(e))))
  PROVE  ParseExpression(s) = Parsed(e, Skip(s, Len(WrittenOperand(e))))
<1> DEFINE t == Skip(s, Len(WrittenOperand(e)))
<1>1. s \in AnyStream /\ t \in AnyStream
  BY SkipType DEF At
<1>2. ParseExpressionLhs(s) = Parsed(e, t)
  BY DEF ReadsOperand, Ends
<1>3. ParseExpressionRhs(e, t, 0) = Parsed(e, t)
  BY <1>1, RhsEnds
<1> QED BY <1>1, <1>2, <1>3, ExpressionUnfolded, ParsedFields

LEMMA SimpleReadsBack ==
  ASSUME ExpressionDescent, NEW e \in Tree, e \in Simple, ReadsOperand(e)
  PROVE  ReadsBack(e)
<1>1. WrittenOperand(e) = Written(e)
  BY CompoundOrNot DEF WrittenOperand
<1> QED BY <1>1, OperandAlone DEF ReadsBack

LEMMA CompoundReadsOperand ==
  ASSUME ExpressionDescent, NEW e \in Tree, e \in Compounds, ReadsBack(e)
  PROVE  ReadsOperand(e)
<1> DEFINE w == Written(e)
<1> SUFFICES ASSUME NEW s, At(s, WrittenOperand(e))
             PROVE  ParseExpressionLhs(s) = Parsed(e, Skip(s, Len(WrittenOperand(e))))
  BY DEF ReadsOperand
<1>1. /\ w \in Seq(Token) /\ Sign("LParen") \in Token /\ Sign("LParen").kind = "LParen"
      /\ Sign("RParen") \in Token /\ Sign("RParen").kind = "RParen"
  BY WrittenType, SignType DEF TokenKind
<1>2. WrittenOperand(e) = <<Sign("LParen")>> \o w \o <<Sign("RParen")>>
  BY CompoundOrNot DEF WrittenOperand, InParens
<1> HIDE DEF w
<1> DEFINE rest == ConsumeCurrent(s)
<1>3. At(s, <<Sign("LParen")>> \o w \o <<Sign("RParen")>>)
  BY <1>2
<1>4. /\ s \in AnyStream /\ CurrentKind(s) = "LParen"
      /\ At(rest, w) /\ CurrentKind(Skip(rest, Len(w))) = "RParen"
      /\ ConsumeCurrent(Skip(rest, Len(w))) = Skip(s, Len(WrittenOperand(e)))
  BY <1>1, <1>2, <1>3, AtEnclosed
<1>5. ParseExpression(rest) = Parsed(e, Skip(rest, Len(w)))
  BY <1>4, OperatorKinds DEF ReadsBack, Ends, w
<1>6. ParseParenExpression(rest) = Parsed(e, ConsumeCurrent(Skip(rest, Len(w))))
  <2>1. ParseParenExpression(rest) =
          IF ParseExpression(rest).tree = <<>> THEN ParseExpression(rest)
          ELSE IF CurrentKind(ParseExpression(rest).stream) = "RParen"
                 THEN Parsed(ParseExpression(rest).tree[1],
                             ConsumeCurrent(ParseExpression(rest).stream))
                 ELSE Failed(ParseExpression(rest).stream)
    BY DEF ParseParenExpression, Then, MustParse
  <2> HIDE DEF rest
  <2> QED BY <1>4, <1>5, <2>1, ParsedFields
<1>7. ParseExpressionLhs(s) = ParseParenExpression(rest)
  BY <1>4, OperatorKinds DEF ParseExpressionLhs, IsUnaryOperator
<1> QED BY <1>4, <1>6, <1>7

LEMMA AtomReadsOperand ==
  ASSUME NEW e \in Tree, e \in Atoms
  PROVE  ReadsOperand(e)
<1> SUFFICES ASSUME NEW s, At(s, WrittenOperand(e)),
                    CurrentKind(Skip(s, Len(WrittenOperand(e)))) # "LParen"
             PROVE  ParseExpressionLhs(s) = Parsed(e, Skip(s, Len(WrittenOperand(e))))
  BY DEF ReadsOperand
<1> DEFINE token == AtomToken(e)
<1>1. WrittenOperand(e) = <<token>> /\ token \in Token /\ Len(<<token>>) = 1
  BY AtomShape, CompoundOrNot DEF WrittenOperand, Simple
<1>2. /\ s \in AnyStream /\ CurrentToken(s) = token /\ CurrentKind(s) = token.kind
      /\ ConsumeCurrent(s) = Skip(s, 1)
  BY <1>1, AtOne
<1>3. CASE e = Literal(token) /\ token \in LiteralToken
  <2>1. /\ token.kind \in LiteralKind /\ token.kind \notin UnaryOperator
        /\ token.kind \notin {"LParen", "LSquare"}
        /\ token.kind = "IntegerLiteral" => token.text \notin TooLarge
    BY <1>3 DEF LiteralToken, LiteralKind, UnaryOperator
  <2>2. CASE token.kind = "IntegerLiteral"
    <3>1. ParseExpressionLhs(s) = ParseIntegerLiteral(s)
      BY <1>2, <2>1, <2>2 DEF ParseExpressionLhs, IsUnaryOperator
    <3> QED BY <1>1, <1>2, <1>3, <2>1, <2>2, <3>1 DEF ParseIntegerLiteral
  <2>3. CASE token.kind # "IntegerLiteral"
    BY <1>1, <1>2, <1>3, <2>1, <2>3
       DEF ParseExpressionLhs, IsUnaryOperator, LiteralKind
  <2> QED BY <2>2, <2>3
<1>4. CASE e = Variable(token) /\ token.kind = "VariableIdentifier"
  BY <1>1, <1>2, <1>4 DEF ParseExpressionLhs, IsUnaryOperator, UnaryOperator, LiteralKind
<1>5. CASE e = Macro(token) /\ token.kind = "Macro"
  BY <1>1, <1>2, <1>5 DEF ParseExpressionLhs, IsUnaryOperator, UnaryOperator, LiteralKind
<1>6. CASE e = Reference(token) /\ token.kind = "FunctionIdentifier"
  <2>1. ParseExpressionLhs(s) = ParseFunctionExpression(token, Skip(s, 1))
    BY <1>2, <1>6 DEF ParseExpressionLhs, IsUnaryOperator, UnaryOperator, LiteralKind
  <2> QED BY <1>1, <1>6, <2>1 DEF ParseFunctionExpression
<1> QED BY <1>3, <1>4, <1>5, <1>6, AtomShape

LEMMA SubscriptReadsOperand ==
  ASSUME ExpressionDescent, NEW e \in Tree, e \in Subscripts, ReadsBack(e.index)
  PROVE  ReadsOperand(e)
<1> SUFFICES ASSUME NEW s, At(s, WrittenOperand(e))
             PROVE  ParseExpressionLhs(s) = Parsed(e, Skip(s, Len(WrittenOperand(e))))
  BY DEF ReadsOperand
<1> DEFINE w == Written(e.index)
<1>0. e.index \in Tree /\ e = Subscript(e.index)
  BY SubscriptShape
<1>1. /\ w \in Seq(Token) /\ Sign("LSquare") \in Token /\ Sign("LSquare").kind = "LSquare"
      /\ Sign("RSquare") \in Token /\ Sign("RSquare").kind = "RSquare"
  BY <1>0, WrittenType, SignType DEF TokenKind
<1>2. WrittenOperand(e) = <<Sign("LSquare")>> \o w \o <<Sign("RSquare")>>
  BY SubscriptShape, CompoundOrNot DEF WrittenOperand, Simple
<1> HIDE DEF w
<1> DEFINE rest == ConsumeCurrent(s)
<1>3. At(s, <<Sign("LSquare")>> \o w \o <<Sign("RSquare")>>)
  BY <1>2
<1>4. /\ s \in AnyStream /\ CurrentKind(s) = "LSquare"
      /\ At(rest, w) /\ CurrentKind(Skip(rest, Len(w))) = "RSquare"
      /\ ConsumeCurrent(Skip(rest, Len(w))) = Skip(s, Len(WrittenOperand(e)))
  BY <1>1, <1>2, <1>3, AtEnclosed
<1>5. ParseExpression(rest) = Parsed(e.index, Skip(rest, Len(w)))
  BY <1>4, OperatorKinds DEF ReadsBack, Ends, w
<1>6. ParseArraySubscriptExpression(rest) = Parsed(e, ConsumeCurrent(Skip(rest, Len(w))))
  <2>1. ParseArraySubscriptExpression(rest) =
          IF ParseExpression(rest).tree = <<>> THEN ParseExpression(rest)
          ELSE IF CurrentKind(ParseExpression(rest).stream) = "RSquare"
                 THEN Parsed(Subscript(ParseExpression(rest).tree[1]),
                             ConsumeCurrent(ParseExpression(rest).stream))
                 ELSE Failed(ParseExpression(rest).stream)
    BY DEF ParseArraySubscriptExpression, Then, MustParse
  <2> HIDE DEF rest
  <2> QED BY <1>0, <1>4, <1>5, <2>1, ParsedFields
<1>7. ParseExpressionLhs(s) = ParseArraySubscriptExpression(rest)
  BY <1>4, OperatorKinds DEF ParseExpressionLhs, IsUnaryOperator
<1> QED BY <1>4, <1>6, <1>7

LEMMA UnaryReadsBack ==
  ASSUME ExpressionDescent, NEW e \in Tree, e \in Unaries, ReadsOperand(e.expression)
  PROVE  ReadsBack(e)
<1> DEFINE w == WrittenOperand(e.expression)
<1> SUFFICES ASSUME NEW s, At(s, Written(e)), Ends(Skip(s, Len(Written(e))))
             PROVE  ParseExpression(s) = Parsed(e, Skip(s, Len(Written(e))))
  BY DEF ReadsBack
<1>1. /\ e = Unary(e.operator, e.expression)
      /\ e.operator \in UnaryOperator /\ e.operator \in TokenKind /\ e.expression \in Tree
      /\ Written(e) = <<Sign(e.operator)>> \o w
  BY UnaryShape, OperatorKinds
<1>2. w \in Seq(Token) /\ Sign(e.operator) \in Token /\ Sign(e.operator).kind = e.operator
  BY <1>1, WrittenType, SignType
<1> DEFINE rest == ConsumeCurrent(s)
           end  == Skip(s, Len(Written(e)))
<1>3. /\ s \in AnyStream /\ CurrentKind(s) = e.operator
      /\ At(rest, w) /\ Skip(rest, Len(w)) = end /\ end \in AnyStream
  <2> HIDE DEF w
  <2>1. At(s, <<Sign(e.operator)>> \o w)
    BY <1>1
  <2> QED BY <1>1, <1>2, <2>1, AtFirst, SkipType
<1>4. ParseExpression(rest) = Parsed(e.expression, end)
  BY <1>1, <1>3, OperandAlone
<1>5. ParseExpressionLhs(s) = ParseUnaryExpression(e.operator, rest)
  BY <1>1, <1>3 DEF ParseExpressionLhs, IsUnaryOperator, UnaryOperator, LiteralKind
<1>6. ParseUnaryExpression(e.operator, rest) = Parsed(e, end)
  <2>1. ParseUnaryExpression(e.operator, rest) =
          IF ParseExpression(rest).tree = <<>> THEN ParseExpression(rest)
          ELSE Parsed(Unary(e.operator, ParseExpression(rest).tree[1]),
                      ParseExpression(rest).stream)
    BY DEF ParseUnaryExpression, Then
  <2> HIDE DEF rest, end
  <2> QED BY <1>1, <1>4, <2>1, ParsedFields
<1>7. ParseExpressionRhs(e, end, 0) = Parsed(e, end)
  BY <1>3, RhsEnds
<1> HIDE DEF rest, end
<1>8. ParseExpression(s) = Parsed(e, end)
  BY <1>3, <1>5, <1>6, <1>7, ExpressionUnfolded, ParsedFields
<1> QED BY <1>8 DEF end

\* What precedence climbing does behind an operand that nothing goes on with.
LEMMA NothingTighter ==
  ASSUME ExpressionDescent, NEW s \in AnyStream, Ends(s), NEW operand, NEW operator
  PROVE  WithTighterRhs(operand, operator, s) = Parsed(operand, s)
BY RhsEnds DEF WithTighterRhs

LEMMA BinaryReadsBack ==
  ASSUME ExpressionDescent, NEW e \in Tree, e \in Binaries,
         ReadsOperand(e.lhs), ReadsOperand(e.rhs)
  PROVE  ReadsBack(e)
<1> DEFINE v == WrittenOperand(e.lhs)
           w == WrittenOperand(e.rhs)
<1> SUFFICES ASSUME NEW s, At(s, Written(e)), Ends(Skip(s, Len(Written(e))))
             PROVE  ParseExpression(s) = Parsed(e, Skip(s, Len(Written(e))))
  BY DEF ReadsBack
<1>1. /\ e = Binary(e.lhs, e.operator, e.rhs)
      /\ e.operator \in BinaryOperator /\ e.operator \in TokenKind
      /\ e.operator \notin {"LParen", "OP_TernaryIf", "none"}
      /\ e.lhs \in Tree /\ e.rhs \in Tree
      /\ Written(e) = v \o <<Sign(e.operator)>> \o w
  BY BinaryShape, OperatorKinds
<1>2. /\ v \in Seq(Token) /\ w \in Seq(Token)
      /\ Sign(e.operator) \in Token /\ Sign(e.operator).kind = e.operator
  BY <1>1, WrittenType, SignType
<1> DEFINE there == Skip(s, Len(v))
           rest  == ConsumeCurrent(there)
           end   == Skip(s, Len(Written(e)))
<1>3. /\ s \in AnyStream /\ At(s, v) /\ there \in AnyStream
      /\ CurrentKind(there) = e.operator
      /\ At(rest, w) /\ Skip(rest, Len(w)) = end /\ end \in AnyStream
  <2> HIDE DEF v, w
  <2>1. At(s, v \o <<Sign(e.operator)>> \o w)
    BY <1>1
  <2>2. s \in AnyStream /\ end \in AnyStream
    BY SkipType DEF At
  <2> QED BY <1>1, <1>2, <2>1, <2>2, AtBetween
<1>4. ParseExpressionLhs(s) = Parsed(e.lhs, there)
  BY <1>1, <1>3 DEF ReadsOperand
<1>5. ParseExpressionLhs(rest) = Parsed(e.rhs, end)
  <2>1. CurrentKind(end) # "LParen"
    BY DEF Ends
  <2> QED BY <1>1, <1>3, <2>1 DEF ReadsOperand
<1>6. ParseExpressionRhs(e.lhs, there, 0) = Parsed(e, end)
  <2> DEFINE operand == ParseExpressionLhs(rest)
             rhs     == WithTighterRhs(operand.tree[1], e.operator, operand.stream)
  <2>1. ExpressionRhsAt(e.lhs, there, 0) =
          IF operand.tree = <<>> THEN operand
          ELSE IF rhs.tree = <<>> THEN rhs
          ELSE ParseExpressionRhs(Binary(e.lhs, e.operator, rhs.tree[1]), rhs.stream, 0)
    <3>1. ~(Precedence(e.operator) < 0)
      BY PrecedenceType
    <3> QED BY <1>1, <1>3, <3>1, RhsUnfolded
  <2> HIDE DEF there, rest, end
  <2>2. operand.tree # <<>> /\ operand.tree[1] = e.rhs /\ operand.stream = end
    BY <1>5, ParsedFields
  <2>3. rhs = Parsed(e.rhs, end)
    BY <1>3, <2>2, NothingTighter DEF end
  <2>4. ParseExpressionRhs(e, end, 0) = Parsed(e, end)
    BY <1>3, RhsEnds DEF end
  <2>5. ParseExpressionRhs(e.lhs, there, 0) = ExpressionRhsAt(e.lhs, there, 0)
    BY <1>3 DEF ExpressionDescent
  <2> HIDE DEF operand, rhs
  <2> QED BY <1>1, <2>1, <2>2, <2>3, <2>4, <2>5, ParsedFields
<1> HIDE DEF there, rest, end
<1>7. ParseExpression(s) = Parsed(e, end)
  BY <1>3, <1>4, <1>6, ExpressionUnfolded, ParsedFields
<1> QED BY <1>7 DEF end

LEMMA TernaryReadsBack ==
  ASSUME ExpressionDescent, NEW e \in Tree, e \in Ternaries,
         ReadsOperand(e.condition), ReadsBack(e.ifTrue), ReadsBack(e.ifFalse)
  PROVE  ReadsBack(e)
<1> DEFINE v == WrittenOperand(e.condition)
           w == Written(e.ifTrue)
           x == Written(e.ifFalse)
           question == Sign("OP_TernaryIf")
           colon    == Sign("OP_TernaryElse")
           before   == v \o <<question>> \o w
<1> SUFFICES ASSUME NEW s, At(s, Written(e)), Ends(Skip(s, Len(Written(e))))
             PROVE  ParseExpression(s) = Parsed(e, Skip(s, Len(Written(e))))
  BY DEF ReadsBack
<1>1. /\ e = Ternary(e.condition, e.ifTrue, e.ifFalse)
      /\ e.condition \in Tree /\ e.ifTrue \in Tree /\ e.ifFalse \in Tree
      /\ Written(e) = before \o <<colon>> \o x
  BY TernaryShape
<1>2. /\ question \in Token /\ question.kind = "OP_TernaryIf"
      /\ colon \in Token /\ colon.kind = "OP_TernaryElse"
  <2>1. "OP_TernaryIf" \in TokenKind /\ "OP_TernaryElse" \in TokenKind
    BY DEF TokenKind
  <2> QED BY <2>1, SignType
<1>3. v \in Seq(Token) /\ w \in Seq(Token) /\ x \in Seq(Token) /\ before \in Seq(Token)
  <2>1. v \in Seq(Token) /\ w \in Seq(Token) /\ x \in Seq(Token)
    BY <1>1, WrittenType
  <2> HIDE DEF v, w, x, question
  <2> QED BY <1>2, <2>1
<1> DEFINE asked     == Skip(s, Len(v))
           rest      == ConsumeCurrent(asked)
           otherwise == Skip(s, Len(before))
           last      == ConsumeCurrent(otherwise)
           end       == Skip(s, Len(Written(e)))
<1>4. /\ s \in AnyStream /\ end \in AnyStream /\ At(s, before)
      /\ CurrentKind(otherwise) = "OP_TernaryElse"
      /\ At(last, x) /\ Skip(last, Len(x)) = end
  <2>1. s \in AnyStream /\ end \in AnyStream
    BY SkipType DEF At
  <2>2. At(s, before \o <<colon>> \o x)
    BY <1>1
  <2> HIDE DEF before, x, colon
  <2> QED BY <1>1, <1>2, <1>3, <2>1, <2>2, AtBetween
<1>5. /\ At(s, v) /\ asked \in AnyStream /\ CurrentKind(asked) = "OP_TernaryIf"
      /\ At(rest, w) /\ Skip(rest, Len(w)) = otherwise
  <2>1. At(s, v \o <<question>> \o w)
    BY <1>4
  <2> HIDE DEF v, w, question
  <2> QED BY <1>2, <1>3, <2>1, AtBetween
<1>6. ParseExpressionLhs(s) = Parsed(e.condition, asked)
  BY <1>1, <1>5 DEF ReadsOperand
<1>7. ParseExpression(rest) = Parsed(e.ifTrue, otherwise)
  <2>1. Ends(otherwise)
    BY <1>4, OperatorKinds DEF Ends
  <2> QED BY <1>5, <2>1 DEF ReadsBack
<1>8. ParseExpression(last) = Parsed(e.ifFalse, end)
  BY <1>4 DEF ReadsBack
<1>9. ParseTernaryIfExpression(e.condition, rest) = Parsed(e, end)
  <2> DEFINE r == ParseExpression(rest)
             u == ConsumeCurrent(r.stream)
             q == ParseExpression(u)
  <2>1. ParseTernaryIfExpression(e.condition, rest) =
          IF r.tree = <<>> THEN r
          ELSE IF CurrentKind(r.stream) # "OP_TernaryElse" THEN Failed(r.stream)
          ELSE IF q.tree = <<>> THEN q
          ELSE Parsed(Ternary(e.condition, r.tree[1], q.tree[1]), q.stream)
    BY DEF ParseTernaryIfExpression, Then, MustParse
  <2> HIDE DEF rest, otherwise, end
  <2>2. r.tree # <<>> /\ r.tree[1] = e.ifTrue /\ r.stream = otherwise /\ u = last
    BY <1>7, ParsedFields
  <2>3. q.tree # <<>> /\ q.tree[1] = e.ifFalse /\ q.stream = end
    BY <1>8, <2>2, ParsedFields
  <2> HIDE DEF r, u, q
  <2> QED BY <1>1, <1>4, <2>1, <2>2, <2>3
<1>10. ParseExpressionRhs(e.condition, asked, 0) = Parsed(e, end)
  <2>1. ~(Precedence("OP_TernaryIf") < 0)
    BY PrecedenceType
  <2>2. ExpressionRhsAt(e.condition, asked, 0) = ParseTernaryIfExpression(e.condition, rest)
    BY <1>5, <2>1, RhsUnfolded
  <2>3. ParseExpressionRhs(e.condition, asked, 0) = ExpressionRhsAt(e.condition, asked, 0)
    BY <1>5 DEF ExpressionDescent
  <2> QED BY <1>9, <2>2, <2>3
<1> HIDE DEF asked, end
<1>11. ParseExpression(s) = Parsed(e, end)
  BY <1>4, <1>6, <1>10, ExpressionUnfolded, ParsedFields
<1> QED BY <1>11 DEF end

\* The arguments of a call as they are written, from the last one up.
LEMMA LastArgumentsAre ==
  ASSUME NEW arguments \in Seq(Tree)
  PROVE  LET last       == LastArguments(arguments)
             n          == Len(arguments)
             written(k) == Written(arguments[n - k + 1])
         IN  /\ n \in Nat /\ last[0] = <<>> /\ \A k \in 0 .. n : last[k] \in Seq(Token)
             /\ n > 0 => last[1] = written(1)
             /\ \A k \in 2 .. n : last[k] = written(k) \o <<Sign("Comma")>> \o last[k - 1]
<1> DEFINE n           == Len(arguments)
           last        == LastArguments(arguments)
           written(k)  == Written(arguments[n - k + 1])
           comma(k)    == IF k = 1 THEN <<>> ELSE <<Sign("Comma")>>
           With(k, ts) == written(k) \o comma(k) \o ts
           step        == [k \in 1 .. n |-> [ts \in Seq(Token) |-> With(k, ts)]]
<1>1. /\ n \in Nat /\ Sign("Comma") \in Token
      /\ \A k \in 1 .. n : written(k) \in Seq(Token) /\ comma(k) \in Seq(Token)
  <2>1. "Comma" \in TokenKind
    BY DEF TokenKind
  <2>2. Sign("Comma") \in Token
    BY <2>1, SignType
  <2>3. n \in Nat /\ \A k \in 1 .. n : arguments[n - k + 1] \in Tree
    OBVIOUS
  <2>4. \A k : comma(k) \in Seq(Token)
    BY <2>2
  <2> QED BY <2>2, <2>3, <2>4, WrittenType
<1>2. ASSUME NEW k \in 1 .. n, NEW ts \in Seq(Token) PROVE With(k, ts) \in Seq(Token)
  <2>1. written(k) \in Seq(Token) /\ comma(k) \in Seq(Token)
    BY <1>1
  <2> HIDE DEF written, comma
  <2> QED BY <2>1
<1>3. PICK g \in [0 .. n -> Seq(Token)] :
        g[0] = <<>> /\ \A k \in 1 .. n : g[k] = step[k][g[k - 1]]
  <2>1. step \in StepsUpto(n, Seq(Token))
    BY <1>2 DEF StepsUpto
  <2>2. <<>> \in Seq(Token)
    OBVIOUS
  <2> HIDE DEF n, step
  <2>3. PICK g \in Upto(n, Seq(Token)) : Follows(g, <<>>, step, n)
    BY <1>1, <2>1, <2>2, Recursion
  <2> QED BY <2>3 DEF Upto, Follows
<1>4. ASSUME NEW k \in 1 .. n PROVE g[k] = With(k, g[k - 1])
  <2> HIDE DEF With, n
  <2>1. k - 1 \in 0 .. n
    BY <1>1
  <2>2. g[k - 1] \in Seq(Token)
    BY <1>3, <2>1
  <2> QED BY <1>3, <2>2
<1>5. g = [k \in 0 .. n |->
             IF k = 0 THEN <<>>
             ELSE Written(arguments[n - k + 1])
                    \o (IF k = 1 THEN <<>> ELSE <<Sign("Comma")>>) \o g[k - 1]]
  <2>1. \A k \in 0 .. n : g[k] = IF k = 0 THEN <<>> ELSE With(k, g[k - 1])
    <3> HIDE DEF With, n
    <3>1. \A k \in 0 .. n : k # 0 => k \in 1 .. n
      BY <1>1
    <3> QED BY <1>3, <1>4, <3>1
  <2> QED BY <1>3, <2>1
<1>6. last = [k \in 0 .. n |-> IF k = 0 THEN <<>> ELSE With(k, last[k - 1])]
  BY <1>5, Zenon DEF LastArguments
<1> HIDE DEF last, n
<1>7. last[0] = <<>> /\ \A k \in 1 .. n : last[k] = With(k, last[k - 1])
  <2> HIDE DEF With
  <2> QED BY <1>1, <1>6
<1>8. \A k \in 0 .. n : last[k] \in Seq(Token)
  <2> DEFINE Bad == {k \in 0 .. n : last[k] \notin Seq(Token)}
  <2> SUFFICES ASSUME Bad # {} PROVE FALSE
    OBVIOUS
  <2>1. PICK k \in Bad : \A l \in Bad : k <= l
    <3>1. Bad \in SUBSET Nat
      BY <1>1
    <3> HIDE DEF Bad
    <3> QED BY <3>1, NatLeast
  <2>2. k # 0
    <3>1. <<>> \in Seq(Token)
      OBVIOUS
    <3> HIDE DEF With
    <3> QED BY <1>7, <2>1, <3>1
  <2>3. k \in 1 .. n /\ k - 1 \in 0 .. n /\ k - 1 \notin Bad
    BY <1>1, <2>1, <2>2
  <2>4. last[k - 1] \in Seq(Token)
    BY <2>3
  <2>5. last[k] \in Seq(Token)
    <3> HIDE DEF With
    <3> QED BY <1>2, <1>7, <2>3, <2>4
  <2> QED BY <2>1, <2>5
<1>9. n > 0 => last[1] = written(1)
  <2> SUFFICES ASSUME n > 0 PROVE last[1] = written(1)
    OBVIOUS
  <2>1. last[1] = With(1, last[0])
    <3> HIDE DEF With
    <3> QED BY <1>1, <1>7
  <2> HIDE DEF written
  <2>2. written(1) \in Seq(Token)
    BY <1>1
  <2>3. With(1, <<>>) = written(1) \o <<>> \o <<>>
    OBVIOUS
  <2>4. last[1] = With(1, <<>>)
    <3> HIDE DEF With
    <3> QED BY <1>7, <2>1
  <2> QED BY <2>2, <2>3, <2>4
<1>10. \A k \in 2 .. n : last[k] = written(k) \o <<Sign("Comma")>> \o last[k - 1]
  <2> SUFFICES ASSUME NEW k \in 2 .. n
               PROVE  last[k] = written(k) \o <<Sign("Comma")>> \o last[k - 1]
    OBVIOUS
  <2>1. last[k] = With(k, last[k - 1])
    <3>1. k \in 1 .. n
      BY <1>1
    <3> HIDE DEF With
    <3> QED BY <1>7, <3>1
  <2> HIDE DEF written
  <2>2. \A ts : With(k, ts) = written(k) \o <<Sign("Comma")>> \o ts
    <3>1. comma(k) = <<Sign("Comma")>>
      OBVIOUS
    <3> HIDE DEF comma
    <3> QED BY <3>1
  <2> HIDE DEF With
  <2> QED BY <2>1, <2>2
<1> HIDE DEF written
<1> QED BY <1>1, <1>7, <1>8, <1>9, <1>10 DEF last, n, written

\* Nothing is read where a list of arguments ends.
LEMMA NothingToRead ==
  ASSUME ExpressionDescent, NEW s \in AnyStream, CurrentKind(s) \in {"RParen", "none"}
  PROVE  ParseExpression(s).tree = <<>>
<1>1. ParseExpressionLhs(s) = Failed(s)
  BY DEF ParseExpressionLhs, IsUnaryOperator, UnaryOperator, LiteralKind
<1> QED BY <1>1, ExpressionUnfolded DEF Failed

\* One argument, the comma behind it, and the rest.
LEMMA ArgumentsUnfolded ==
  ASSUME ExpressionDescent, NEW s \in AnyStream, NEW arguments, NEW e, NEW t,
         ParseExpression(s) = Parsed(e, t)
  PROVE  ParseFunctionCallArguments(s, arguments) =
           ParseFunctionCallArguments(
             IF CurrentKind(t) = "Comma" THEN ConsumeCurrent(t) ELSE t, arguments \o <<e>>)
<1> DEFINE r == ParseExpression(s)
<1>1. ParseFunctionCallArguments(s, arguments) =
        IF CurrentKind(s) \in {"RParen", "none"} THEN [arguments |-> arguments, stream |-> s]
        ELSE IF r.tree = <<>> THEN [arguments |-> <<>>, stream |-> r.stream]
        ELSE ParseFunctionCallArguments(
               IF CurrentKind(r.stream) = "Comma" THEN ConsumeCurrent(r.stream) ELSE r.stream,
               arguments \o r.tree)
  BY DEF ExpressionDescent, FunctionCallArgumentsAt
<1>2. r.tree = <<e>> /\ r.tree # <<>> /\ r.stream = t
  BY ParsedFields
<1>3. CurrentKind(s) \notin {"RParen", "none"}
  BY <1>2, NothingToRead
<1> HIDE DEF r
<1> QED BY <1>1, <1>2, <1>3

\* The first m of the arguments are read, and the last k are at hand.
LastArgumentsReadBack(arguments, k) ==
  \A s :
    LET last == LastArguments(arguments)[k]
        end  == Skip(s, Len(last))
    IN  At(s, last) /\ CurrentKind(end) = "RParen" =>
          ParseFunctionCallArguments(s, SubSeq(arguments, 1, Len(arguments) - k))
            = [arguments |-> arguments, stream |-> end]

LEMMA OneMoreArgument ==
  ASSUME NEW arguments \in Seq(Tree), NEW k \in 1 .. Len(arguments)
  PROVE  LET n == Len(arguments)
         IN  /\ n - k + 1 \in 1 .. n
             /\ SubSeq(arguments, 1, n - k) \o <<arguments[n - k + 1]>>
                  = SubSeq(arguments, 1, n - (k - 1))
OBVIOUS

LEMMA NoArgumentLeft ==
  ASSUME ExpressionDescent, NEW arguments \in Seq(Tree)
  PROVE  LastArgumentsReadBack(arguments, 0)
<1>0. LastArguments(arguments)[0] = <<>> /\ Len(<<>>) = 0
  BY LastArgumentsAre
<1> SUFFICES ASSUME NEW s, At(s, <<>>), CurrentKind(Skip(s, 0)) = "RParen"
             PROVE  ParseFunctionCallArguments(s, SubSeq(arguments, 1, Len(arguments) - 0))
                      = [arguments |-> arguments, stream |-> Skip(s, 0)]
  BY <1>0 DEF LastArgumentsReadBack
<1>1. s \in AnyStream /\ Skip(s, 0) = s
  BY StreamFields DEF At, Skip
<1>2. SubSeq(arguments, 1, Len(arguments) - 0) = arguments
  OBVIOUS
<1> QED BY <1>1, <1>2 DEF ExpressionDescent, FunctionCallArgumentsAt

LEMMA LastArgumentLeft ==
  ASSUME ExpressionDescent, NEW arguments \in Seq(Tree), Len(arguments) > 0,
         ReadsBack(arguments[Len(arguments)])
  PROVE  LastArgumentsReadBack(arguments, 1)
<1> DEFINE n == Len(arguments)
           e == arguments[n]
           w == LastArguments(arguments)[1]
<1>1. n \in Nat /\ n - 1 + 1 = n /\ 1 \in 1 .. n
  OBVIOUS
<1>2. w = Written(e) /\ w \in Seq(Token) /\ LastArguments(arguments)[0] = <<>>
  <2>1. LastArguments(arguments)[1] = Written(arguments[n - 1 + 1])
    BY LastArgumentsAre
  <2>2. \A k \in 0 .. n : LastArguments(arguments)[k] \in Seq(Token)
    BY LastArgumentsAre
  <2>3. LastArguments(arguments)[0] = <<>>
    BY LastArgumentsAre
  <2> HIDE DEF n
  <2>4. 1 \in 0 .. n
    BY <1>1
  <2> QED BY <1>1, <2>1, <2>2, <2>3, <2>4
<1> HIDE DEF w
<1> SUFFICES ASSUME NEW s, At(s, w), CurrentKind(Skip(s, Len(w))) = "RParen"
             PROVE  ParseFunctionCallArguments(s, SubSeq(arguments, 1, n - 1))
                      = [arguments |-> arguments, stream |-> Skip(s, Len(w))]
  BY DEF LastArgumentsReadBack, w
<1> DEFINE end == Skip(s, Len(w))
<1>3. s \in AnyStream /\ end \in AnyStream
  BY SkipType DEF At
<1>4. ParseExpression(s) = Parsed(e, end)
  <2>1. Ends(end)
    BY OperatorKinds DEF Ends
  <2> QED BY <1>2, <2>1 DEF ReadsBack
<1>5. SubSeq(arguments, 1, n - 1) \o <<e>> = arguments
  <2>1. SubSeq(arguments, 1, n - 1) \o <<e>> = SubSeq(arguments, 1, n - (1 - 1))
    BY <1>1, OneMoreArgument
  <2>2. SubSeq(arguments, 1, n - (1 - 1)) = arguments
    OBVIOUS
  <2> QED BY <2>1, <2>2
<1> HIDE DEF end, e, n
<1>6. ParseFunctionCallArguments(s, SubSeq(arguments, 1, n - 1))
        = ParseFunctionCallArguments(end, arguments)
  <2>1. CurrentKind(end) # "Comma"
    BY DEF end
  <2>2. ParseFunctionCallArguments(s, SubSeq(arguments, 1, n - 1))
          = ParseFunctionCallArguments(
              IF CurrentKind(end) = "Comma" THEN ConsumeCurrent(end) ELSE end,
              SubSeq(arguments, 1, n - 1) \o <<e>>)
    BY <1>3, <1>4, ArgumentsUnfolded
  <2> QED BY <1>5, <2>1, <2>2
<1>7. ParseFunctionCallArguments(end, arguments) = [arguments |-> arguments, stream |-> end]
  <2>1. CurrentKind(end) = "RParen"
    BY DEF end
  <2> QED BY <1>3, <2>1 DEF ExpressionDescent, FunctionCallArgumentsAt
<1> QED BY <1>6, <1>7 DEF end

LEMMA MoreArgumentsLeft ==
  ASSUME ExpressionDescent, NEW arguments \in Seq(Tree), NEW k \in 2 .. Len(arguments),
         ReadsBack(arguments[Len(arguments) - k + 1]), LastArgumentsReadBack(arguments, k - 1)
  PROVE  LastArgumentsReadBack(arguments, k)
<1> DEFINE n == Len(arguments)
           e == arguments[n - k + 1]
           w == LastArguments(arguments)[k]
           x == LastArguments(arguments)[k - 1]
<1>1. n \in Nat /\ k \in 1 .. n /\ k \in 0 .. n /\ k - 1 \in 0 .. n /\ e \in Tree
  OBVIOUS
<1>2. w = Written(e) \o <<Sign("Comma")>> \o x /\ w \in Seq(Token) /\ x \in Seq(Token)
  BY <1>1, LastArgumentsAre
<1>3. Written(e) \in Seq(Token) /\ Sign("Comma") \in Token /\ Sign("Comma").kind = "Comma"
  <2>1. "Comma" \in TokenKind
    BY DEF TokenKind
  <2> QED BY <1>1, <2>1, WrittenType, SignType
<1> HIDE DEF w, x
<1> SUFFICES ASSUME NEW s, At(s, w), CurrentKind(Skip(s, Len(w))) = "RParen"
             PROVE  ParseFunctionCallArguments(s, SubSeq(arguments, 1, n - k))
                      = [arguments |-> arguments, stream |-> Skip(s, Len(w))]
  BY DEF LastArgumentsReadBack, w
<1> DEFINE there == Skip(s, Len(Written(e)))
           rest  == ConsumeCurrent(there)
           end   == Skip(s, Len(w))
<1>4. /\ At(s, Written(e)) /\ s \in AnyStream /\ there \in AnyStream
      /\ CurrentKind(there) = "Comma"
      /\ At(rest, x) /\ Skip(rest, Len(x)) = end
  <2>1. At(s, Written(e) \o <<Sign("Comma")>> \o x)
    BY <1>2
  <2>2. s \in AnyStream
    BY DEF At
  <2>3. Skip(s, Len(Written(e) \o <<Sign("Comma")>> \o x)) = end
    BY <1>2
  <2> HIDE DEF e, end
  <2> QED BY <1>2, <1>3, <2>1, <2>2, <2>3, AtBetween
<1>5. ParseExpression(s) = Parsed(e, there)
  <2>1. Ends(there)
    BY <1>4, OperatorKinds DEF Ends
  <2> QED BY <1>4, <2>1 DEF ReadsBack
<1>6. SubSeq(arguments, 1, n - k) \o <<e>> = SubSeq(arguments, 1, n - (k - 1))
  BY <1>1, OneMoreArgument
<1>7. CurrentKind(end) = "RParen"
  OBVIOUS
<1> HIDE DEF there, rest, end, e, n
<1>8. ParseFunctionCallArguments(s, SubSeq(arguments, 1, n - k))
        = ParseFunctionCallArguments(rest, SubSeq(arguments, 1, n - (k - 1)))
  <2>1. rest = ConsumeCurrent(there)
    BY DEF rest
  <2>2. ParseFunctionCallArguments(s, SubSeq(arguments, 1, n - k))
          = ParseFunctionCallArguments(
              IF CurrentKind(there) = "Comma" THEN ConsumeCurrent(there) ELSE there,
              SubSeq(arguments, 1, n - k) \o <<e>>)
    BY <1>4, <1>5, ArgumentsUnfolded
  <2> QED BY <1>4, <1>6, <2>1, <2>2
<1>9. ParseFunctionCallArguments(rest, SubSeq(arguments, 1, n - (k - 1)))
        = [arguments |-> arguments, stream |-> end]
  BY <1>4, <1>7 DEF LastArgumentsReadBack, x, n
<1> QED BY <1>8, <1>9 DEF end

\* By the number of arguments at hand.
LEMMA ArgumentsReadBack ==
  ASSUME ExpressionDescent, NEW arguments \in Seq(Tree),
         \A i \in 1 .. Len(arguments) : ReadsBack(arguments[i]),
         NEW s, At(s, WithCommas(arguments)),
         CurrentKind(Skip(s, Len(WithCommas(arguments)))) = "RParen"
  PROVE  ParseFunctionCallArguments(s, <<>>) =
           [arguments |-> arguments, stream |-> Skip(s, Len(WithCommas(arguments)))]
<1> DEFINE n   == Len(arguments)
           Bad == {k \in 0 .. n : ~LastArgumentsReadBack(arguments, k)}
<1>1. n \in Nat /\ n \in 0 .. n
  OBVIOUS
<1>2. Bad = {}
  <2> SUFFICES ASSUME Bad # {} PROVE FALSE
    OBVIOUS
  <2>1. PICK k \in Bad : \A l \in Bad : k <= l
    <3>1. Bad \in SUBSET Nat
      BY <1>1
    <3> HIDE DEF Bad
    <3> QED BY <3>1, NatLeast
  <2>2. k \in 0 .. n /\ ~LastArgumentsReadBack(arguments, k)
    BY <2>1
  <2>3. k # 0
    BY <2>2, NoArgumentLeft
  <2>4. k # 1
    <3> SUFFICES ASSUME k = 1 PROVE FALSE
      OBVIOUS
    <3>1. n > 0 /\ ReadsBack(arguments[n])
      BY <2>2
    <3> QED BY <2>2, <3>1, LastArgumentLeft
  <2>5. k \in 2 .. n /\ k - 1 \in 0 .. n /\ k - 1 \notin Bad /\ n - k + 1 \in 1 .. n
    BY <1>1, <2>1, <2>2, <2>3, <2>4
  <2>6. LastArgumentsReadBack(arguments, k - 1) /\ ReadsBack(arguments[n - k + 1])
    BY <2>5
  <2> QED BY <2>2, <2>5, <2>6, MoreArgumentsLeft
<1>3. LastArgumentsReadBack(arguments, n)
  BY <1>1, <1>2
<1>4. SubSeq(arguments, 1, n - n) = <<>>
  OBVIOUS
<1> QED BY <1>3, <1>4 DEF LastArgumentsReadBack, WithCommas

LEMMA CallReadsOperand ==
  ASSUME ExpressionDescent, NEW e \in Tree, e \in Calls,
         \A i \in 1 .. Len(e.arguments) : ReadsBack(e.arguments[i])
  PROVE  ReadsOperand(e)
<1> DEFINE w        == WithCommas(e.arguments)
           function == FunctionToken(e)
           inParens == InParens(w)
<1> SUFFICES ASSUME NEW s, At(s, WrittenOperand(e))
             PROVE  ParseExpressionLhs(s) = Parsed(e, Skip(s, Len(WrittenOperand(e))))
  BY DEF ReadsOperand
<1>1. /\ e = Call(function, e.arguments) /\ e.arguments \in Seq(Tree)
      /\ function \in Token /\ function.kind \in {"FunctionIdentifier", "BuiltIn"}
      /\ WrittenOperand(e) = <<function>> \o inParens
  BY CallShape, CompoundOrNot DEF WrittenOperand, Simple
<1>2. /\ Sign("LParen") \in Token /\ Sign("LParen").kind = "LParen"
      /\ Sign("RParen") \in Token /\ Sign("RParen").kind = "RParen"
  BY SignType DEF TokenKind
<1>3. w \in Seq(Token) /\ inParens \in Seq(Token)
  <2>1. Len(e.arguments) \in 0 .. Len(e.arguments)
    BY <1>1
  <2>2. w \in Seq(Token)
    BY <1>1, <2>1, LastArgumentsAre DEF WithCommas
  <2> HIDE DEF w
  <2> QED BY <2>2, InParensType
<1> DEFINE rest == ConsumeCurrent(s)
           list == ConsumeCurrent(rest)
           last == Skip(list, Len(w))
           end  == Skip(s, Len(WrittenOperand(e)))
<1>4. /\ s \in AnyStream /\ CurrentToken(s) = function /\ CurrentKind(s) = function.kind
      /\ At(rest, inParens) /\ Skip(rest, Len(inParens)) = end
  <2>1. At(s, <<function>> \o inParens)
    BY <1>1
  <2> HIDE DEF function, inParens
  <2> QED BY <1>1, <1>3, <2>1, AtFirst
<1>5. /\ CurrentKind(rest) = "LParen" /\ At(list, w)
      /\ CurrentKind(last) = "RParen" /\ ConsumeCurrent(last) = end
  <2>1. At(rest, <<Sign("LParen")>> \o w \o <<Sign("RParen")>>)
    BY <1>4 DEF InParens
  <2>2. Skip(rest, Len(<<Sign("LParen")>> \o w \o <<Sign("RParen")>>)) = end
    BY <1>4 DEF InParens
  <2>0. Sign("LParen") \in Token /\ Sign("RParen") \in Token /\ w \in Seq(Token)
    BY <1>2, <1>3
  <2> HIDE DEF w, rest, end
  <2>3. /\ CurrentKind(rest) = Sign("LParen").kind /\ At(ConsumeCurrent(rest), w)
        /\ CurrentKind(Skip(ConsumeCurrent(rest), Len(w))) = Sign("RParen").kind
        /\ ConsumeCurrent(Skip(ConsumeCurrent(rest), Len(w)))
             = Skip(rest, Len(<<Sign("LParen")>> \o w \o <<Sign("RParen")>>))
    BY <2>0, <2>1, AtEnclosed
  <2> QED BY <1>2, <2>2, <2>3
<1>6. ParseFunctionCallArguments(list, <<>>) = [arguments |-> e.arguments, stream |-> last]
  BY <1>1, <1>5, ArgumentsReadBack
<1>7. ParseFunctionCall(function, list) = Parsed(e, end)
  <2> DEFINE r == ParseFunctionCallArguments(list, <<>>)
  <2>1. ParseFunctionCall(function, list) =
          IF CurrentKind(r.stream) = "RParen"
            THEN Parsed(Call(function, r.arguments), ConsumeCurrent(r.stream))
            ELSE Failed(r.stream)
    BY DEF ParseFunctionCall, MustParse
  <2>2. r.arguments = e.arguments /\ r.stream = last
    BY <1>6
  <2> HIDE DEF r, last, list, end
  <2> QED BY <1>1, <1>5, <2>1, <2>2
<1>8. ParseExpressionLhs(s) = ParseFunctionExpression(function, rest)
  BY <1>1, <1>4 DEF ParseExpressionLhs, IsUnaryOperator, UnaryOperator, LiteralKind
<1> QED BY <1>5, <1>7, <1>8 DEF ParseFunctionExpression

-----------------------------------------------------------------------------
(* By the number of tokens of a tree.                                      *)

Size(e) == Len(Written(e))

\* What is written of a tree inside another.
LEMMA OperandSize ==
  ASSUME NEW e \in Tree
  PROVE  Size(e) \in Nat /\ Len(WrittenOperand(e)) \in Nat /\ Size(e) <= Len(WrittenOperand(e))
<1>1. Written(e) \in Seq(Token) /\ Sign("LParen") \in Token /\ Sign("RParen") \in Token
  BY WrittenType, SignType DEF TokenKind
<1>2. /\ Len(Written(e)) \in Nat /\ Len(InParens(Written(e))) \in Nat
      /\ Len(Written(e)) <= Len(InParens(Written(e)))
  BY <1>1 DEF InParens
<1> QED BY <1>2 DEF Size, WrittenOperand

\* No argument is longer than all of them.
LEMMA ArgumentSize ==
  ASSUME NEW arguments \in Seq(Tree), NEW i \in 1 .. Len(arguments)
  PROVE  Size(arguments[i]) <= Len(WithCommas(arguments))
<1> DEFINE n       == Len(arguments)
           last    == LastArguments(arguments)
           size(k) == Size(arguments[n - k + 1])
           Bad     == {k \in 1 .. n : \E l \in 1 .. k : size(l) > Len(last[k])}
<1>1. n \in Nat /\ \A k \in 1 .. n : n - k + 1 \in 1 .. n /\ arguments[n - k + 1] \in Tree
  OBVIOUS
<1>2. \A k \in 1 .. n : size(k) \in Nat
  BY <1>1, OperandSize
<1>3. \A k \in 0 .. n : last[k] \in Seq(Token) /\ Len(last[k]) \in Nat
  <2>1. \A k \in 0 .. n : last[k] \in Seq(Token)
    BY LastArgumentsAre
  <2> HIDE DEF last, n
  <2> QED BY <2>1
<1>4. n > 0 => size(1) = Len(last[1])
  BY LastArgumentsAre DEF Size
<1>5. ASSUME NEW k \in 2 .. n PROVE Len(last[k]) = size(k) + 1 + Len(last[k - 1])
  <2> DEFINE w == Written(arguments[n - k + 1])
  <2>1. last[k] = w \o <<Sign("Comma")>> \o last[k - 1]
    BY LastArgumentsAre
  <2>2. w \in Seq(Token) /\ last[k - 1] \in Seq(Token) /\ Sign("Comma") \in Token
    <3>1. "Comma" \in TokenKind
      BY DEF TokenKind
    <3>2. k \in 1 .. n /\ k - 1 \in 0 .. n
      BY <1>1
    <3>3. arguments[n - k + 1] \in Tree
      BY <1>1, <3>2
    <3> QED BY <1>3, <3>1, <3>2, <3>3, WrittenType, SignType
  <2>3. size(k) = Len(w)
    BY DEF Size
  <2> HIDE DEF w, last, n, size
  <2> QED BY <2>1, <2>2, <2>3
<1> HIDE DEF last, n, size
<1>6. Bad = {}
  <2> SUFFICES ASSUME Bad # {} PROVE FALSE
    OBVIOUS
  <2>1. PICK k \in Bad : \A m \in Bad : k <= m
    <3>1. Bad \in SUBSET Nat
      BY <1>1
    <3> HIDE DEF Bad
    <3> QED BY <3>1, NatLeast
  <2>2. PICK l \in 1 .. k : size(l) > Len(last[k])
    BY <2>1
  <2>3. k \in 1 .. n
    BY <2>1
  <2>4. k # 1
    BY <1>1, <1>2, <1>4, <2>2, <2>3
  <2>5. k \in 2 .. n /\ k - 1 \in 1 .. n /\ k - 1 \in 0 .. n /\ k - 1 \notin Bad
    <3>1. k \in 2 .. n /\ k - 1 \in 1 .. n /\ k - 1 \in 0 .. n /\ ~(k <= k - 1)
      BY <1>1, <2>3, <2>4
    <3> HIDE DEF Bad
    <3> QED BY <2>1, <3>1
  <2>6. /\ Len(last[k]) = size(k) + 1 + Len(last[k - 1])
        /\ size(k) \in Nat /\ Len(last[k - 1]) \in Nat /\ size(l) \in Nat
    <3>1. l \in 1 .. n
      BY <1>1, <2>2, <2>3
    <3>2. Len(last[k]) = size(k) + 1 + Len(last[k - 1])
      BY <1>5, <2>5
    <3> HIDE DEF Bad
    <3> QED BY <1>2, <1>3, <2>3, <2>5, <3>1, <3>2
  <2>7. l # k
    BY <2>2, <2>6
  <2>8. l \in 1 .. k - 1
    BY <1>1, <2>2, <2>3, <2>7
  <2>9. ~(size(l) > Len(last[k - 1]))
    BY <2>5, <2>8
  <2> QED BY <2>2, <2>6, <2>9
<1>7. n - i + 1 \in 1 .. n /\ n \in 1 .. n /\ n - (n - i + 1) + 1 = i
  BY <1>1 DEF n
<1>8. ~(size(n - i + 1) > Len(last[n]))
  BY <1>6, <1>7
<1>9. size(n - i + 1) = Size(arguments[i])
  BY <1>7 DEF size
<1>10. Len(last[n]) \in Nat /\ Size(arguments[i]) \in Nat
  BY <1>1, <1>2, <1>3, <1>7, <1>9
<1>11. last[n] = WithCommas(arguments)
  BY DEF WithCommas, last, n
<1> QED BY <1>8, <1>9, <1>10, <1>11

\* What is in a tree is shorter.
LEMMA PartsSize ==
  ASSUME NEW e \in Tree
  PROVE  /\ e \in Unaries => Size(e.expression) < Size(e)
         /\ e \in Binaries => Size(e.lhs) < Size(e) /\ Size(e.rhs) < Size(e)
         /\ e \in Ternaries =>
              /\ Size(e.condition) < Size(e)
              /\ Size(e.ifTrue) < Size(e) /\ Size(e.ifFalse) < Size(e)
         /\ e \in Subscripts => Size(e.index) < Size(e)
         /\ e \in Calls => \A i \in 1 .. Len(e.arguments) : Size(e.arguments[i]) < Size(e)
<1>1. CASE e \in Unaries
  <2> DEFINE w == WrittenOperand(e.expression)
  <2>1. /\ e.expression \in Tree /\ e.operator \in TokenKind
        /\ Written(e) = <<Sign(e.operator)>> \o w
    BY <1>1, UnaryShape, OperatorKinds
  <2>2. w \in Seq(Token) /\ Sign(e.operator) \in Token
    BY <2>1, WrittenType, SignType
  <2>3. Size(e.expression) \in Nat /\ Size(e.expression) <= Len(w)
    BY <2>1, OperandSize
  <2> HIDE DEF w
  <2>4. Size(e) = 1 + Len(w) /\ Len(w) \in Nat
    BY <2>1, <2>2 DEF Size
  <2>5. Size(e.expression) < Size(e)
    BY <2>3, <2>4
  <2> QED BY <1>1, <2>5 DEF Unaries, Binaries, Ternaries, Subscripts, Calls
<1>2. CASE e \in Binaries
  <2> DEFINE v == WrittenOperand(e.lhs)
             w == WrittenOperand(e.rhs)
  <2>1. /\ e.lhs \in Tree /\ e.rhs \in Tree /\ e.operator \in TokenKind
        /\ Written(e) = v \o <<Sign(e.operator)>> \o w
    BY <1>2, BinaryShape, OperatorKinds
  <2>2. v \in Seq(Token) /\ w \in Seq(Token) /\ Sign(e.operator) \in Token
    BY <2>1, WrittenType, SignType
  <2>3. /\ Size(e.lhs) \in Nat /\ Size(e.lhs) <= Len(v)
        /\ Size(e.rhs) \in Nat /\ Size(e.rhs) <= Len(w)
    BY <2>1, OperandSize
  <2> HIDE DEF v, w
  <2>4. Size(e) = Len(v) + 1 + Len(w) /\ Len(v) \in Nat /\ Len(w) \in Nat
    BY <2>1, <2>2 DEF Size
  <2>5. Size(e.lhs) < Size(e) /\ Size(e.rhs) < Size(e)
    BY <2>3, <2>4
  <2> QED BY <1>2, <2>5 DEF Unaries, Binaries, Ternaries, Subscripts, Calls
<1>3. CASE e \in Ternaries
  <2> DEFINE v == WrittenOperand(e.condition)
             w == Written(e.ifTrue)
             x == Written(e.ifFalse)
             question == Sign("OP_TernaryIf")
             colon    == Sign("OP_TernaryElse")
  <2>1. /\ e.condition \in Tree /\ e.ifTrue \in Tree /\ e.ifFalse \in Tree
        /\ Written(e) = v \o <<question>> \o w \o <<colon>> \o x
    BY <1>3, TernaryShape
  <2>2. /\ v \in Seq(Token) /\ w \in Seq(Token) /\ x \in Seq(Token)
        /\ question \in Token /\ colon \in Token
    <3>1. "OP_TernaryIf" \in TokenKind /\ "OP_TernaryElse" \in TokenKind
      BY DEF TokenKind
    <3> QED BY <2>1, <3>1, WrittenType, SignType
  <2>3. /\ Size(e.condition) \in Nat /\ Size(e.condition) <= Len(v)
        /\ Size(e.ifTrue) = Len(w) /\ Size(e.ifFalse) = Len(x)
    BY <2>1, OperandSize DEF Size
  <2> HIDE DEF v, w, x, question, colon
  <2>4. /\ Size(e) = Len(v) + 1 + Len(w) + 1 + Len(x)
        /\ Len(v) \in Nat /\ Len(w) \in Nat /\ Len(x) \in Nat
    BY <2>1, <2>2 DEF Size
  <2>5. Size(e.condition) < Size(e) /\ Size(e.ifTrue) < Size(e) /\ Size(e.ifFalse) < Size(e)
    BY <2>3, <2>4
  <2> QED BY <1>3, <2>5 DEF Unaries, Binaries, Ternaries, Subscripts, Calls
<1>4. CASE e \in Subscripts
  <2> DEFINE w == Written(e.index)
  <2>1. e.index \in Tree /\ Written(e) = <<Sign("LSquare")>> \o w \o <<Sign("RSquare")>>
    BY <1>4, SubscriptShape
  <2>2. w \in Seq(Token) /\ Sign("LSquare") \in Token /\ Sign("RSquare") \in Token
    BY <2>1, WrittenType, SignType DEF TokenKind
  <2>3. Size(e.index) = Len(w)
    BY DEF Size
  <2> HIDE DEF w
  <2>4. Size(e) = 1 + Len(w) + 1 /\ Len(w) \in Nat
    BY <2>1, <2>2 DEF Size
  <2>5. Size(e.index) < Size(e)
    BY <2>3, <2>4
  <2> QED BY <1>4, <2>5 DEF Unaries, Binaries, Ternaries, Subscripts, Calls
<1>5. CASE e \in Calls
  <2> DEFINE w == WithCommas(e.arguments)
             f == FunctionToken(e)
  <2>1. /\ e.arguments \in Seq(Tree) /\ f \in Token
        /\ Written(e) = <<f>> \o (<<Sign("LParen")>> \o w \o <<Sign("RParen")>>)
    BY <1>5, CallShape DEF InParens
  <2>2. w \in Seq(Token) /\ Sign("LParen") \in Token /\ Sign("RParen") \in Token
    <3>1. Len(e.arguments) \in 0 .. Len(e.arguments)
      BY <2>1
    <3>2. w \in Seq(Token)
      BY <2>1, <3>1, LastArgumentsAre DEF WithCommas
    <3> QED BY <3>2, SignType DEF TokenKind
  <2>3. \A i \in 1 .. Len(e.arguments) :
          Size(e.arguments[i]) \in Nat /\ Size(e.arguments[i]) <= Len(w)
    <3> SUFFICES ASSUME NEW i \in 1 .. Len(e.arguments)
                 PROVE  Size(e.arguments[i]) \in Nat /\ Size(e.arguments[i]) <= Len(w)
      OBVIOUS
    <3>1. e.arguments[i] \in Tree
      BY <2>1
    <3> QED BY <2>1, <3>1, ArgumentSize, OperandSize
  <2> HIDE DEF w, f
  <2>4. Size(e) = 3 + Len(w) /\ Len(w) \in Nat
    BY <2>1, <2>2 DEF Size
  <2>5. \A i \in 1 .. Len(e.arguments) : Size(e.arguments[i]) < Size(e)
    BY <2>3, <2>4
  <2> QED BY <1>5, <2>5 DEF Unaries, Binaries, Ternaries, Subscripts, Calls
<1>6. CASE e \in Atoms
  BY <1>6 DEF Atoms, Unaries, Binaries, Ternaries, Subscripts, Calls
<1> QED BY <1>1, <1>2, <1>3, <1>4, <1>5, <1>6, TreeKinds DEF Compounds, Simple

AllReadBack(e) == ReadsBack(e) /\ ReadsOperand(e)

LEMMA TreeReadsBack ==
  ASSUME ExpressionDescent, NEW e \in Tree,
         \A d \in Tree : Size(d) < Size(e) => AllReadBack(d)
  PROVE  AllReadBack(e)
<1>1. CASE e \in Unaries
  <2>1. AllReadBack(e.expression)
    BY <1>1, UnaryShape, PartsSize
  <2> QED BY <1>1, <2>1, UnaryReadsBack, CompoundReadsOperand DEF AllReadBack, Compounds
<1>2. CASE e \in Binaries
  <2>1. AllReadBack(e.lhs) /\ AllReadBack(e.rhs)
    BY <1>2, BinaryShape, PartsSize
  <2> QED BY <1>2, <2>1, BinaryReadsBack, CompoundReadsOperand DEF AllReadBack, Compounds
<1>3. CASE e \in Ternaries
  <2>1. AllReadBack(e.condition) /\ AllReadBack(e.ifTrue) /\ AllReadBack(e.ifFalse)
    BY <1>3, TernaryShape, PartsSize
  <2> QED BY <1>3, <2>1, TernaryReadsBack, CompoundReadsOperand DEF AllReadBack, Compounds
<1>4. CASE e \in Subscripts
  <2>1. AllReadBack(e.index)
    BY <1>4, SubscriptShape, PartsSize
  <2> QED BY <1>4, <2>1, SubscriptReadsOperand, SimpleReadsBack DEF AllReadBack, Simple
<1>5. CASE e \in Calls
  <2>1. ASSUME NEW i \in 1 .. Len(e.arguments) PROVE ReadsBack(e.arguments[i])
    <3>1. e.arguments \in Seq(Tree)
      BY <1>5, CallShape
    <3>2. e.arguments[i] \in Tree
      BY <3>1
    <3> QED BY <1>5, <3>2, PartsSize DEF AllReadBack
  <2> QED BY <1>5, <2>1, CallReadsOperand, SimpleReadsBack DEF AllReadBack, Simple
<1>6. CASE e \in Atoms
  BY <1>6, AtomReadsOperand, SimpleReadsBack DEF AllReadBack, Simple
<1> QED BY <1>1, <1>2, <1>3, <1>4, <1>5, <1>6, TreeKinds DEF Compounds, Simple

LEMMA EveryTreeReadsBack ==
  ASSUME ExpressionDescent
  PROVE  \A e \in Tree : AllReadBack(e)
<1> DEFINE Bad == {e \in Tree : ~AllReadBack(e)}
<1> SUFFICES ASSUME Bad # {} PROVE FALSE
  OBVIOUS
<1>1. PICK e \in Bad : \A d \in Bad : Size(e) <= Size(d)
  <2> DEFINE T == {Size(d) : d \in Bad}
  <2>1. T \in SUBSET Nat /\ T # {}
    BY OperandSize
  <2>2. PICK n \in T : \A m \in T : n <= m
    <3> HIDE DEF T
    <3> QED BY <2>1, NatLeast
  <2> QED BY <2>2
<1>2. ASSUME NEW d \in Tree, Size(d) < Size(e) PROVE AllReadBack(d)
  <2>1. Size(d) \in Nat /\ Size(e) \in Nat
    BY OperandSize
  <2> QED BY <1>1, <1>2, <2>1
<1> QED BY <1>2, TreeReadsBack

-----------------------------------------------------------------------------
(* The specification.                                                      *)

\* The whole of a file is read back.
LEMMA FileReadsBack ==
  ASSUME ExpressionDescent, NEW e \in Tree
  PROVE  LET s == Stream(Written(e))
             r == ParseExpression(s)
         IN  /\ r.tree = <<e>>
             /\ r.stream.index = Len(r.stream.tokens) /\ r.stream.errors = 0
<1> DEFINE s   == Stream(Written(e))
           end == Skip(s, Len(Written(e)))
<1>1. /\ Written(e) \in Seq(Token) /\ Len(Written(e)) \in Nat
      /\ s \in AnyStream /\ s.tokens = Written(e) /\ s.index = 0 /\ s.errors = 0
  BY WrittenType, StreamType DEF Stream
<1>2. At(s, Written(e))
  BY <1>1 DEF At
<1>3. end.tokens = Written(e) /\ end.index = Len(Written(e)) /\ end.errors = 0
  BY <1>1, <1>2, SkipType
<1>4. Ends(end)
  BY <1>3, OperatorKinds DEF Ends, CurrentKind, HasMoreTokens
<1>5. ParseExpression(s) = Parsed(e, end)
  BY <1>2, <1>4, EveryTreeReadsBack DEF AllReadBack, ReadsBack
<1> HIDE DEF s, end
<1>6. ParseExpression(s).tree = <<e>> /\ ParseExpression(s).stream = end
  BY <1>5, ParsedFields
<1> QED BY <1>3, <1>6 DEF s

\* Where the tree comes from, until it is read back.
ReadBackInv ==
  /\ origin # <<>> => \E e \in Tree : origin = <<e>> /\ (~parsed => stream = Stream(Written(e)))
  /\ ReadsBackWhatIsWritten

\* What is written is read back: precedence climbing gives every tree its own
\* operands, and the functions of the descent agree on who consumes what.
THEOREM WrittenTreesAreReadBack ==
  ASSUME ExpressionDescent
  PROVE  Spec => []ReadsBackWhatIsWritten
<1>1. Init => ReadBackInv
  <2> SUFFICES ASSUME Init PROVE ReadBackInv
    OBVIOUS
  <2>1. parsed = FALSE
    BY DEF Init
  <2>2. CASE origin = <<>>
    BY <2>1, <2>2 DEF ReadBackInv, ReadsBackWhatIsWritten, ExpressionParsed
  <2>3. CASE \E e \in Tree : origin = <<e>> /\ stream = Stream(Written(e))
    BY <2>1, <2>3 DEF ReadBackInv, ReadsBackWhatIsWritten, ExpressionParsed
  <2> QED BY <2>2, <2>3 DEF Init
<1>2. ReadBackInv /\ [Parse]_vars => ReadBackInv'
  <2> SUFFICES ASSUME ReadBackInv, [Parse]_vars PROVE ReadBackInv'
    OBVIOUS
  <2>1. CASE UNCHANGED vars
    BY <2>1 DEF ReadBackInv, ReadsBackWhatIsWritten, ExpressionParsed, vars
  <2>2. CASE Parse
    <3> DEFINE r == ParseExpression(stream)
    <3>1. ~parsed /\ parsed' = TRUE /\ origin' = origin /\ trees' = r.tree /\ stream' = r.stream
      BY <2>2 DEF Parse, Returns
    <3> HIDE DEF r
    <3>2. CASE origin = <<>>
      BY <3>1, <3>2 DEF ReadBackInv, ReadsBackWhatIsWritten, ExpressionParsed
    <3>3. CASE origin # <<>>
      <4>1. PICK e \in Tree : origin = <<e>> /\ stream = Stream(Written(e))
        BY <3>1, <3>3 DEF ReadBackInv
      <4>2. /\ r.tree = <<e>>
            /\ r.stream.index = Len(r.stream.tokens) /\ r.stream.errors = 0
        BY <4>1, FileReadsBack DEF r
      <4> QED BY <3>1, <4>1, <4>2 DEF ReadBackInv, ReadsBackWhatIsWritten, ExpressionParsed
    <3> QED BY <3>2, <3>3
  <2> QED BY <2>1, <2>2
<1>3. ReadBackInv => ReadsBackWhatIsWritten
  BY DEF ReadBackInv
<1> QED BY <1>1, <1>2, <1>3, PTL DEF Spec

-----------------------------------------------------------------------------
(* The literals that are read.                                             *)

\* How the literals of the first tokens grow.
LEMMA LiteralsAre ==
  ASSUME NEW tokens \in Seq(Token)
  PROVE  LET upto == LiteralsUpto(tokens)
         IN  /\ upto[0] = <<>>
             /\ \A n \in 0 .. Len(tokens) : upto[n] \in Seq(Token)
             /\ \A n \in 1 .. Len(tokens) :
                  upto[n] = IF tokens[n].kind \in LiteralKind THEN Append(upto[n - 1], tokens[n])
                                                              ELSE upto[n - 1]
<1> DEFINE N          == Len(tokens)
           upto       == LiteralsUpto(tokens)
           With(b, n) == IF tokens[n].kind \in LiteralKind THEN Append(b, tokens[n]) ELSE b
           step       == [n \in 1 .. N |-> [b \in Seq(Token) |-> With(b, n)]]
<1>1. N \in Nat /\ <<>> \in Seq(Token) /\ \A n \in 1 .. N : tokens[n] \in Token
  OBVIOUS
<1>2. \A n \in 1 .. N : \A b \in Seq(Token) : With(b, n) \in Seq(Token)
  BY <1>1, AppendProperties
<1>3. PICK g \in [0 .. N -> Seq(Token)] :
        g[0] = <<>> /\ \A n \in 1 .. N : g[n] = step[n][g[n - 1]]
  <2>1. step \in StepsUpto(N, Seq(Token))
    BY <1>2 DEF StepsUpto
  <2> HIDE DEF N, step
  <2>2. PICK g \in Upto(N, Seq(Token)) : Follows(g, <<>>, step, N)
    BY <1>1, <2>1, Recursion
  <2> QED BY <2>2 DEF Upto, Follows
<1>4. ASSUME NEW n \in 1 .. N PROVE g[n] = With(g[n - 1], n)
  <2> HIDE DEF With, N
  <2>1. n - 1 \in 0 .. N
    BY <1>1
  <2>2. g[n - 1] \in Seq(Token)
    BY <1>3, <2>1
  <2> QED BY <1>3, <2>2
<1>5. g = [n \in 0 .. N |->
             IF n = 0 THEN <<>>
             ELSE IF tokens[n].kind \in LiteralKind THEN Append(g[n - 1], tokens[n]) ELSE g[n - 1]]
  <2>1. \A n \in 0 .. N : g[n] = IF n = 0 THEN <<>> ELSE With(g[n - 1], n)
    <3> HIDE DEF With, N
    <3>1. \A n \in 0 .. N : n # 0 => n \in 1 .. N
      BY <1>1
    <3> QED BY <1>3, <1>4, <3>1
  <2> QED BY <1>3, <2>1
<1>6. upto = [n \in 0 .. N |->
                IF n = 0 THEN <<>>
                ELSE IF tokens[n].kind \in LiteralKind
                       THEN Append(upto[n - 1], tokens[n]) ELSE upto[n - 1]]
  BY <1>5, Zenon DEF LiteralsUpto
<1> HIDE DEF upto, N
<1>7. upto[0] = <<>> /\ \A n \in 1 .. N : upto[n] = With(upto[n - 1], n)
  <2>1. upto = [n \in 0 .. N |-> IF n = 0 THEN <<>> ELSE With(upto[n - 1], n)]
    BY <1>6
  <2> HIDE DEF With
  <2> QED BY <1>1, <2>1
<1>8. \A n \in 0 .. N : upto[n] \in Seq(Token)
  <2> DEFINE Bad == {n \in 0 .. N : upto[n] \notin Seq(Token)}
  <2> SUFFICES ASSUME Bad # {} PROVE FALSE
    OBVIOUS
  <2>1. PICK n \in Bad : \A m \in Bad : n <= m
    <3>1. Bad \in SUBSET Nat
      BY <1>1
    <3> HIDE DEF Bad
    <3> QED BY <3>1, NatLeast
  <2> HIDE DEF With
  <2>2. n # 0
    BY <1>1, <1>7, <2>1
  <2>3. n \in 1 .. N /\ n - 1 \in 0 .. N /\ n - 1 \notin Bad
    BY <1>1, <2>1, <2>2
  <2>4. upto[n - 1] \in Seq(Token)
    BY <2>3
  <2>5. upto[n] \in Seq(Token)
    BY <1>2, <1>7, <2>3, <2>4
  <2> QED BY <2>1, <2>5
<1> QED BY <1>7, <1>8 DEF upto, N

LEMMA LeavesOf ==
  ASSUME LeavesDescent
  PROVE  /\ \A token : /\ Leaves(Literal(token)) = <<token>>
                       /\ Leaves(Variable(token)) = <<>> /\ Leaves(Macro(token)) = <<>>
         /\ \A o, e : Leaves(Unary(o, e)) = Leaves(e)
         /\ \A l, o, r : Leaves(Binary(l, o, r)) = Leaves(l) \o Leaves(r)
         /\ \A e : Leaves(Subscript(e)) = Leaves(e)
         /\ \A c, t, f : Leaves(Ternary(c, t, f)) = Leaves(c) \o Leaves(t) \o Leaves(f)
<1>1. ASSUME NEW token
      PROVE  /\ Leaves(Literal(token)) = <<token>>
             /\ Leaves(Variable(token)) = <<>> /\ Leaves(Macro(token)) = <<>>
  <2>1. /\ LeavesAs(Literal(token)) = <<token>>
        /\ LeavesAs(Variable(token)) = <<>> /\ LeavesAs(Macro(token)) = <<>>
    BY DEF LeavesAs, Literal, Variable, Macro
  <2> QED BY <2>1 DEF LeavesDescent
<1>2. ASSUME NEW o, NEW e PROVE Leaves(Unary(o, e)) = Leaves(e)
  <2>1. LeavesAs(Unary(o, e)) = Leaves(e)
    BY DEF LeavesAs, Unary
  <2> QED BY <2>1 DEF LeavesDescent
<1>3. ASSUME NEW l, NEW o, NEW r PROVE Leaves(Binary(l, o, r)) = Leaves(l) \o Leaves(r)
  <2>1. LeavesAs(Binary(l, o, r)) = Leaves(l) \o Leaves(r)
    BY DEF LeavesAs, Binary
  <2> QED BY <2>1 DEF LeavesDescent
<1>4. ASSUME NEW e PROVE Leaves(Subscript(e)) = Leaves(e)
  <2>1. LeavesAs(Subscript(e)) = Leaves(e)
    BY DEF LeavesAs, Subscript
  <2> QED BY <2>1 DEF LeavesDescent
<1>5. ASSUME NEW c, NEW t, NEW f
      PROVE  Leaves(Ternary(c, t, f)) = Leaves(c) \o Leaves(t) \o Leaves(f)
  <2>1. LeavesAs(Ternary(c, t, f)) = Leaves(c) \o Leaves(t) \o Leaves(f)
    BY DEF LeavesAs, Ternary
  <2> QED BY <2>1 DEF LeavesDescent
<1> QED BY <1>1, <1>2, <1>3, <1>4, <1>5

\* The literals before a stream's next token.
Before(s) == LiteralsUpto(s.tokens)[s.index]

NoFunctions(s) == \A i \in DOMAIN s.tokens : s.tokens[i].kind \notin {"FunctionIdentifier", "BuiltIn"}

LEMMA BeforeType ==
  ASSUME NEW s \in AnyStream
  PROVE  Before(s) \in Seq(Token)
BY StreamFields, LiteralsAre DEF Before

LEMMA BeforeConsumed ==
  ASSUME NEW s \in AnyStream, CurrentKind(s) # "none"
  PROVE  Before(ConsumeCurrent(s)) = IF CurrentKind(s) \in LiteralKind
                                       THEN Before(s) \o <<CurrentToken(s)>>
                                       ELSE Before(s)
<1> DEFINE n    == s.index + 1
           upto == LiteralsUpto(s.tokens)
<1>1. /\ s.tokens \in Seq(Token) /\ n \in 1 .. Len(s.tokens) /\ n - 1 = s.index
      /\ CurrentToken(s) = s.tokens[n] /\ CurrentKind(s) = s.tokens[n].kind
      /\ CurrentToken(s) \in Token
  BY StreamFields, KindHasMore, ConsumeCurrentAhead DEF CurrentKind, HasMoreTokens
<1>2. ConsumeCurrent(s).tokens = s.tokens /\ ConsumeCurrent(s).index = n
  BY ConsumeCurrentAhead, AheadFields
<1>3. upto[n] = IF s.tokens[n].kind \in LiteralKind THEN Append(upto[n - 1], s.tokens[n])
                                                    ELSE upto[n - 1]
  BY <1>1, LiteralsAre
<1>4. Before(s) = upto[n - 1] /\ Before(ConsumeCurrent(s)) = upto[n]
  BY <1>1, <1>2 DEF Before
<1>5. Append(Before(s), CurrentToken(s)) = Before(s) \o <<CurrentToken(s)>>
  BY <1>1, BeforeType, AppendIsConcat
<1> HIDE DEF n, upto
<1> QED BY <1>1, <1>3, <1>4, <1>5

\* What r returns has the literals behind those of p.
KeepsFrom(p, r) ==
  r.tree # <<>> =>
    /\ Leaves(r.tree[1]) \in Seq(Token)
    /\ Before(r.stream) = p \o Leaves(r.tree[1])

\* What is said of the functions of the descent at s.
KeepsAt(s) ==
  /\ KeepsFrom(Before(s), ParseExpression(s))
  /\ \A lhs, precedence : \A p \in Seq(Token) :
       Leaves(lhs) \in Seq(Token) /\ Before(s) = p \o Leaves(lhs) =>
         KeepsFrom(p, ParseExpressionRhs(lhs, s, precedence))

KeepsBehind(s) == \A t \in Ahead(s) : t.index > s.index => KeepsAt(t)

LEMMA KeepsBehindThere ==
  ASSUME NEW s \in AnyStream, KeepsBehind(s), NEW t \in Ahead(s)
  PROVE  KeepsBehind(t)
BY StreamFields, AheadFields, AheadIsTransitive DEF KeepsBehind

LEMMA FailedKeeps ==
  ASSUME NEW s, NEW p
  PROVE  KeepsFrom(p, Failed(s))
BY DEF KeepsFrom, Failed

LEMMA ParsedKeeps ==
  ASSUME NEW s, NEW p, NEW tree, Leaves(tree) \in Seq(Token), Before(s) = p \o Leaves(tree)
  PROVE  KeepsFrom(p, Parsed(tree, s))
<1> DEFINE r == Parsed(tree, s)
<1>1. r.tree[1] = tree /\ r.stream = s
  BY ParsedFields
<1> HIDE DEF r
<1>2. KeepsFrom(p, r)
  BY <1>1 DEF KeepsFrom
<1> QED BY <1>2 DEF r

LEMMA ConcatType ==
  ASSUME NEW v \in Seq(Token), NEW w \in Seq(Token)
  PROVE  v \o w \in Seq(Token)
OBVIOUS

LEMMA TokensInOrder ==
  ASSUME NEW a \in Seq(Token), NEW b \in Seq(Token), NEW c \in Seq(Token), NEW d \in Seq(Token)
  PROVE  b \o c \o d \in Seq(Token) /\ a \o (b \o c \o d) = a \o b \o c \o d
BY SMTT(30)

LEMMA UnaryKeeps ==
  ASSUME LeavesDescent, NEW s \in AnyStream, KeepsAt(s), NEW operator
  PROVE  KeepsFrom(Before(s), ParseUnaryExpression(operator, s))
<1> DEFINE r == ParseExpression(s)
<1>1. ParseUnaryExpression(operator, s) =
        IF r.tree = <<>> THEN r ELSE Parsed(Unary(operator, r.tree[1]), r.stream)
  BY DEF ParseUnaryExpression, Then
<1>2. KeepsFrom(Before(s), r)
  BY DEF KeepsAt
<1>3. Leaves(Unary(operator, r.tree[1])) = Leaves(r.tree[1])
  BY LeavesOf
<1> HIDE DEF r
<1> QED BY <1>1, <1>2, <1>3, ParsedKeeps DEF KeepsFrom

\* A closing token is no literal.
LEMMA ClosedKeeps ==
  ASSUME LeavesDescent, ExpressionDescent, NEW s \in AnyStream, KeepsAt(s)
  PROVE  /\ KeepsFrom(Before(s), ParseParenExpression(s))
         /\ KeepsFrom(Before(s), ParseArraySubscriptExpression(s))
<1> DEFINE r == ParseExpression(s)
           t == ConsumeCurrent(r.stream)
<1>1. ParseParenExpression(s) =
        IF r.tree = <<>> THEN r
        ELSE IF CurrentKind(r.stream) = "RParen" THEN Parsed(r.tree[1], t)
        ELSE Failed(r.stream)
  BY DEF ParseParenExpression, Then, MustParse
<1>2. ParseArraySubscriptExpression(s) =
        IF r.tree = <<>> THEN r
        ELSE IF CurrentKind(r.stream) = "RSquare" THEN Parsed(Subscript(r.tree[1]), t)
        ELSE Failed(r.stream)
  BY DEF ParseArraySubscriptExpression, Then, MustParse
<1>3. KeepsFrom(Before(s), r) /\ r.stream \in AnyStream
  BY ExpressionsMoveForward, AheadFields DEF KeepsAt, MovesForward
<1>4. Leaves(Subscript(r.tree[1])) = Leaves(r.tree[1])
  BY LeavesOf
<1>5. CurrentKind(r.stream) \in {"RParen", "RSquare"} => Before(t) = Before(r.stream)
  BY <1>3, BeforeConsumed, OperatorKinds
<1> HIDE DEF r, t
<1>6. KeepsFrom(Before(s), ParseParenExpression(s))
  BY <1>1, <1>3, <1>5, FailedKeeps, ParsedKeeps DEF KeepsFrom
<1>7. KeepsFrom(Before(s), ParseArraySubscriptExpression(s))
  <2>1. CASE r.tree = <<>>
    BY <1>2, <1>3, <2>1
  <2>2. CASE r.tree # <<>> /\ CurrentKind(r.stream) = "RSquare"
    <3>1. ParseArraySubscriptExpression(s) = Parsed(Subscript(r.tree[1]), t)
      BY <1>2, <2>2
    <3>2. /\ Leaves(Subscript(r.tree[1])) \in Seq(Token)
          /\ Before(t) = Before(s) \o Leaves(Subscript(r.tree[1]))
      BY <1>3, <1>4, <1>5, <2>2 DEF KeepsFrom
    <3> QED BY <3>1, <3>2, ParsedKeeps
  <2>3. CASE r.tree # <<>> /\ CurrentKind(r.stream) # "RSquare"
    BY <1>2, <2>3, FailedKeeps
  <2> QED BY <2>1, <2>2, <2>3
<1> QED BY <1>6, <1>7

LEMMA TernaryKeeps ==
  ASSUME LeavesDescent, ExpressionDescent, NEW s \in AnyStream, KeepsAt(s), KeepsBehind(s),
         NEW condition, Leaves(condition) \in Seq(Token),
         NEW p \in Seq(Token), Before(s) = p \o Leaves(condition)
  PROVE  KeepsFrom(p, ParseTernaryIfExpression(condition, s))
<1> DEFINE r == ParseExpression(s)
           t == ConsumeCurrent(r.stream)
           q == ParseExpression(t)
           e == Ternary(condition, r.tree[1], q.tree[1])
<1>1. ParseTernaryIfExpression(condition, s) =
        IF r.tree = <<>> THEN r
        ELSE IF CurrentKind(r.stream) # "OP_TernaryElse" THEN Failed(r.stream)
        ELSE IF q.tree = <<>> THEN q
        ELSE Parsed(e, q.stream)
  BY DEF ParseTernaryIfExpression, Then, MustParse
<1>2. MovesForward(s, r) /\ r.stream \in Ahead(s) /\ r.stream \in AnyStream
  BY ExpressionsMoveForward, AheadFields DEF MovesForward
<1>3. Leaves(e) = Leaves(condition) \o Leaves(r.tree[1]) \o Leaves(q.tree[1])
  BY LeavesOf
<1>4. CASE r.tree # <<>> /\ CurrentKind(r.stream) = "OP_TernaryElse"
  <2>1. /\ Leaves(r.tree[1]) \in Seq(Token)
        /\ Before(r.stream) = Before(s) \o Leaves(r.tree[1])
    BY <1>4 DEF KeepsAt, KeepsFrom
  <2>2. Before(t) = Before(r.stream)
    BY <1>2, <1>4, BeforeConsumed, OperatorKinds
  <2>3. KeepsFrom(Before(t), q)
    <3>1. t \in Ahead(r.stream) /\ t.index = r.stream.index + 1
      BY <1>2, <1>4, ConsumeCurrentAhead
    <3>2. t \in Ahead(s) /\ t.index > s.index
      BY <1>2, <3>1, AheadIsTransitive, AheadFields, StreamFields
    <3> QED BY <3>2 DEF KeepsBehind, KeepsAt
  <2> HIDE DEF r, t, q, e
  <2>4. CASE q.tree # <<>>
    <3>1. /\ Leaves(q.tree[1]) \in Seq(Token)
          /\ Before(q.stream) = p \o Leaves(condition) \o Leaves(r.tree[1]) \o Leaves(q.tree[1])
      BY <2>1, <2>2, <2>3, <2>4 DEF KeepsFrom
    <3>2. /\ Leaves(e) \in Seq(Token)
          /\ p \o Leaves(e)
               = p \o Leaves(condition) \o Leaves(r.tree[1]) \o Leaves(q.tree[1])
      <4> DEFINE c == Leaves(condition)
                 a == Leaves(r.tree[1])
                 b == Leaves(q.tree[1])
      <4>1. c \in Seq(Token) /\ a \in Seq(Token) /\ b \in Seq(Token)
        BY <2>1, <3>1
      <4> HIDE DEF a, b, c
      <4>2. c \o a \o b \in Seq(Token) /\ p \o (c \o a \o b) = p \o c \o a \o b
        BY SMTT(30), <4>1
      <4>3. Leaves(e) = c \o a \o b
        BY <1>3 DEF a, b, c
      <4> QED BY <4>2, <4>3 DEF a, b, c
    <3> QED BY <1>1, <1>4, <2>4, <3>1, <3>2, ParsedKeeps
  <2>5. CASE q.tree = <<>>
    BY <1>1, <1>4, <2>5 DEF KeepsFrom
  <2> QED BY <2>4, <2>5
<1>5. CASE r.tree = <<>> \/ CurrentKind(r.stream) # "OP_TernaryElse"
  <2> HIDE DEF r, t, q, e
  <2> QED BY <1>1, <1>5, FailedKeeps DEF KeepsFrom
<1> QED BY <1>4, <1>5

LEMMA LhsKeeps ==
  ASSUME LeavesDescent, ExpressionDescent,
         NEW s \in AnyStream, NoFunctions(s), KeepsBehind(s)
  PROVE  KeepsFrom(Before(s), ParseExpressionLhs(s))
<1> DEFINE kind  == CurrentKind(s)
           token == CurrentToken(s)
           rest  == ConsumeCurrent(s)
<1>1. ParseExpressionLhs(s) =
        CASE kind \in UnaryOperator -> ParseUnaryExpression(kind, rest)
          [] kind = "LParen" -> ParseParenExpression(rest)
          [] kind = "LSquare" -> ParseArraySubscriptExpression(rest)
          [] kind = "IntegerLiteral" -> ParseIntegerLiteral(s)
          [] kind \in LiteralKind \ {"IntegerLiteral"} -> Parsed(Literal(token), rest)
          [] kind \in {"FunctionIdentifier", "BuiltIn"} -> ParseFunctionExpression(token, rest)
          [] kind = "VariableIdentifier" -> Parsed(Variable(token), rest)
          [] kind = "Macro" -> Parsed(Macro(token), rest)
          [] OTHER -> Failed(s)
  BY DEF ParseExpressionLhs, IsUnaryOperator
<1>2. CASE kind = "none"
  <2>1. ParseExpressionLhs(s) = Failed(s)
    BY <1>2 DEF ParseExpressionLhs, IsUnaryOperator, UnaryOperator, LiteralKind
  <2> QED BY <2>1, FailedKeeps
<1>3. CASE kind # "none"
  <2>1. rest \in Ahead(s) /\ rest \in AnyStream /\ rest.index > s.index /\ token \in Token
    BY <1>3, ConsumeCurrentAhead, StreamFields
  <2>2. KeepsAt(rest)
    BY <2>1 DEF KeepsBehind
  <2>3. /\ kind \notin LiteralKind => Before(rest) = Before(s)
        /\ kind \in LiteralKind => Before(rest) = Before(s) \o <<token>>
    BY <1>3, BeforeConsumed
  <2>4. kind \notin {"FunctionIdentifier", "BuiltIn"}
    <3>1. s.index < Len(s.tokens) /\ s.index \in Nat /\ s.tokens \in Seq(Token)
      BY <1>3, KindHasMore, StreamFields
    <3>2. s.index + 1 \in DOMAIN s.tokens /\ kind = s.tokens[s.index + 1].kind
      BY <3>1 DEF CurrentKind, HasMoreTokens, CurrentToken
    <3> QED BY <3>2 DEF NoFunctions
  <2>5. Before(s) \in Seq(Token) /\ Before(s) \o <<>> = Before(s)
    BY BeforeType
  <2>6. ParseIntegerLiteral(s) \in {Failed(ConsumeCurrent(Report(s))), Parsed(Literal(token), rest)}
    BY DEF ParseIntegerLiteral
  <2>7. /\ Leaves(Literal(token)) = <<token>> /\ <<token>> \in Seq(Token)
        /\ Leaves(Variable(token)) = <<>> /\ Leaves(Macro(token)) = <<>> /\ <<>> \in Seq(Token)
    BY <2>1, LeavesOf
  <2> HIDE DEF kind, token, rest
  <2>8. CASE kind \in UnaryOperator
    <3>1. kind \notin LiteralKind
      BY <2>8 DEF UnaryOperator, LiteralKind
    <3>2. ParseExpressionLhs(s) = ParseUnaryExpression(kind, rest)
      BY <1>1, <2>8 DEF UnaryOperator, LiteralKind
    <3> QED BY <2>1, <2>2, <2>3, <3>1, <3>2, UnaryKeeps
  <2>9. CASE kind \in {"LParen", "LSquare"}
    <3>1. kind \notin LiteralKind
      BY <2>9 DEF LiteralKind
    <3>2. ParseExpressionLhs(s) \in {ParseParenExpression(rest), ParseArraySubscriptExpression(rest)}
      BY <1>1, <2>9 DEF UnaryOperator, LiteralKind
    <3> QED BY <2>1, <2>2, <2>3, <3>1, <3>2, ClosedKeeps
  <2>10. CASE kind \in LiteralKind
    <3>1. ParseExpressionLhs(s) \in {ParseIntegerLiteral(s), Parsed(Literal(token), rest)}
      BY <1>1, <2>10 DEF UnaryOperator, LiteralKind
    <3>2. KeepsFrom(Before(s), Parsed(Literal(token), rest))
      BY <2>3, <2>7, <2>10, ParsedKeeps
    <3> QED BY <2>6, <3>1, <3>2, FailedKeeps
  <2>11. CASE kind \in {"VariableIdentifier", "Macro"}
    <3>1. kind \notin LiteralKind
      BY <2>11 DEF LiteralKind
    <3>2. ParseExpressionLhs(s) \in {Parsed(Variable(token), rest), Parsed(Macro(token), rest)}
      BY <1>1, <2>11 DEF UnaryOperator, LiteralKind
    <3> QED BY <2>3, <2>5, <2>7, <3>1, <3>2, ParsedKeeps
  <2>12. CASE kind \notin UnaryOperator \cup LiteralKind
                            \cup {"LParen", "LSquare", "VariableIdentifier", "Macro"}
    <3>1. ParseExpressionLhs(s) = Failed(s)
      BY <1>1, <2>4, <2>12 DEF LiteralKind
    <3> QED BY <3>1, FailedKeeps
  <2> QED BY <2>8, <2>9, <2>10, <2>11, <2>12
<1> QED BY <1>2, <1>3

LEMMA TighterKeeps ==
  ASSUME NEW s, KeepsAt(s), NEW operand, NEW operator, Leaves(operand) \in Seq(Token),
         NEW p \in Seq(Token), Before(s) = p \o Leaves(operand)
  PROVE  KeepsFrom(p, WithTighterRhs(operand, operator, s))
<1>1. \A precedence : KeepsFrom(p, ParseExpressionRhs(operand, s, precedence))
  BY DEF KeepsAt
<1> QED BY <1>1, ParsedKeeps DEF WithTighterRhs

LEMMA RhsKeeps ==
  ASSUME LeavesDescent, ExpressionDescent,
         NEW s \in AnyStream, NoFunctions(s), KeepsBehind(s),
         NEW lhs, NEW precedence, Leaves(lhs) \in Seq(Token),
         NEW p \in Seq(Token), Before(s) = p \o Leaves(lhs)
  PROVE  KeepsFrom(p, ExpressionRhsAt(lhs, s, precedence))
<1> DEFINE operator == CurrentKind(s)
           rest     == ConsumeCurrent(s)
           r        == ParseExpressionLhs(rest)
           q        == WithTighterRhs(r.tree[1], operator, r.stream)
           both     == Binary(lhs, operator, q.tree[1])
           loop     == ParseExpressionRhs(both, q.stream, precedence)
           goesOn   == operator \in BinaryOperator \/ operator = "OP_TernaryIf"
<1>1. ExpressionRhsAt(lhs, s, precedence) =
        IF ~goesOn THEN Parsed(lhs, s)
        ELSE IF Precedence(operator) < precedence THEN Parsed(lhs, rest)
        ELSE IF operator = "OP_TernaryIf" THEN ParseTernaryIfExpression(lhs, rest)
        ELSE IF r.tree = <<>> THEN r
        ELSE IF q.tree = <<>> THEN q
        ELSE loop
  BY RhsUnfolded
<1>2. CASE ~goesOn
  BY <1>1, <1>2, ParsedKeeps
<1>3. CASE goesOn
  <2>1. operator # "none" /\ operator \notin LiteralKind
    BY <1>3 DEF BinaryOperator, CompoundAssignment, Comparison, LiteralKind
  <2>2. /\ rest \in Ahead(s) /\ rest \in AnyStream /\ rest.index > s.index
        /\ rest.tokens = s.tokens
    BY <2>1, ConsumeCurrentAhead, AheadFields, StreamFields
  <2>3. KeepsAt(rest) /\ KeepsBehind(rest) /\ NoFunctions(rest)
    BY <2>2, KeepsBehindThere DEF KeepsBehind, NoFunctions
  <2>4. Before(rest) = p \o Leaves(lhs)
    BY <2>1, BeforeConsumed
  <2>5. KeepsFrom(p, Parsed(lhs, rest))
    BY <2>4, ParsedKeeps
  <2>6. KeepsFrom(p, ParseTernaryIfExpression(lhs, rest))
    BY <2>2, <2>3, <2>4, TernaryKeeps
  <2>7. /\ KeepsFrom(p \o Leaves(lhs), r)
        /\ r.stream \in Ahead(rest)
        /\ r.tree # <<>> => r.stream.index > rest.index
    <3>1. GoodBehind(rest)
      BY <2>2, AllGood, AheadFields DEF GoodBehind
    <3>2. MovesForward(rest, r)
      BY <2>2, <3>1, LhsForward
    <3> QED BY <2>2, <2>3, <2>4, <3>2, LhsKeeps DEF MovesForward
  <2>8. CASE r.tree # <<>>
    <3>1. /\ r.stream \in AnyStream /\ r.stream \in Ahead(s) /\ r.stream.index > s.index
          /\ r.stream.index > rest.index
      <4> HIDE DEF r, rest
      <4> QED BY <2>2, <2>7, <2>8, AheadIsTransitive, AheadFields, StreamFields
    <3>2. KeepsAt(r.stream)
      BY <3>1 DEF KeepsBehind
    <3>3. p \o Leaves(lhs) \in Seq(Token) /\ Leaves(r.tree[1]) \in Seq(Token)
          /\ Before(r.stream) = p \o Leaves(lhs) \o Leaves(r.tree[1])
      <4> HIDE DEF r
      <4> QED BY <2>7, <2>8 DEF KeepsFrom
    <3>4. KeepsFrom(p \o Leaves(lhs), q)
      <4> HIDE DEF r
      <4> QED BY <3>2, <3>3, TighterKeeps
    <3>5. MovesOn(r.stream, q)
      <4>1. Good(r.stream)
        BY <3>1, AllGood
      <4> HIDE DEF r
      <4> QED BY <3>1, <4>1, StreamFields DEF Good, MovesOn, Parsed, WithTighterRhs
    <3>6. q.stream \in Ahead(s) /\ q.stream.index > s.index
      <4> HIDE DEF r, q
      <4> QED BY <3>1, <3>5, AheadIsTransitive, AheadFields, StreamFields DEF MovesOn
    <3>7. CASE q.tree # <<>>
      <4>1. /\ Leaves(q.tree[1]) \in Seq(Token)
            /\ Before(q.stream) = p \o Leaves(lhs) \o Leaves(q.tree[1])
        <5> HIDE DEF q
        <5> QED BY <3>4, <3>7 DEF KeepsFrom
      <4>2. Leaves(both) = Leaves(lhs) \o Leaves(q.tree[1])
        BY LeavesOf
      <4> HIDE DEF q, both
      <4>3. Leaves(both) \in Seq(Token) /\ Before(q.stream) = p \o Leaves(both)
        BY <4>1, <4>2, ConcatProperties, ConcatAssociative
      <4>4. KeepsAt(q.stream)
        BY <3>6 DEF KeepsBehind
      <4>5. KeepsFrom(p, loop)
        BY <4>3, <4>4 DEF KeepsAt
      <4> HIDE DEF operator, rest, r, loop
      <4> QED BY <1>1, <1>3, <2>5, <2>6, <2>8, <3>7, <4>5
    <3>8. CASE q.tree = <<>>
      <4> HIDE DEF operator, rest, r, q, both, loop
      <4>1. KeepsFrom(p, q)
        BY <3>8 DEF KeepsFrom
      <4> QED BY <1>1, <1>3, <2>5, <2>6, <2>8, <3>8, <4>1
    <3> QED BY <3>7, <3>8
  <2>9. CASE r.tree = <<>>
    <3> HIDE DEF operator, rest, r, q, both, loop
    <3>1. KeepsFrom(p, r)
      BY <2>9 DEF KeepsFrom
    <3> QED BY <1>1, <1>3, <2>5, <2>6, <2>9, <3>1
  <2> QED BY <2>8, <2>9
<1> QED BY <1>2, <1>3

LEMMA ExpressionKeeps ==
  ASSUME LeavesDescent, ExpressionDescent,
         NEW s \in AnyStream, NoFunctions(s), KeepsBehind(s)
  PROVE  KeepsFrom(Before(s), ParseExpression(s))
<1> DEFINE r == ParseExpressionLhs(s)
           q == ParseExpressionRhs(r.tree[1], r.stream, 0)
<1>1. ParseExpression(s) = IF r.tree = <<>> THEN r ELSE q
  BY ExpressionUnfolded
<1>2. KeepsFrom(Before(s), r) /\ Before(s) \in Seq(Token)
  BY LhsKeeps, BeforeType
<1>3. MovesForward(s, r)
  <2>1. GoodBehind(s)
    BY AllGood, AheadFields DEF GoodBehind
  <2> QED BY <2>1, LhsForward
<1>4. CASE r.tree # <<>>
  <2>1. KeepsAt(r.stream)
    BY <1>3, <1>4 DEF MovesForward, KeepsBehind
  <2>2. Leaves(r.tree[1]) \in Seq(Token) /\ Before(r.stream) = Before(s) \o Leaves(r.tree[1])
    <3> HIDE DEF r
    <3> QED BY <1>2, <1>4 DEF KeepsFrom
  <2>3. KeepsFrom(Before(s), q)
    BY <1>2, <2>1, <2>2 DEF KeepsAt
  <2> HIDE DEF r, q
  <2> QED BY <1>1, <1>4, <2>3
<1>5. CASE r.tree = <<>>
  <2> HIDE DEF r, q
  <2> QED BY <1>1, <1>2, <1>5
<1> QED BY <1>4, <1>5

\* By the number of tokens left.
LEMMA AllKeep ==
  ASSUME LeavesDescent, ExpressionDescent
  PROVE  \A s \in AnyStream : NoFunctions(s) => KeepsAt(s)
<1> DEFINE Left(s) == Len(s.tokens) - s.index
           Bad     == {s \in AnyStream : NoFunctions(s) /\ ~KeepsAt(s)}
<1>1. \A s \in AnyStream : Left(s) \in Nat
  BY StreamFields
<1>2. SUFFICES ASSUME Bad # {} PROVE FALSE
  OBVIOUS
<1>3. PICK s \in Bad : \A t \in Bad : Left(s) <= Left(t)
  <2> DEFINE T == {Left(t) : t \in Bad}
  <2>1. T \in SUBSET Nat /\ T # {}
    BY <1>1, <1>2
  <2>2. PICK n \in T : \A m \in T : n <= m
    <3> HIDE DEF T
    <3> QED BY <2>1, NatLeast
  <2> QED BY <2>2
<1>4. s \in AnyStream /\ NoFunctions(s) /\ ~KeepsAt(s)
  BY <1>3
<1>5. KeepsBehind(s)
  <2> SUFFICES ASSUME NEW t \in Ahead(s), t.index > s.index PROVE KeepsAt(t)
    BY DEF KeepsBehind
  <2>1. t \in AnyStream /\ Left(t) < Left(s) /\ t.tokens = s.tokens
    BY <1>4, StreamFields, AheadFields
  <2>2. NoFunctions(t)
    BY <1>4, <2>1 DEF NoFunctions
  <2>3. t \notin Bad
    BY <1>1, <1>3, <1>4, <2>1
  <2> QED BY <2>1, <2>2, <2>3
<1>6. KeepsFrom(Before(s), ParseExpression(s))
  BY <1>4, <1>5, ExpressionKeeps
<1>7. ASSUME NEW lhs, NEW precedence, NEW p \in Seq(Token),
             Leaves(lhs) \in Seq(Token), Before(s) = p \o Leaves(lhs)
      PROVE  KeepsFrom(p, ParseExpressionRhs(lhs, s, precedence))
  <2>1. ParseExpressionRhs(lhs, s, precedence) = ExpressionRhsAt(lhs, s, precedence)
    BY <1>4 DEF ExpressionDescent
  <2> QED BY <1>4, <1>5, <1>7, <2>1, RhsKeeps
<1>8. KeepsAt(s)
  BY <1>6, <1>7 DEF KeepsAt
<1> QED BY <1>4, <1>8

\* No call is at hand before the tokens are read.
KeptInv ==
  /\ ~parsed => stream \in AnyStream /\ stream.index = 0
  /\ OperandsKept

\* Whatever is written, the literals of what is read are those of the tokens that
\* it is read from, each once and in order: the places where an operator is
\* consumed and dropped lose no operand with it.
THEOREM LiteralsAreKept ==
  ASSUME LeavesDescent, ExpressionDescent
  PROVE  Spec => []OperandsKept
<1>1. Init => KeptInv
  <2> SUFFICES ASSUME Init PROVE KeptInv
    OBVIOUS
  <2>1. stream \in AnyStream /\ stream.index = 0
    BY StreamType, SourceAssumption, WrittenAssumption DEF Init
  <2>2. parsed = FALSE
    BY DEF Init
  <2> QED BY <2>1, <2>2 DEF KeptInv, OperandsKept, ExpressionParsed
<1>2. KeptInv /\ [Parse]_vars => KeptInv'
  <2> SUFFICES ASSUME KeptInv, [Parse]_vars PROVE KeptInv'
    OBVIOUS
  <2>1. CASE UNCHANGED vars
    BY <2>1 DEF KeptInv, OperandsKept, ExpressionParsed, vars
  <2>2. CASE Parse
    <3> DEFINE r == ParseExpression(stream)
    <3>1. /\ ~parsed /\ parsed' = TRUE /\ trees' = r.tree /\ stream' = r.stream
          /\ stream \in AnyStream /\ stream.index = 0
      BY <2>2 DEF Parse, Returns, KeptInv
    <3>2. r.stream.tokens = stream.tokens
      BY <3>1, ExpressionsMoveForward, AheadFields DEF MovesForward
    <3>3. Before(stream) = <<>>
      BY <3>1, StreamFields, LiteralsAre DEF Before
    <3>4. NoFunctions(stream) => KeepsFrom(<<>>, r)
      BY <3>1, <3>3, AllKeep DEF KeepsAt
    <3> HIDE DEF r
    <3> SUFFICES ASSUME r.tree # <<>>, NoFunctions(r.stream)
                 PROVE  Leaves(r.tree[1]) = Before(r.stream)
      BY <3>1 DEF KeptInv, OperandsKept, ExpressionParsed, NoFunctions, Before
    <3>5. NoFunctions(stream)
      BY <3>2 DEF NoFunctions
    <3>6. Leaves(r.tree[1]) \in Seq(Token) /\ Before(r.stream) = <<>> \o Leaves(r.tree[1])
      BY <3>4, <3>5 DEF KeepsFrom
    <3> QED BY <3>6, ConcatEmptySeq
  <2> QED BY <2>1, <2>2
<1>3. KeptInv => OperandsKept
  BY DEF KeptInv
<1> QED BY <1>1, <1>2, <1>3, PTL DEF Spec

-----------------------------------------------------------------------------
(* Chains.                                                                 *)

LEMMA LevelIs ==
  ASSUME NEW operator \in ChainOperator
  PROVE  /\ Level(operator) \in 1 .. 6
         /\ Precedence(operator) = 10 * Level(operator)
         /\ operator \in BinaryOperator /\ operator # "OP_TernaryIf"
<1>1. DOMAIN Levels = 1 .. 6
  BY DEF Levels
<1>2. \E i \in 1 .. 6 : operator \in Levels[i]
  <2>1. /\ operator \in Comparison \cup {"KW_And", "KW_Or", "OP_Plus", "OP_Minus",
             "OP_Multiply", "OP_Divide", "OP_Raise", "OP_Concatenate"}
    BY DEF ChainOperator, BinaryOperator
  <2>2. operator \in Levels[1] \cup Levels[2] \cup Levels[3] \cup Levels[4] \cup Levels[5] \cup Levels[6]
    BY <2>1 DEF Levels
  <2> QED BY <2>2
<1>3. Level(operator) \in 1 .. 6 /\ operator \in Levels[Level(operator)]
  BY <1>1, <1>2 DEF Level
<1> DEFINE level == Level(operator)
<1> HIDE DEF level
<1>4. /\ level = 1 => operator \in {"KW_And", "KW_Or"}
      /\ level = 2 => operator \in Comparison
      /\ level = 3 => operator = "OP_Concatenate"
      /\ level = 4 => operator \in {"OP_Plus", "OP_Minus"}
      /\ level = 5 => operator \in {"OP_Multiply", "OP_Divide"}
      /\ level = 6 => operator = "OP_Raise"
  BY <1>3 DEF Levels, level
<1>5. level \in {1, 2, 3, 4, 5, 6}
  BY <1>3 DEF level
<1>6. Precedence(operator) = 10 * level
  BY <1>4, <1>5 DEF Precedence, Comparison
<1>7. operator \in BinaryOperator /\ operator # "OP_TernaryIf"
  BY DEF ChainOperator, BinaryOperator, CompoundAssignment, Comparison
<1> QED BY <1>3, <1>6, <1>7 DEF level

LEMMA ChainShape ==
  ASSUME NEW ts \in Seq(Token), IsChain(ts)
  PROVE  LET n         == Operands(ts)
             operators == OperatorsOf(ts)
         IN  /\ n \in Nat /\ n >= 1 /\ Len(ts) = 2 * n - 1 /\ Len(operators) = n - 1
             /\ \A k \in 1 .. n : ts[2 * k - 1] \in LiteralToken
             /\ \A k \in 1 .. n - 1 :
                  operators[k] = ts[2 * k].kind /\ operators[k] \in ChainOperator
<1> DEFINE n         == Operands(ts)
           operators == OperatorsOf(ts)
<1>1. Len(ts) \in Nat /\ Len(ts) % 2 = 1 /\ DOMAIN ts = 1 .. Len(ts)
  BY DEF IsChain
<1>2. n \in Nat /\ n >= 1 /\ Len(ts) = 2 * n - 1
  BY <1>1 DEF Operands
<1> HIDE DEF n
<1>3. ASSUME NEW k \in 1 .. n PROVE ts[2 * k - 1] \in LiteralToken
  <2>1. 2 * k - 1 \in DOMAIN ts /\ (2 * k - 1) % 2 = 1
    BY <1>1, <1>2
  <2> QED BY <2>1 DEF IsChain
<1>4. ASSUME NEW k \in 1 .. n - 1 PROVE ts[2 * k].kind \in ChainOperator
  <2>1. 2 * k \in DOMAIN ts /\ (2 * k) % 2 # 1
    BY <1>1, <1>2
  <2> QED BY <2>1 DEF IsChain
<1>5. operators = [k \in 1 .. n - 1 |-> ts[2 * k].kind]
  BY DEF OperatorsOf, n
<1>6. operators \in Seq(ChainOperator) /\ Len(operators) = n - 1
  BY <1>2, <1>4, <1>5
<1> QED BY <1>2, <1>3, <1>4, <1>5, <1>6 DEF n

\* An operator as loose as any before it, and looser than any behind it.
LEMMA ChainTreeSplits ==
  ASSUME NEW ts \in Seq(Token), IsChain(ts), HasChainTrees(ts),
         NEW last \in 1 .. Operands(ts), NEW first \in 1 .. last, NEW k \in first .. last - 1,
         \A i \in first .. k : Level(OperatorsOf(ts)[k]) <= Level(OperatorsOf(ts)[i]),
         \A i \in k + 1 .. last - 1 : Level(OperatorsOf(ts)[k]) < Level(OperatorsOf(ts)[i])
  PROVE  ChainTree(ts, first, last) =
           Binary(ChainTree(ts, first, k), OperatorsOf(ts)[k], ChainTree(ts, k + 1, last))
<1> DEFINE operators == OperatorsOf(ts)
           L(i)      == Level(operators[i])
           IsRoot(i) == /\ \A j \in first .. last - 1 : L(i) <= L(j)
                        /\ \A j \in i + 1 .. last - 1 : L(i) < L(j)
<1>1. /\ Operands(ts) \in Nat /\ first \in Nat /\ last \in Nat /\ k \in Nat
      /\ \A i \in first .. last - 1 : L(i) \in 1 .. 6
  <2>1. Operands(ts) \in Nat
    BY ChainShape
  <2>2. ASSUME NEW i \in first .. last - 1 PROVE L(i) \in 1 .. 6
    <3>1. i \in 1 .. Operands(ts) - 1
      BY <2>1
    <3>2. operators[i] \in ChainOperator
      BY <3>1, ChainShape
    <3> QED BY <3>2, LevelIs
  <2> QED BY <2>1, <2>2
<1>2. Root(operators, first, last) = CHOOSE i \in first .. last - 1 : IsRoot(i)
  BY DEF Root
<1>3. ChainTree(ts, first, last) = ChainTreeAs(ts, first, last) /\ first # last
  BY <1>1 DEF HasChainTrees
<1>4. /\ \A i \in first .. k : L(k) <= L(i)
      /\ \A i \in k + 1 .. last - 1 : L(k) < L(i)
  OBVIOUS
<1> HIDE DEF L, operators
<1>5. IsRoot(k)
  BY <1>1, <1>4
<1>6. \A i \in first .. last - 1 : IsRoot(i) => i = k
  <2> SUFFICES ASSUME NEW i \in first .. last - 1, IsRoot(i), i # k PROVE FALSE
    OBVIOUS
  <2>3. \A j \in i + 1 .. last - 1 : L(i) < L(j)
    OBVIOUS
  <2>4. \A j \in first .. last - 1 : L(i) <= L(j)
    OBVIOUS
  <2>1. CASE i < k
    <3>1. k \in i + 1 .. last - 1 /\ i \in first .. k /\ L(i) \in Int /\ L(k) \in Int
      BY <1>1, <2>1
    <3>2. L(i) < L(k)
      BY <2>3, <3>1
    <3>3. L(k) <= L(i)
      BY <1>4, <3>1
    <3> QED BY <3>1, <3>2, <3>3
  <2>2. CASE i > k
    <3>1. i \in k + 1 .. last - 1 /\ k \in first .. last - 1 /\ L(i) \in Int /\ L(k) \in Int
      BY <1>1, <2>2
    <3>2. L(i) <= L(k)
      BY <2>4, <3>1
    <3>3. L(k) < L(i)
      BY <1>4, <3>1
    <3> QED BY <3>1, <3>2, <3>3
  <2> QED BY <1>1, <2>1, <2>2
<1>7. Root(operators, first, last) = k
  <2> HIDE DEF IsRoot
  <2> QED BY <1>2, <1>5, <1>6
<1> QED BY <1>3, <1>7 DEF ChainTreeAs, operators

LEMMA ChainTreeOfOne ==
  ASSUME NEW ts \in Seq(Token), IsChain(ts), HasChainTrees(ts), NEW k \in 1 .. Operands(ts)
  PROVE  ChainTree(ts, k, k) = Literal(ts[2 * k - 1])
BY ChainShape DEF HasChainTrees, ChainTreeAs

-----------------------------------------------------------------------------

LEMMA LiteralRead ==
  ASSUME NEW s \in AnyStream, CurrentKind(s) # "none", CurrentToken(s) \in LiteralToken
  PROVE  ParseExpressionLhs(s) = Parsed(Literal(CurrentToken(s)), ConsumeCurrent(s))
<1> DEFINE token == CurrentToken(s)
<1>1. CurrentKind(s) = token.kind
  BY DEF CurrentKind
<1>2. /\ token.kind \in LiteralKind /\ token.kind \notin UnaryOperator
      /\ token.kind \notin {"LParen", "LSquare"}
      /\ token.kind = "IntegerLiteral" => token.text \notin TooLarge
  BY DEF LiteralToken, LiteralKind, UnaryOperator
<1> HIDE DEF token
<1>3. CASE token.kind = "IntegerLiteral"
  <2>1. ParseExpressionLhs(s) = ParseIntegerLiteral(s)
    BY <1>1, <1>2, <1>3 DEF ParseExpressionLhs, IsUnaryOperator
  <2> QED BY <1>2, <1>3, <2>1 DEF ParseIntegerLiteral, token
<1>4. CASE token.kind # "IntegerLiteral"
  BY <1>1, <1>2, <1>4 DEF ParseExpressionLhs, IsUnaryOperator, LiteralKind, token
<1> QED BY <1>3, <1>4

\* A stream of a chain at its operand k, or behind it.
AtOperand(ts, k, s)     == s \in AnyStream /\ s.tokens = ts /\ s.index = 2 * k - 2
BehindOperand(ts, k, s) == s \in AnyStream /\ s.tokens = ts /\ s.index = 2 * k - 1

LEMMA OperandRead ==
  ASSUME NEW ts \in Seq(Token), IsChain(ts), NEW k \in 1 .. Operands(ts),
         NEW s, AtOperand(ts, k, s)
  PROVE  /\ ParseExpressionLhs(s) = Parsed(Literal(ts[2 * k - 1]), ConsumeCurrent(s))
         /\ BehindOperand(ts, k, ConsumeCurrent(s))
         /\ Ends(s)
<1>1. /\ s \in AnyStream /\ s.index < Len(s.tokens) /\ s.index + 1 = 2 * k - 1
      /\ ts[2 * k - 1] \in LiteralToken
  BY ChainShape DEF AtOperand
<1>2. CurrentToken(s) = ts[2 * k - 1]
  BY <1>1 DEF CurrentToken, AtOperand
<1>3. CurrentKind(s) = ts[2 * k - 1].kind
  BY <1>1, <1>2 DEF CurrentKind, HasMoreTokens
<1>4. ts[2 * k - 1].kind \in LiteralKind
  BY <1>1 DEF LiteralToken
<1>5. CurrentKind(s) # "none" /\ Ends(s)
  BY <1>3, <1>4
     DEF LiteralKind, Ends, BinaryOperator, CompoundAssignment, Comparison
<1>6. ParseExpressionLhs(s) = Parsed(Literal(ts[2 * k - 1]), ConsumeCurrent(s))
  BY <1>1, <1>2, <1>5, LiteralRead
<1>7. BehindOperand(ts, k, ConsumeCurrent(s))
  BY <1>1, <1>5, ConsumeCurrentAhead, AheadFields DEF AtOperand, BehindOperand
<1> QED BY <1>5, <1>6, <1>7

LEMMA OperatorRead ==
  ASSUME NEW ts \in Seq(Token), IsChain(ts), NEW k \in 1 .. Operands(ts),
         NEW s, BehindOperand(ts, k, s)
  PROVE  /\ k = Operands(ts) => CurrentKind(s) = "none" /\ Ends(s) /\ s.index = Len(ts)
         /\ k < Operands(ts) =>
              /\ CurrentKind(s) = OperatorsOf(ts)[k]
              /\ AtOperand(ts, k + 1, ConsumeCurrent(s))
<1>1. /\ Operands(ts) \in Nat /\ Len(ts) = 2 * Operands(ts) - 1
      /\ s \in AnyStream /\ s.tokens = ts /\ s.index = 2 * k - 1
  BY ChainShape DEF BehindOperand
<1>2. CASE k = Operands(ts)
  BY <1>1, <1>2
     DEF CurrentKind, HasMoreTokens, Ends, BinaryOperator, CompoundAssignment, Comparison
<1>3. CASE k < Operands(ts)
  <2>1. k \in 1 .. Operands(ts) - 1 /\ s.index < Len(s.tokens) /\ s.index + 1 = 2 * k
    BY <1>1, <1>3
  <2>2. OperatorsOf(ts)[k] = ts[2 * k].kind /\ OperatorsOf(ts)[k] \in ChainOperator
    BY <2>1, ChainShape
  <2>3. CurrentKind(s) = OperatorsOf(ts)[k]
    BY <1>1, <2>1, <2>2 DEF CurrentKind, HasMoreTokens, CurrentToken
  <2>4. CurrentKind(s) # "none"
    BY <2>2, <2>3 DEF ChainOperator, BinaryOperator, CompoundAssignment, Comparison
  <2>5. AtOperand(ts, k + 1, ConsumeCurrent(s))
    <3>1. 2 * (k + 1) - 2 = s.index + 1
      BY <1>1
    <3> QED BY <1>1, <2>4, <3>1, ConsumeCurrentAhead, AheadFields DEF AtOperand
  <2> QED BY <1>3, <2>3, <2>5
<1> QED BY <1>1, <1>2, <1>3

-----------------------------------------------------------------------------

\* The operators from the k-th on never fall back, below a precedence neither.
TailFits(ts, k, precedence) ==
  LET operators == OperatorsOf(ts)
  IN  /\ \A i \in k .. Operands(ts) - 2 :
           Level(operators[i]) < Level(operators[i + 1]) =>
             \A j \in i + 1 .. Operands(ts) - 1 : Level(operators[i]) < Level(operators[j])
      /\ \A i \in k .. Operands(ts) - 1 : Precedence(operators[i]) >= precedence

LEMMA TailFitsNext ==
  ASSUME NEW ts \in Seq(Token), IsChain(ts), NEW k \in 1 .. Operands(ts) - 1,
         NEW precedence \in Nat, Precedence(OperatorsOf(ts)[k]) >= precedence,
         k + 1 < Operands(ts) => Level(OperatorsOf(ts)[k + 1]) <= Level(OperatorsOf(ts)[k])
  PROVE  TailFits(ts, k, precedence) <=> TailFits(ts, k + 1, precedence)
<1> DEFINE n    == Operands(ts)
           L(i) == Level(OperatorsOf(ts)[i])
           P(i) == Precedence(OperatorsOf(ts)[i])
<1>1. n \in Nat /\ k \in Nat /\ \A i \in k .. n - 1 : L(i) \in 1 .. 6 /\ P(i) \in Nat
  <2>1. n \in Nat
    BY ChainShape
  <2>2. \A i \in 1 .. n - 1 : OperatorsOf(ts)[i] \in ChainOperator
    BY ChainShape
  <2> SUFFICES ASSUME NEW i \in k .. n - 1 PROVE L(i) \in 1 .. 6 /\ P(i) \in Nat
    BY <2>1
  <2>3. OperatorsOf(ts)[i] \in ChainOperator
    BY <2>1, <2>2
  <2> QED BY <2>3, LevelIs
<1>2. /\ TailFits(ts, k, precedence) =
           /\ \A i \in k .. n - 2 : L(i) < L(i + 1) => \A j \in i + 1 .. n - 1 : L(i) < L(j)
           /\ \A i \in k .. n - 1 : P(i) >= precedence
      /\ TailFits(ts, k + 1, precedence) =
           /\ \A i \in k + 1 .. n - 2 : L(i) < L(i + 1) => \A j \in i + 1 .. n - 1 : L(i) < L(j)
           /\ \A i \in k + 1 .. n - 1 : P(i) >= precedence
  BY DEF TailFits
<1>3. P(k) >= precedence /\ (k + 1 < n => L(k + 1) <= L(k))
  OBVIOUS
<1> HIDE DEF n, L, P
<1>4. /\ k .. n - 1 = {k} \cup (k + 1 .. n - 1)
      /\ k + 1 < n => k .. n - 2 = {k} \cup (k + 1 .. n - 2)
      /\ ~(k + 1 < n) => k .. n - 2 = {} /\ k + 1 .. n - 2 = {}
  BY <1>1 DEF n
<1>5. k + 1 < n => ~(L(k) < L(k + 1))
  BY <1>1, <1>3
<1> QED BY <1>2, <1>3, <1>4, <1>5

LEMMA TailFitsTighter ==
  ASSUME NEW ts \in Seq(Token), IsChain(ts), NEW k \in 1 .. Operands(ts) - 2,
         NEW precedence \in Nat, Precedence(OperatorsOf(ts)[k]) >= precedence,
         Level(OperatorsOf(ts)[k]) < Level(OperatorsOf(ts)[k + 1])
  PROVE  TailFits(ts, k, precedence)
           <=> TailFits(ts, k + 1, Precedence(OperatorsOf(ts)[k]) + 1)
<1> DEFINE n    == Operands(ts)
           L(i) == Level(OperatorsOf(ts)[i])
           P(i) == Precedence(OperatorsOf(ts)[i])
<1>1. n \in Nat /\ k \in Nat /\ \A i \in k .. n - 1 : L(i) \in 1 .. 6 /\ P(i) = 10 * L(i)
  <2>1. n \in Nat
    BY ChainShape
  <2>2. \A i \in 1 .. n - 1 : OperatorsOf(ts)[i] \in ChainOperator
    BY ChainShape
  <2> QED BY <2>1, <2>2, LevelIs
<1>2. /\ TailFits(ts, k, precedence) =
           /\ \A i \in k .. n - 2 : L(i) < L(i + 1) => \A j \in i + 1 .. n - 1 : L(i) < L(j)
           /\ \A i \in k .. n - 1 : P(i) >= precedence
      /\ TailFits(ts, k + 1, P(k) + 1) =
           /\ \A i \in k + 1 .. n - 2 : L(i) < L(i + 1) => \A j \in i + 1 .. n - 1 : L(i) < L(j)
           /\ \A i \in k + 1 .. n - 1 : P(i) >= P(k) + 1
  BY DEF TailFits
<1>3. P(k) >= precedence /\ L(k) < L(k + 1) /\ k \in k .. n - 1
  BY <1>1
<1> HIDE DEF n, L, P
<1>4. k .. n - 1 = {k} \cup (k + 1 .. n - 1) /\ k .. n - 2 = {k} \cup (k + 1 .. n - 2)
  BY <1>1 DEF n
<1>5. ASSUME NEW j \in k + 1 .. n - 1
      PROVE  /\ L(k) < L(j) <=> P(j) >= P(k) + 1
             /\ P(j) >= P(k) + 1 => P(j) >= precedence
  <2>1. L(k) \in Nat /\ P(k) = 10 * L(k)
    BY <1>1, <1>3
  <2>2. L(j) \in Nat /\ P(j) = 10 * L(j)
    <3>1. j \in k .. n - 1
      BY <1>1
    <3> QED BY <1>1, <3>1
  <2>3. P(k) >= precedence
    BY <1>3
  <2> QED BY <2>1, <2>2, <2>3
<1> DEFINE Rest   == \A i \in k + 1 .. n - 2 :
                       L(i) < L(i + 1) => \A j \in i + 1 .. n - 1 : L(i) < L(j)
           Higher == \A j \in k + 1 .. n - 1 : L(k) < L(j)
<1>6. (\A i \in k .. n - 2 : L(i) < L(i + 1) => \A j \in i + 1 .. n - 1 : L(i) < L(j))
        <=> Rest /\ Higher
  BY <1>3, <1>4
<1>7. (\A i \in k + 1 .. n - 1 : P(i) >= P(k) + 1) <=> Higher
  BY <1>5
<1>8. Higher => \A i \in k .. n - 1 : P(i) >= precedence
  BY <1>3, <1>4, <1>5
<1> HIDE DEF Rest, Higher
<1>9. TailFits(ts, k, precedence) = (Rest /\ Higher)
  BY <1>2, <1>6, <1>8
<1>10. TailFits(ts, k + 1, P(k) + 1) = (Rest /\ Higher)
  BY <1>2, <1>7 DEF Rest
<1> QED BY <1>9, <1>10 DEF P

\* The operators from first to the k-th, where there is one, get no tighter.
Descends(ts, first, k) ==
  \A j \in first .. k : \A i \in first .. j :
    j < Operands(ts) => Level(OperatorsOf(ts)[j]) <= Level(OperatorsOf(ts)[i])

LEMMA DescendsNext ==
  ASSUME NEW ts \in Seq(Token), IsChain(ts), NEW k \in 1 .. Operands(ts) - 1,
         NEW first \in 1 .. k, Descends(ts, first, k),
         k + 1 < Operands(ts) => Level(OperatorsOf(ts)[k + 1]) <= Level(OperatorsOf(ts)[k])
  PROVE  Descends(ts, first, k + 1)
<1> DEFINE n    == Operands(ts)
           L(i) == Level(OperatorsOf(ts)[i])
<1>1. n \in Nat /\ k \in Nat /\ first \in Nat /\ \A i \in 1 .. n - 1 : L(i) \in 1 .. 6
  <2>1. n \in Nat
    BY ChainShape
  <2>2. \A i \in 1 .. n - 1 : OperatorsOf(ts)[i] \in ChainOperator
    BY ChainShape
  <2> QED BY <2>1, <2>2, LevelIs
<1>2. \A j \in first .. k : \A i \in first .. j : j < n => L(j) <= L(i)
  BY DEF Descends
<1>3. k + 1 < n => L(k + 1) <= L(k)
  OBVIOUS
<1>4. SUFFICES ASSUME NEW j \in first .. k + 1, NEW i \in first .. j, j < n
               PROVE  L(j) <= L(i)
  BY DEF Descends
<1> HIDE DEF L
<1>5. CASE j <= k
  <2>1. j \in first .. k
    BY <1>1, <1>5
  <2> QED BY <1>2, <1>4, <2>1
<1>6. CASE j = k + 1
  <2>1. CASE i = j
    <3>1. L(i) \in 1 .. 6
      <4>1. i \in 1 .. n - 1
        BY <1>1, <1>4, <2>1
      <4> QED BY <1>1, <4>1
    <3> QED BY <2>1, <3>1
  <2>2. CASE i # j
    <3>1. /\ i \in first .. k /\ k \in first .. k /\ k < n
          /\ i \in 1 .. n - 1 /\ k \in 1 .. n - 1 /\ j \in 1 .. n - 1
      BY <1>1, <1>4, <1>6, <2>2
    <3>2. L(k) <= L(i) /\ L(j) <= L(k)
      BY <1>2, <1>3, <1>4, <1>6, <3>1
    <3>3. L(i) \in 1 .. 6 /\ L(j) \in 1 .. 6 /\ L(k) \in 1 .. 6
      BY <1>1, <3>1
    <3> QED BY <3>2, <3>3
  <2> QED BY <2>1, <2>2
<1>7. j \in Int
  BY <1>1
<1> QED BY <1>1, <1>5, <1>6, <1>7

\* Left to right as long as operators get no tighter.
LEMMA ChainTreeGrows ==
  ASSUME NEW ts \in Seq(Token), IsChain(ts), HasChainTrees(ts),
         NEW k \in 1 .. Operands(ts) - 1, NEW first \in 1 .. k, Descends(ts, first, k)
  PROVE  ChainTree(ts, first, k + 1) =
           Binary(ChainTree(ts, first, k), OperatorsOf(ts)[k], Literal(ts[2 * k + 1]))
<1>1. /\ Operands(ts) \in Nat /\ k + 1 \in 1 .. Operands(ts) /\ first \in 1 .. k + 1
      /\ k \in first .. (k + 1) - 1 /\ 2 * (k + 1) - 1 = 2 * k + 1
      /\ (k + 1) .. (k + 1) - 1 = {} /\ k < Operands(ts)
  BY ChainShape
<1>2. \A i \in first .. k : Level(OperatorsOf(ts)[k]) <= Level(OperatorsOf(ts)[i])
  BY <1>1 DEF Descends
<1>3. ChainTree(ts, k + 1, k + 1) = Literal(ts[2 * k + 1])
  BY <1>1, ChainTreeOfOne
<1> DEFINE last == k + 1
<1>4. /\ last \in 1 .. Operands(ts) /\ first \in 1 .. last /\ k \in first .. last - 1
      /\ \A i \in k + 1 .. last - 1 : Level(OperatorsOf(ts)[k]) < Level(OperatorsOf(ts)[i])
  BY <1>1
<1> HIDE DEF last
<1>5. ChainTree(ts, first, last) =
        Binary(ChainTree(ts, first, k), OperatorsOf(ts)[k], ChainTree(ts, k + 1, last))
  BY <1>2, <1>4, ChainTreeSplits
<1> QED BY <1>3, <1>5 DEF last

LEMMA ChainTreeRises ==
  ASSUME NEW ts \in Seq(Token), IsChain(ts), HasChainTrees(ts),
         NEW k \in 1 .. Operands(ts) - 2, NEW first \in 1 .. k, Descends(ts, first, k),
         NEW precedence, TailFits(ts, k, precedence),
         Level(OperatorsOf(ts)[k]) < Level(OperatorsOf(ts)[k + 1])
  PROVE  ChainTree(ts, first, Operands(ts)) =
           Binary(ChainTree(ts, first, k), OperatorsOf(ts)[k],
                  ChainTree(ts, k + 1, Operands(ts)))
<1> DEFINE n == Operands(ts)
<1>1. n \in Nat /\ k < n
  BY ChainShape
<1>2. \A i \in first .. k : Level(OperatorsOf(ts)[k]) <= Level(OperatorsOf(ts)[i])
  BY <1>1 DEF Descends
<1>3. \A i \in k + 1 .. n - 1 : Level(OperatorsOf(ts)[k]) < Level(OperatorsOf(ts)[i])
  <2>1. k \in k .. n - 2
    BY <1>1
  <2> QED BY <2>1 DEF TailFits
<1>4. n \in 1 .. Operands(ts) /\ first \in 1 .. n /\ k \in first .. n - 1
  BY <1>1
<1> QED BY <1>2, <1>3, <1>4, ChainTreeSplits

-----------------------------------------------------------------------------

\* What is read behind the k-th operand: the rest of the chain, or an end in it
\* when the operators fall back.
ReadsTo(ts, k, precedence, r) ==
  /\ r.tree # <<>>
  /\ IF TailFits(ts, k, precedence)
       THEN BehindOperand(ts, Operands(ts), r.stream)
       ELSE \E j \in 1 .. Operands(ts) : AtOperand(ts, j, r.stream)

ReadsTree(ts, k, precedence, lhs, r) ==
  TailFits(ts, k, precedence) =>
    \A first \in 1 .. k :
      Descends(ts, first, k) /\ lhs = ChainTree(ts, first, k) =>
        r.tree = <<ChainTree(ts, first, Operands(ts))>>

ReadsTail(ts, k) ==
  \A s, lhs : \A precedence \in Nat : BehindOperand(ts, k, s) =>
    /\ ReadsTo(ts, k, precedence, ParseExpressionRhs(lhs, s, precedence))
    /\ ReadsTree(ts, k, precedence, lhs, ParseExpressionRhs(lhs, s, precedence))

LEMMA EndReads ==
  ASSUME ExpressionDescent, NEW ts \in Seq(Token), IsChain(ts)
  PROVE  ReadsTail(ts, Operands(ts))
<1> DEFINE n == Operands(ts)
<1> SUFFICES ASSUME NEW s, NEW lhs, NEW precedence \in Nat, BehindOperand(ts, n, s)
             PROVE  LET r == ParseExpressionRhs(lhs, s, precedence)
                    IN  /\ ReadsTo(ts, n, precedence, r)
                        /\ ReadsTree(ts, n, precedence, lhs, r)
  BY DEF ReadsTail
<1>1. n \in Nat /\ n \in 1 .. n /\ n .. n - 1 = {} /\ n .. n - 2 = {}
  BY ChainShape
<1>2. s \in AnyStream /\ Ends(s)
  BY <1>1, OperatorRead DEF BehindOperand
<1>3. ParseExpressionRhs(lhs, s, precedence) = Parsed(lhs, s)
  BY <1>2, RhsEnds
<1>4. TailFits(ts, n, precedence)
  BY <1>1 DEF TailFits
<1> QED BY <1>1, <1>3, <1>4, ParsedFields DEF ReadsTo, ReadsTree, Parsed

LEMMA OperatorReads ==
  ASSUME ExpressionDescent, NEW ts \in Seq(Token), IsChain(ts), HasChainTrees(ts),
         NEW k \in 1 .. Operands(ts) - 1, ReadsTail(ts, k + 1)
  PROVE  ReadsTail(ts, k)
<1> DEFINE n       == Operands(ts)
           o       == OperatorsOf(ts)[k]
           operand == Literal(ts[2 * k + 1])
<1> SUFFICES ASSUME NEW s, NEW lhs, NEW precedence \in Nat, BehindOperand(ts, k, s)
             PROVE  LET r == ParseExpressionRhs(lhs, s, precedence)
                    IN  /\ ReadsTo(ts, k, precedence, r)
                        /\ ReadsTree(ts, k, precedence, lhs, r)
  BY DEF ReadsTail
<1> DEFINE rest == ConsumeCurrent(s)
           t    == ConsumeCurrent(rest)
           q    == WithTighterRhs(operand, o, t)
           both == Binary(lhs, o, q.tree[1])
           r    == ParseExpressionRhs(lhs, s, precedence)
<1>1. /\ n \in Nat /\ k \in 1 .. n /\ k + 1 \in 1 .. n /\ k \in k .. n - 1
      /\ 2 * (k + 1) - 1 = 2 * k + 1 /\ k < n
  BY ChainShape
<1>2. /\ o \in ChainOperator /\ o \in BinaryOperator /\ o # "OP_TernaryIf"
      /\ Level(o) \in 1 .. 6 /\ Precedence(o) = 10 * Level(o)
  BY ChainShape, LevelIs
<1>3. s \in AnyStream /\ CurrentKind(s) = o /\ AtOperand(ts, k + 1, rest)
  BY <1>1, OperatorRead DEF BehindOperand
<1>4. /\ ParseExpressionLhs(rest) = Parsed(operand, t)
      /\ BehindOperand(ts, k + 1, t)
  BY <1>1, <1>3, OperandRead
<1>5. r = IF Precedence(o) < precedence THEN Parsed(lhs, rest)
          ELSE IF q.tree = <<>> THEN q
          ELSE ParseExpressionRhs(both, q.stream, precedence)
  <2>1. r = ExpressionRhsAt(lhs, s, precedence)
    BY <1>3 DEF ExpressionDescent
  <2> QED BY <1>2, <1>3, <1>4, <2>1, RhsUnfolded, ParsedFields
<1>6. /\ k + 1 = n => CurrentKind(t) = "none"
      /\ k + 1 < n => /\ CurrentKind(t) = OperatorsOf(ts)[k + 1]
                      /\ Level(CurrentKind(t)) \in 1 .. 6
                      /\ Precedence(CurrentKind(t)) = 10 * Level(CurrentKind(t))
  <2>1. CASE k + 1 = n
    BY <1>1, <1>4, <2>1, OperatorRead
  <2>2. CASE k + 1 < n
    <3>1. k + 1 \in 1 .. n - 1 /\ CurrentKind(t) = OperatorsOf(ts)[k + 1]
      BY <1>1, <1>4, <2>2, OperatorRead
    <3>2. OperatorsOf(ts)[k + 1] \in ChainOperator
      BY <3>1, ChainShape
    <3> QED BY <2>2, <3>1, <3>2, LevelIs
  <2> QED BY <1>1, <2>1, <2>2
<1>7. Precedence("none") = 0
  BY DEF Precedence, Comparison
<1> DEFINE rises == k + 1 < n /\ Level(o) < Level(OperatorsOf(ts)[k + 1])
<1>8. q = IF rises THEN ParseExpressionRhs(operand, t, Precedence(o) + 1) ELSE Parsed(operand, t)
  <2>1. CASE k + 1 = n
    <3>1. Precedence(CurrentKind(t)) = 0 /\ Precedence(o) >= 0
      BY <1>2, <1>6, <1>7, <2>1
    <3>2. ~(Precedence(o) < Precedence(CurrentKind(t))) /\ ~rises
      BY <1>1, <1>2, <2>1, <3>1
    <3> HIDE DEF rises
    <3> QED BY <3>2 DEF WithTighterRhs
  <2>2. CASE k + 1 < n
    <3> DEFINE o2 == OperatorsOf(ts)[k + 1]
    <3>1. CurrentKind(t) = o2 /\ Level(o2) \in 1 .. 6 /\ Precedence(o2) = 10 * Level(o2)
      <4> HIDE DEF t
      <4> QED BY <1>6, <2>2
    <3>2. Precedence(o) < Precedence(o2) <=> Level(o) < Level(o2)
      BY <1>2, <3>1
    <3>3. rises <=> Precedence(o) < Precedence(o2)
      BY <2>2, <3>2
    <3> HIDE DEF rises
    <3> QED BY <3>1, <3>3 DEF WithTighterRhs
  <2> QED BY <1>1, <2>1, <2>2
<1>9. CASE Precedence(o) < precedence
  <2>1. r = Parsed(lhs, rest)
    BY <1>5, <1>9
  <2>2. ~TailFits(ts, k, precedence)
    <3>1. ~(Precedence(o) >= precedence)
      BY <1>2, <1>9
    <3> QED BY <1>1, <3>1 DEF TailFits
  <2>3. r.tree # <<>> /\ AtOperand(ts, k + 1, r.stream)
    <3>1. r.tree = <<lhs>> /\ r.stream = rest
      <4> HIDE DEF r, rest
      <4> QED BY <2>1, ParsedFields
    <3>2. AtOperand(ts, k + 1, r.stream)
      <4> HIDE DEF r, rest
      <4> QED BY <1>3, <3>1
    <3> HIDE DEF r
    <3> QED BY <3>1, <3>2
  <2>4. ReadsTo(ts, k, precedence, r)
    <3> HIDE DEF r
    <3> QED BY <1>1, <2>2, <2>3 DEF ReadsTo
  <2>5. ReadsTree(ts, k, precedence, lhs, r)
    BY <2>2 DEF ReadsTree
  <2> QED BY <2>4, <2>5
<1>10. CASE Precedence(o) >= precedence /\ ~rises
  <2>1. q = Parsed(operand, t)
    BY <1>8, <1>10
  <2>2. r = ParseExpressionRhs(both, t, precedence) /\ both = Binary(lhs, o, operand)
    <3>1. ~(Precedence(o) < precedence)
      BY <1>2, <1>10
    <3> HIDE DEF r, q
    <3> QED BY <1>5, <2>1, <3>1, ParsedFields
  <2>3. ReadsTo(ts, k + 1, precedence, r) /\ ReadsTree(ts, k + 1, precedence, both, r)
    <3> HIDE DEF r, both, t
    <3> QED BY <1>4, <2>2 DEF ReadsTail
  <2>4. k + 1 < n => Level(OperatorsOf(ts)[k + 1]) <= Level(o)
    <3> HIDE DEF t, o
    <3> QED BY <1>2, <1>6, <1>10
  <2>5. TailFits(ts, k, precedence) <=> TailFits(ts, k + 1, precedence)
    BY <1>10, <2>4, TailFitsNext
  <2>6. ReadsTo(ts, k, precedence, r)
    <3> HIDE DEF r
    <3> QED BY <2>3, <2>5 DEF ReadsTo
  <2>7. ReadsTree(ts, k, precedence, lhs, r)
    <3> SUFFICES ASSUME TailFits(ts, k, precedence), NEW first \in 1 .. k,
                        Descends(ts, first, k), lhs = ChainTree(ts, first, k)
                 PROVE  r.tree = <<ChainTree(ts, first, n)>>
      BY DEF ReadsTree
    <3>1. Descends(ts, first, k + 1)
      BY <2>4, DescendsNext
    <3>2. both = ChainTree(ts, first, k + 1)
      BY <2>2, ChainTreeGrows
    <3>3. first \in 1 .. k + 1
      BY <1>1
    <3> HIDE DEF r, both
    <3> QED BY <2>3, <2>5, <3>1, <3>2, <3>3 DEF ReadsTree
  <2> QED BY <2>6, <2>7
<1>11. CASE Precedence(o) >= precedence /\ rises
  <2>1. q = ParseExpressionRhs(operand, t, Precedence(o) + 1)
    BY <1>8, <1>11
  <2>2. Precedence(o) + 1 \in Nat
    BY <1>2
  <2>3. /\ ReadsTo(ts, k + 1, Precedence(o) + 1, q)
        /\ ReadsTree(ts, k + 1, Precedence(o) + 1, operand, q)
    <3> HIDE DEF q, operand, t
    <3> QED BY <1>4, <2>1, <2>2 DEF ReadsTail
  <2>4. k \in 1 .. n - 2
    BY <1>1, <1>11
  <2>5. TailFits(ts, k, precedence) <=> TailFits(ts, k + 1, Precedence(o) + 1)
    BY <1>11, <2>4, TailFitsTighter
  <2>6. q.stream \in AnyStream /\ Ends(q.stream) /\ q.tree # <<>>
    <3>1. CASE BehindOperand(ts, n, q.stream)
      <4> HIDE DEF q
      <4>1. n \in 1 .. n
        BY <1>1
      <4> QED BY <2>3, <3>1, <4>1, OperatorRead DEF BehindOperand, ReadsTo
    <3>2. CASE \E j \in 1 .. n : AtOperand(ts, j, q.stream)
      <4> HIDE DEF q
      <4> QED BY <2>3, <3>2, OperandRead DEF AtOperand, ReadsTo
    <3> QED BY <2>3, <3>1, <3>2 DEF ReadsTo
  <2>7. r = Parsed(both, q.stream)
    <3>1. ~(Precedence(o) < precedence)
      BY <1>2, <1>11
    <3>2. ParseExpressionRhs(both, q.stream, precedence) = Parsed(both, q.stream)
      <4> HIDE DEF q, both
      <4> QED BY <2>6, RhsEnds
    <3> HIDE DEF r, q, both
    <3> QED BY <1>5, <2>6, <3>1, <3>2
  <2>8. ReadsTo(ts, k, precedence, r)
    <3> HIDE DEF r, q, both
    <3> QED BY <2>3, <2>5, <2>7, ParsedFields DEF ReadsTo
  <2>9. ReadsTree(ts, k, precedence, lhs, r)
    <3> SUFFICES ASSUME TailFits(ts, k, precedence), NEW first \in 1 .. k,
                        Descends(ts, first, k), lhs = ChainTree(ts, first, k)
                 PROVE  r.tree = <<ChainTree(ts, first, n)>>
      BY DEF ReadsTree
    <3>1. operand = ChainTree(ts, k + 1, k + 1)
      BY <1>1, ChainTreeOfOne
    <3>2. Descends(ts, k + 1, k + 1)
      <4>1. /\ k + 1 .. k + 1 = {k + 1}
            /\ k + 1 < n => Level(OperatorsOf(ts)[k + 1]) \in 1 .. 6
        <5> HIDE DEF t
        <5> QED BY <1>1, <1>6
      <4> QED BY <1>1, <4>1 DEF Descends
    <3>3. q.tree = <<ChainTree(ts, k + 1, n)>>
      <4>1. k + 1 \in 1 .. k + 1
        BY <1>1
      <4> HIDE DEF q, operand
      <4> QED BY <2>3, <2>5, <3>1, <3>2, <4>1 DEF ReadsTree
    <3>4. ChainTree(ts, first, n) = Binary(lhs, o, ChainTree(ts, k + 1, n))
      BY <1>11, <2>4, ChainTreeRises
    <3>5. both = ChainTree(ts, first, n)
      <4> HIDE DEF q
      <4> QED BY <3>3, <3>4
    <3> HIDE DEF r, both, q
    <3> QED BY <2>7, <3>5, ParsedFields
  <2> QED BY <2>8, <2>9
<1>12. Precedence(o) \in Int /\ precedence \in Int
  BY <1>2
<1> QED BY <1>9, <1>10, <1>11, <1>12

\* From the end of the chain backwards.
LEMMA AllOperatorsRead ==
  ASSUME ExpressionDescent, NEW ts \in Seq(Token), IsChain(ts), HasChainTrees(ts)
  PROVE  \A k \in 1 .. Operands(ts) : ReadsTail(ts, k)
<1> DEFINE n   == Operands(ts)
           Bad == {d \in 0 .. n - 1 : ~ReadsTail(ts, n - d)}
<1>1. n \in Nat /\ n >= 1
  BY ChainShape
<1>2. SUFFICES ASSUME Bad # {} PROVE FALSE
  <2> SUFFICES ASSUME NEW k \in 1 .. n, ~ReadsTail(ts, k) PROVE n - k \in Bad
    BY <1>2
  <2>1. n - k \in 0 .. n - 1 /\ n - (n - k) = k
    BY <1>1
  <2> QED BY <2>1
<1>3. Bad \in SUBSET Nat
  BY <1>1
<1>4. PICK d \in Bad : \A e \in Bad : d <= e
  <2> HIDE DEF Bad
  <2> QED BY <1>2, <1>3, NatLeast
<1>5. CASE d = 0
  <2>1. n - d = n
    BY <1>1, <1>5
  <2> QED BY <1>4, <2>1, EndReads
<1>6. CASE d # 0
  <2> DEFINE k == n - d
  <2>1. /\ d \in 0 .. n - 1 /\ d - 1 \in 0 .. n - 1 /\ ~(d <= d - 1)
        /\ k \in 1 .. n - 1 /\ n - (d - 1) = k + 1
    BY <1>1, <1>6
  <2>2. ReadsTail(ts, k + 1)
    BY <1>4, <2>1
  <2> HIDE DEF k
  <2>3. ReadsTail(ts, k)
    BY <2>1, <2>2, OperatorReads
  <2> QED BY <1>4, <2>3 DEF k
<1> QED BY <1>5, <1>6

LEMMA ChainIsRead ==
  ASSUME ExpressionDescent, NEW ts \in Seq(Token), IsChain(ts), HasChainTrees(ts),
         NEW s \in AnyStream, s.tokens = ts, s.index = 0
  PROVE  LET r == ParseExpression(s)
         IN  /\ r.stream.tokens = ts
             /\ (r.stream.index = Len(ts) /\ r.tree = <<ChainTree(ts, 1, Operands(ts))>>)
                  <=> NeverFallsBack(OperatorsOf(ts))
<1> DEFINE n    == Operands(ts)
           t    == ConsumeCurrent(s)
           head == Literal(ts[1])
           r    == ParseExpressionRhs(head, t, 0)
<1>1. n \in Nat /\ n >= 1 /\ 1 \in 1 .. n /\ Len(ts) = 2 * n - 1 /\ 2 * 1 - 2 = 0 /\ 2 * 1 - 1 = 1
  BY ChainShape
<1>2. AtOperand(ts, 1, s)
  BY <1>1 DEF AtOperand
<1>3. ParseExpressionLhs(s) = Parsed(head, t) /\ BehindOperand(ts, 1, t)
  BY <1>1, <1>2, OperandRead
<1>4. ParseExpression(s) = r
  <2> HIDE DEF t, head
  <2> QED BY <1>3, ExpressionUnfolded, ParsedFields
<1>5. ReadsTo(ts, 1, 0, r) /\ ReadsTree(ts, 1, 0, head, r)
  BY <1>1, <1>3, AllOperatorsRead DEF ReadsTail
<1>6. head = ChainTree(ts, 1, 1)
  BY <1>1, ChainTreeOfOne
<1>7. Descends(ts, 1, 1)
  <2>1. 1 < n => Level(OperatorsOf(ts)[1]) \in 1 .. 6
    BY SMTT(30), <1>1, ChainShape, LevelIs
  <2> QED BY <1>1, <2>1 DEF Descends
<1>8. TailFits(ts, 1, 0) <=> NeverFallsBack(OperatorsOf(ts))
  <2>1. /\ Len(OperatorsOf(ts)) = n - 1 /\ n - 1 - 1 = n - 2
        /\ \A i \in 1 .. n - 1 : Precedence(OperatorsOf(ts)[i]) >= 0
        /\ \A i \in 1 .. n - 1 : Level(OperatorsOf(ts)[i]) \in 1 .. 6
    <3>1. Len(OperatorsOf(ts)) = n - 1 /\ n - 1 - 1 = n - 2
      BY <1>1, ChainShape
    <3>2. ASSUME NEW i \in 1 .. n - 1
          PROVE  Precedence(OperatorsOf(ts)[i]) >= 0 /\ Level(OperatorsOf(ts)[i]) \in 1 .. 6
      <4>1. OperatorsOf(ts)[i] \in ChainOperator
        BY ChainShape
      <4> QED BY <4>1, LevelIs
    <3> QED BY <3>1, <3>2
  <2>2. /\ TailFits(ts, 1, 0) =
             \A i \in 1 .. n - 2 :
               Level(OperatorsOf(ts)[i]) < Level(OperatorsOf(ts)[i + 1]) =>
                 \A j \in i + 1 .. n - 1 : Level(OperatorsOf(ts)[i]) < Level(OperatorsOf(ts)[j])
    BY <2>1 DEF TailFits
  <2>3. NeverFallsBack(OperatorsOf(ts)) =
             \A i \in 1 .. n - 2 :
               Level(OperatorsOf(ts)[i]) < Level(OperatorsOf(ts)[i + 1]) =>
                 \A j \in i + 1 .. n - 1 : Level(OperatorsOf(ts)[j]) > Level(OperatorsOf(ts)[i])
    BY SMTT(30), <2>1 DEF NeverFallsBack
  <2>4. ASSUME NEW i \in 1 .. n - 2, NEW j \in i + 1 .. n - 1
        PROVE  Level(OperatorsOf(ts)[i]) < Level(OperatorsOf(ts)[j])
                 <=> Level(OperatorsOf(ts)[j]) > Level(OperatorsOf(ts)[i])
    OBVIOUS
  <2> QED BY <2>2, <2>3, <2>4
<1> HIDE DEF r, head
<1>9. CASE TailFits(ts, 1, 0)
  <2>1. BehindOperand(ts, n, r.stream)
    BY <1>5, <1>9 DEF ReadsTo
  <2>2. r.stream.tokens = ts /\ r.stream.index = Len(ts)
    BY <1>1, <2>1 DEF BehindOperand
  <2>3. r.tree = <<ChainTree(ts, 1, n)>>
    BY <1>1, <1>5, <1>6, <1>7, <1>9 DEF ReadsTree
  <2> QED BY <1>4, <1>8, <1>9, <2>2, <2>3
<1>10. CASE ~TailFits(ts, 1, 0)
  <2>1. PICK j \in 1 .. n : AtOperand(ts, j, r.stream)
    BY <1>5, <1>10 DEF ReadsTo
  <2>2. r.stream.tokens = ts /\ r.stream.index # Len(ts)
    BY <1>1, <2>1 DEF AtOperand
  <2> QED BY <1>4, <1>8, <1>10, <2>2
<1> QED BY <1>9, <1>10

ChainInv ==
  /\ stream \in AnyStream
  /\ HasChainTrees(stream.tokens)
  /\ ~parsed => stream.index = 0
  /\ ChainsBindByLevel

\* Every chain of binary operators, however long, gets the tree of AutoIt's levels
\* when its operators never fall back, and only then: the precedence climbing of
\* ParseExpressionRhs is right up to the one case in which it gives up.
THEOREM ChainsAreBoundByLevel ==
  ASSUME ExpressionDescent
  PROVE  Spec => []ChainsBindByLevel
<1>1. Init => ChainInv
  <2> SUFFICES ASSUME Init PROVE ChainInv
    OBVIOUS
  <2>1. stream \in AnyStream /\ stream.index = 0
    BY StreamType, SourceAssumption, WrittenAssumption DEF Init
  <2>2. HasChainTrees(stream.tokens)
    <3>1. CASE \E tokens \in Source : stream = Stream(tokens)
      BY <3>1, ChainTreeAssumption DEF Stream
    <3>2. CASE \E e \in Tree : stream = Stream(Written(e))
      BY <3>2, ChainTreeAssumption DEF Stream
    <3> QED BY <3>1, <3>2 DEF Init
  <2>3. parsed = FALSE
    BY DEF Init
  <2> QED BY <2>1, <2>2, <2>3 DEF ChainInv, ChainsBindByLevel, ExpressionParsed
<1>2. ChainInv /\ [Parse]_vars => ChainInv'
  <2> SUFFICES ASSUME ChainInv, [Parse]_vars PROVE ChainInv'
    OBVIOUS
  <2>1. CASE UNCHANGED vars
    BY <2>1 DEF ChainInv, ChainsBindByLevel, ExpressionParsed, vars
  <2>2. CASE Parse
    <3> DEFINE r == ParseExpression(stream)
    <3>1. /\ ~parsed /\ parsed' = TRUE /\ trees' = r.tree /\ stream' = r.stream
          /\ stream \in AnyStream /\ stream.index = 0 /\ HasChainTrees(stream.tokens)
      BY <2>2 DEF Parse, Returns, ChainInv
    <3>2. r.stream \in AnyStream /\ r.stream.tokens = stream.tokens
      BY <3>1, ExpressionsMoveForward, AheadFields DEF MovesForward
    <3>3. IsChain(stream.tokens) =>
            ((r.stream.index = Len(stream.tokens)
               /\ r.tree = <<ChainTree(stream.tokens, 1, Operands(stream.tokens))>>)
               <=> NeverFallsBack(OperatorsOf(stream.tokens)))
      BY <3>1, StreamFields, ChainIsRead
    <3> HIDE DEF r
    <3> QED BY <3>1, <3>2, <3>3 DEF ChainInv, ChainsBindByLevel, ExpressionParsed
  <2> QED BY <2>1, <2>2
<1>3. ChainInv => ChainsBindByLevel
  BY DEF ChainInv
<1> QED BY <1>1, <1>2, <1>3, PTL DEF Spec

-----------------------------------------------------------------------------
(* Parts that are joined.                                                  *)

\* From the last part up.
LEMMA LastPartsAre ==
  ASSUME NEW parts \in Seq(Seq(Token))
  PROVE  LET last == LastParts(parts)
             n    == Len(parts)
         IN  /\ n \in Nat /\ last[0] = <<>> /\ \A k \in 0 .. n : last[k] \in Seq(Token)
             /\ \A k \in 1 .. n : n - k + 1 \in 1 .. n /\ last[k] = parts[n - k + 1] \o last[k - 1]
<1> DEFINE n           == Len(parts)
           last        == LastParts(parts)
           With(k, ts) == parts[n - k + 1] \o ts
           step        == [k \in 1 .. n |-> [ts \in Seq(Token) |-> With(k, ts)]]
<1>1. n \in Nat /\ \A k \in 1 .. n : n - k + 1 \in 1 .. n /\ parts[n - k + 1] \in Seq(Token)
  OBVIOUS
<1>2. ASSUME NEW k \in 1 .. n, NEW ts \in Seq(Token) PROVE With(k, ts) \in Seq(Token)
  BY <1>1
<1>3. PICK g \in [0 .. n -> Seq(Token)] :
        g[0] = <<>> /\ \A k \in 1 .. n : g[k] = step[k][g[k - 1]]
  <2>1. step \in StepsUpto(n, Seq(Token))
    BY <1>2 DEF StepsUpto
  <2>2. <<>> \in Seq(Token)
    OBVIOUS
  <2> HIDE DEF n, step
  <2>3. PICK g \in Upto(n, Seq(Token)) : Follows(g, <<>>, step, n)
    BY <1>1, <2>1, <2>2, Recursion
  <2> QED BY <2>3 DEF Upto, Follows
<1>4. ASSUME NEW k \in 1 .. n PROVE g[k] = With(k, g[k - 1])
  <2> HIDE DEF With, n
  <2>1. k - 1 \in 0 .. n
    BY <1>1
  <2>2. g[k - 1] \in Seq(Token)
    BY <1>3, <2>1
  <2> QED BY <1>3, <2>2
<1>5. g = [k \in 0 .. n |-> IF k = 0 THEN <<>> ELSE parts[n - k + 1] \o g[k - 1]]
  <2>1. \A k \in 0 .. n : g[k] = IF k = 0 THEN <<>> ELSE With(k, g[k - 1])
    <3> HIDE DEF With, n
    <3>1. \A k \in 0 .. n : k # 0 => k \in 1 .. n
      BY <1>1
    <3> QED BY <1>3, <1>4, <3>1
  <2> QED BY <1>3, <2>1
<1>6. last = [k \in 0 .. n |-> IF k = 0 THEN <<>> ELSE With(k, last[k - 1])]
  BY <1>5, Zenon DEF LastParts
<1> HIDE DEF last, n
<1>7. last[0] = <<>> /\ \A k \in 1 .. n : last[k] = With(k, last[k - 1])
  <2> HIDE DEF With
  <2> QED BY <1>1, <1>6
<1>8. \A k \in 0 .. n : last[k] \in Seq(Token)
  <2> DEFINE Bad == {k \in 0 .. n : last[k] \notin Seq(Token)}
  <2> SUFFICES ASSUME Bad # {} PROVE FALSE
    OBVIOUS
  <2>1. PICK k \in Bad : \A l \in Bad : k <= l
    <3>1. Bad \in SUBSET Nat
      BY <1>1
    <3> HIDE DEF Bad
    <3> QED BY <3>1, NatLeast
  <2>2. k # 0
    <3>1. <<>> \in Seq(Token)
      OBVIOUS
    <3> HIDE DEF With
    <3> QED BY <1>7, <2>1, <3>1
  <2>3. k \in 1 .. n /\ k - 1 \in 0 .. n /\ k - 1 \notin Bad
    BY <1>1, <2>1, <2>2
  <2>4. last[k - 1] \in Seq(Token)
    BY <2>3
  <2>5. last[k] \in Seq(Token)
    <3> HIDE DEF With
    <3> QED BY <1>2, <1>7, <2>3, <2>4
  <2> QED BY <2>1, <2>5
<1> QED BY <1>1, <1>7, <1>8 DEF last, n

LEMMA JoinedType ==
  ASSUME NEW parts \in Seq(Seq(Token))
  PROVE  Joined(parts) \in Seq(Token) /\ Joined(parts) = LastParts(parts)[Len(parts)]
<1>1. Len(parts) \in 0 .. Len(parts)
  OBVIOUS
<1> QED BY <1>1, LastPartsAre DEF Joined

-----------------------------------------------------------------------------
(* Tokens that stand between two places of a stream.                       *)

\* The tokens from s on begin with those of w, and t is behind them.
Stands(s, w, t) == At(s, w) /\ t = Skip(s, Len(w))

LEMMA StandsType ==
  ASSUME NEW s, NEW w, NEW t, Stands(s, w, t)
  PROVE  /\ s \in AnyStream /\ w \in Seq(Token) /\ Len(w) \in Nat
         /\ t \in AnyStream /\ t \in Ahead(s) /\ t.tokens = s.tokens
         /\ t.index = s.index + Len(w) /\ t.errors = s.errors
<1>1. s \in AnyStream /\ w \in Seq(Token) /\ Len(w) \in Nat
  BY DEF Stands, At
<1>2. /\ t \in AnyStream /\ t.tokens = s.tokens
      /\ t.index = s.index + Len(w) /\ t.errors = s.errors
  BY SkipType DEF Stands
<1>3. t \in Ahead(s)
  BY <1>1, <1>2, StreamFields DEF Ahead
<1> QED BY <1>1, <1>2, <1>3

LEMMA StandsNone ==
  ASSUME NEW s, NEW t, Stands(s, <<>>, t)
  PROVE  s = t
BY StreamFields DEF Stands, At, Skip

LEMMA StandsOne ==
  ASSUME NEW s, NEW token \in Token, NEW t, Stands(s, <<token>>, t)
  PROVE  /\ CurrentToken(s) = token /\ CurrentKind(s) = token.kind
         /\ ConsumeCurrent(s) = t /\ Behind(s, t)
<1>1. Len(<<token>>) = 1
  OBVIOUS
<1>2. /\ CurrentToken(s) = token /\ CurrentKind(s) = token.kind /\ ConsumeCurrent(s) = t
  BY <1>1, AtOne DEF Stands
<1>3. s \in AnyStream /\ t \in AnyStream /\ t \in Ahead(s) /\ t.index = s.index + 1
  BY <1>1, StandsType
<1>4. t.index > s.index
  BY <1>3, StreamFields
<1> QED BY <1>2, <1>3, <1>4 DEF Behind

LEMMA StandsConcat ==
  ASSUME NEW s, NEW v \in Seq(Token), NEW w \in Seq(Token), NEW t, Stands(s, v \o w, t)
  PROVE  \E u : Stands(s, v, u) /\ Stands(u, w, t)
BY AtConcat DEF Stands

LEMMA StandsFirst ==
  ASSUME NEW s, NEW token \in Token, NEW w \in Seq(Token), NEW t, Stands(s, <<token>> \o w, t)
  PROVE  /\ CurrentToken(s) = token /\ CurrentKind(s) = token.kind
         /\ Stands(ConsumeCurrent(s), w, t) /\ Behind(s, ConsumeCurrent(s))
<1>1. <<token>> \in Seq(Token)
  OBVIOUS
<1>2. PICK u : Stands(s, <<token>>, u) /\ Stands(u, w, t)
  BY <1>1, StandsConcat
<1> QED BY <1>2, StandsOne

LEMMA StandsLast ==
  ASSUME NEW s, NEW w \in Seq(Token), NEW token \in Token, NEW t, Stands(s, w \o <<token>>, t)
  PROVE  \E u : /\ Stands(s, w, u)
                /\ CurrentKind(u) = token.kind /\ ConsumeCurrent(u) = t /\ Behind(u, t)
<1>1. <<token>> \in Seq(Token)
  OBVIOUS
<1>2. PICK u : Stands(s, w, u) /\ Stands(u, <<token>>, t)
  BY <1>1, StandsConcat
<1> QED BY <1>2, StandsOne

LEMMA OneType ==
  ASSUME NEW token \in Token
  PROVE  <<token>> \in Seq(Token)
OBVIOUS

LEMMA TwoTokens ==
  ASSUME NEW a \in Token, NEW b \in Token
  PROVE  <<a, b>> = <<a>> \o <<b>> /\ <<a, b>> \in Seq(Token)
<1>1. /\ <<a, b>> \in Seq(Token) /\ Len(<<a, b>>) = 2
      /\ <<a>> \o <<b>> \in Seq(Token) /\ Len(<<a>> \o <<b>>) = 2
  OBVIOUS
<1>2. \A i \in 1 .. 2 : <<a, b>>[i] = (<<a>> \o <<b>>)[i]
  OBVIOUS
<1>3. PICK v \in Seq(Token), w \in Seq(Token) : v = <<a, b>> /\ w = <<a>> \o <<b>>
  BY <1>1
<1>4. v = w
  BY <1>1, <1>2, <1>3, SeqEqual
<1> QED BY <1>1, <1>3, <1>4

-----------------------------------------------------------------------------
(* New lines and comments.                                                 *)

SkipKind == CommentKind \cup {"NewLine"}

LEMMA BreakSkipped ==
  ASSUME NEW s, NEW w, NEW t, Stands(s, w, t), \A i \in DOMAIN w : w[i].kind \in SkipKind,
         CurrentKind(t) \notin SkipKind
  PROVE  ConsumeNewLineAndComments(s) = t
<1> DEFINE n == Len(s.tokens)
           First(i) == /\ i < n => s.tokens[i + 1].kind \notin SkipKind
                       /\ \A j \in s.index + 1 .. i : ~(s.tokens[j].kind \notin SkipKind)
           c == CHOOSE i \in s.index .. n : First(i)
<1>1. /\ s \in AnyStream /\ t \in AnyStream /\ t.tokens = s.tokens
      /\ t.index = s.index + Len(w) /\ t.errors = s.errors
      /\ w \in Seq(Token) /\ Len(w) \in Nat
  BY StandsType
<1>2. /\ s.index \in Nat /\ n \in Nat /\ t.index \in s.index .. n
      /\ s = [tokens |-> s.tokens, index |-> s.index, errors |-> s.errors]
      /\ t = [tokens |-> s.tokens, index |-> t.index, errors |-> s.errors]
  BY <1>1, StreamFields
<1>3. t.index < n => s.tokens[t.index + 1].kind \notin SkipKind
  BY <1>1 DEF CurrentKind, HasMoreTokens, CurrentToken
<1>4. ASSUME NEW j \in s.index + 1 .. t.index PROVE s.tokens[j].kind \in SkipKind
  <2>1. j - s.index \in 1 .. Len(w) /\ s.index + (j - s.index) = j
    BY <1>1, <1>2
  <2>2. s.tokens[s.index + (j - s.index)] = w[j - s.index]
    BY <2>1 DEF Stands, At
  <2>3. j - s.index \in DOMAIN w
    BY <1>1, <2>1
  <2> QED BY <2>1, <2>2, <2>3
<1>5. First(t.index)
  BY <1>3, <1>4
<1>6. ASSUME NEW i \in s.index .. n, First(i) PROVE i = t.index
  <2>1. ~(i < t.index)
    <3> SUFFICES ASSUME i < t.index PROVE FALSE
      OBVIOUS
    <3>1. i + 1 \in s.index + 1 .. t.index /\ i < n
      BY <1>2
    <3> QED BY <1>4, <1>6, <3>1
  <2>2. ~(t.index < i)
    <3> SUFFICES ASSUME t.index < i PROVE FALSE
      OBVIOUS
    <3>1. t.index + 1 \in s.index + 1 .. i /\ t.index < n
      BY <1>2
    <3> QED BY <1>3, <1>6, <3>1
  <2> QED BY <1>2, <2>1, <2>2
<1>7. c = t.index
  <2> HIDE DEF First, n
  <2>1. c \in s.index .. n /\ First(c)
    BY <1>2, <1>5
  <2> HIDE DEF c
  <2> QED BY <1>6, <2>1
<1>8. ConsumeNewLineAndComments(s) = [s EXCEPT !.index = c]
  BY DEF ConsumeNewLineAndComments, ConsumeWhile, ConsumeTo, SkipKind
<1> HIDE DEF c
<1> QED BY <1>2, <1>7, <1>8

LEMMA NothingSkipped ==
  ASSUME NEW s \in AnyStream, CurrentKind(s) \notin SkipKind
  PROVE  ConsumeNewLineAndComments(s) = s
<1>1. Stands(s, <<>>, s)
  BY StreamFields DEF Stands, At, Skip
<1>2. \A i \in DOMAIN <<>> : <<>>[i].kind \in SkipKind
  OBVIOUS
<1> QED BY <1>1, <1>2, BreakSkipped

LEMMA LineBreakSkipped ==
  ASSUME NEW s, NEW t, Stands(s, LineBreak, t)
  PROVE  /\ CurrentKind(s) \in SkipKind
         /\ CurrentKind(t) \notin SkipKind => ConsumeNewLineAndComments(s) = t
<1>1. /\ LineBreak \in Seq(Token) /\ LineBreak # <<>>
      /\ \A i \in DOMAIN LineBreak : LineBreak[i].kind \in SkipKind
  BY LineBreakAssumption DEF SkipKind
<1>2. CurrentKind(t) \notin SkipKind => ConsumeNewLineAndComments(s) = t
  BY <1>1, BreakSkipped
<1>3. 1 \in DOMAIN LineBreak /\ 1 \in 1 .. Len(LineBreak) /\ Len(LineBreak) \in Nat
  BY <1>1
<1>4. s.tokens[s.index + 1] = LineBreak[1] /\ s.index < Len(s.tokens)
  <2>1. s.tokens[s.index + 1] = LineBreak[1]
    BY <1>3 DEF Stands, At
  <2>2. s.index + Len(LineBreak) <= Len(s.tokens) /\ s \in AnyStream
    BY DEF Stands, At
  <2> QED BY <1>3, <2>1, <2>2, StreamFields
<1>5. CurrentKind(s) = LineBreak[1].kind
  BY <1>4 DEF CurrentKind, HasMoreTokens, CurrentToken
<1> QED BY <1>1, <1>2, <1>3, <1>5

-----------------------------------------------------------------------------
(* Words and lines.                                                        *)

LEMMA Words ==
  \A kind \in {"KW_If", "KW_ElseIf", "KW_Then", "KW_Else", "KW_EndIf", "KW_While", "KW_WEnd",
               "KW_Exit", "KW_Local", "KW_Const", "KW_Global", "KW_ByRef", "KW_EndFunc",
               "OP_Equals", "Comma", "LParen", "RParen", "NewLine"} :
    Sign(kind) \in Token /\ Sign(kind).kind = kind
<1> SUFFICES ASSUME NEW kind \in {"KW_If", "KW_ElseIf", "KW_Then", "KW_Else", "KW_EndIf",
                                  "KW_While", "KW_WEnd", "KW_Exit", "KW_Local", "KW_Const",
                                  "KW_Global", "KW_ByRef", "KW_EndFunc", "OP_Equals", "Comma",
                                  "LParen", "RParen", "NewLine"}
             PROVE  Sign(kind) \in Token /\ Sign(kind).kind = kind
  OBVIOUS
<1>1. kind \in TokenKind
  BY DEF TokenKind
<1> QED BY <1>1, SignType

LEMMA VariableTokens ==
  ASSUME NEW name \in STRING
  PROVE  /\ VariableToken(name) \in Token /\ VariableToken(name).kind = "VariableIdentifier"
         /\ VariableToken(name).text = name
<1>1. "VariableIdentifier" \in TokenKind
  BY DEF TokenKind
<1> QED BY <1>1, TokType DEF VariableToken

\* Where a line ends, or a While on it.
EndsLine(s) == CurrentKind(s) \in SkipKind \cup {"none", "KW_WEnd"}

\* The ends of the other blocks.
BlockEnd == IfEnd \cup {"KW_EndFunc"}

\* Where a statement starts.
StartsStatement(s) == CurrentKind(s) \notin SkipKind \cup BlockEnd \cup {"none", "KW_WEnd"}

LEMMA LineEnds ==
  ASSUME ExpressionDescent, NEW s \in AnyStream, EndsLine(s)
  PROVE  /\ Ends(s) /\ CurrentKind(s) # "OP_Equals"
         /\ ParseExpression(s) = Failed(s)
<1> DEFINE kind == CurrentKind(s)
<1>1. kind \in {"Comment", "PP_CommentsStart", "PP_CommentsEnd", "NewLine", "none", "KW_WEnd"}
  BY DEF EndsLine, SkipKind, CommentKind
<1> HIDE DEF kind
<1>2. kind \notin BinaryOperator \cup {"OP_TernaryIf", "LParen"} /\ kind # "OP_Equals"
  BY <1>1 DEF BinaryOperator, CompoundAssignment, Comparison
<1>3. ParseExpressionLhs(s) = Failed(s)
  BY <1>1 DEF ParseExpressionLhs, IsUnaryOperator, UnaryOperator, LiteralKind, kind
<1>4. ParseExpression(s) = Failed(s)
  BY <1>3, ExpressionUnfolded DEF Failed
<1> QED BY <1>2, <1>4 DEF Ends, kind

LEMMA StatementHere ==
  ASSUME StatementDescent, NEW s \in AnyStream, CurrentKind(s) \notin SkipKind
  PROVE  LET kind == CurrentKind(s)
             rest == ConsumeCurrent(s)
         IN  /\ kind \in Specifier \cup {"VariableIdentifier"} =>
                  ParseStatement(s) = ParseVariableAssignment(s)
             /\ kind = "KW_If" => ParseStatement(s) = ParseIfStatement(rest)
             /\ kind = "KW_While" => ParseStatement(s) = ParseWhileStatement(rest)
             /\ kind = "KW_Exit" => ParseStatement(s) = ParseExitStatement(rest)
             /\ kind \notin Specifier \cup {"VariableIdentifier", "KW_If", "KW_While", "KW_Exit",
                                            "none"} =>
                  ParseStatement(s) = ParseExpressionStatement(s)
<1> DEFINE kind == CurrentKind(s)
           rest == ConsumeCurrent(s)
<1>1. ParseStatement(s) = StatementOfKindAt(s)
  BY DEF StatementDescent
<1>2. ConsumeNewLineAndComments(s) = s
  BY NothingSkipped
<1>3. ParseStatement(s) =
        CASE kind = "none" -> Failed(s)
          [] kind \in Specifier \cup {"VariableIdentifier"} -> ParseVariableAssignment(s)
          [] kind = "KW_If" -> ParseIfStatement(rest)
          [] kind = "KW_While" -> ParseWhileStatement(rest)
          [] kind = "KW_Exit" -> ParseExitStatement(rest)
          [] OTHER -> ParseExpressionStatement(s)
  BY <1>1, <1>2 DEF StatementOfKindAt
<1> HIDE DEF kind, rest
<1>4. /\ kind \in Specifier \cup {"VariableIdentifier"} =>
           ParseStatement(s) = ParseVariableAssignment(s)
      /\ kind = "KW_If" => ParseStatement(s) = ParseIfStatement(rest)
      /\ kind = "KW_While" => ParseStatement(s) = ParseWhileStatement(rest)
      /\ kind = "KW_Exit" => ParseStatement(s) = ParseExitStatement(rest)
      /\ kind \notin Specifier \cup {"VariableIdentifier", "KW_If", "KW_While", "KW_Exit", "none"} =>
           ParseStatement(s) = ParseExpressionStatement(s)
  BY <1>3 DEF Specifier
<1> QED BY <1>4 DEF kind, rest

\* The new lines before a statement belong to it.
LEMMA StatementBehindBreak ==
  ASSUME StatementDescent, NEW s, NEW t, Stands(s, LineBreak, t), CurrentKind(t) \notin SkipKind
  PROVE  ParseStatement(s) = ParseStatement(t)
<1>1. s \in AnyStream /\ t \in AnyStream
  BY StandsType
<1>2. ParseStatement(s) = StatementOfKindAt(s) /\ ParseStatement(t) = StatementOfKindAt(t)
  BY <1>1 DEF StatementDescent
<1>3. ConsumeNewLineAndComments(s) = t /\ ConsumeNewLineAndComments(t) = t
  BY <1>1, LineBreakSkipped, NothingSkipped
<1> QED BY <1>2, <1>3 DEF StatementOfKindAt

\* An expression, and what is written between two places.
LEMMA ExpressionRead ==
  ASSUME ExpressionDescent, NEW e \in Tree, NEW s, NEW t, Stands(s, Written(e), t), Ends(t)
  PROVE  ParseExpression(s) = Parsed(e, t)
BY EveryTreeReadsBack DEF AllReadBack, ReadsBack, Stands

-----------------------------------------------------------------------------
(* Assignments, expressions, Exit.                                         *)

LEMMA SpecifiersUnfolded ==
  ASSUME StatementDescent, NEW specifiers, NEW s \in AnyStream
  PROVE  /\ CurrentKind(s) = "VariableIdentifier" =>
              ParseSpecifiers(specifiers, s) =
                Parsed([name |-> CurrentToken(s).text, scope |-> ScopeOf(specifiers)],
                       ConsumeCurrent(s))
         /\ CurrentKind(s) \in Specifier /\ ~Repeated(CurrentKind(s), specifiers) =>
              ParseSpecifiers(specifiers, s) =
                ParseSpecifiers(specifiers \cup {CurrentKind(s)}, ConsumeCurrent(s))
<1> DEFINE kind == CurrentKind(s)
           rest == ConsumeCurrent(s)
           v    == [name |-> CurrentToken(s).text, scope |-> ScopeOf(specifiers)]
           loop == ParseSpecifiers(specifiers \cup {kind}, rest)
<1>1. ParseSpecifiers(specifiers, s) =
        CASE kind = "none" -> Failed(s)
          [] kind = "VariableIdentifier" -> Parsed(v, rest)
          [] kind \in Specifier /\ ~Repeated(kind, specifiers) -> loop
          [] OTHER -> Failed(rest)
  BY DEF StatementDescent, SpecifiersAt
<1>2. kind \in Specifier => kind \notin {"none", "VariableIdentifier"}
  BY DEF Specifier
<1> HIDE DEF kind, rest, v, loop
<1>3. kind = "VariableIdentifier" => ParseSpecifiers(specifiers, s) = Parsed(v, rest)
  BY <1>1, <1>2
<1>4. kind \in Specifier /\ ~Repeated(kind, specifiers) => ParseSpecifiers(specifiers, s) = loop
  BY <1>1, <1>2
<1> QED BY <1>3, <1>4 DEF kind, rest, v, loop

LEMMA SpecifiersRead ==
  ASSUME StatementDescent, NEW scope \in {"Auto", "Local", "Global"}, NEW name \in STRING,
         NEW s, NEW t, Stands(s, SpecifiersOf(scope) \o <<VariableToken(name)>>, t)
  PROVE  /\ CurrentKind(s) \in Specifier \cup {"VariableIdentifier"}
         /\ ParseSpecifiers({}, s) = Parsed([name |-> name, scope |-> scope], t)
<1> DEFINE token == VariableToken(name)
<1>1. /\ token \in Token /\ token.kind = "VariableIdentifier" /\ token.text = name
      /\ <<token>> \in Seq(Token)
  BY VariableTokens, OneType
<1>2. /\ \A kind \in {"KW_Local", "KW_Const", "KW_Global"} :
           Sign(kind) \in Token /\ Sign(kind).kind = kind
  BY Words
<1> HIDE DEF token
<1>3. ASSUME NEW u, Stands(u, <<token>>, t), NEW specifiers
      PROVE  /\ CurrentKind(u) = "VariableIdentifier"
             /\ ParseSpecifiers(specifiers, u)
                  = Parsed([name |-> name, scope |-> ScopeOf(specifiers)], t)
  <2>1. /\ u \in AnyStream /\ CurrentKind(u) = "VariableIdentifier"
        /\ CurrentToken(u).text = name /\ ConsumeCurrent(u) = t
    BY <1>1, <1>3, StandsOne, StandsType
  <2> QED BY <2>1, SpecifiersUnfolded
<1>4. CASE scope = "Auto"
  <2>1. Stands(s, <<>> \o <<token>>, t)
    BY <1>4 DEF SpecifiersOf, token
  <2>2. <<>> \o <<token>> = <<token>>
    BY <1>1
  <2>3. ScopeOf({}) = "Auto"
    BY DEF ScopeOf
  <2> QED BY <1>3, <1>4, <2>1, <2>2, <2>3
<1>5. CASE scope = "Local"
  <2>1. Stands(s, <<Sign("KW_Local")>> \o <<token>>, t)
    BY <1>5 DEF SpecifiersOf, token
  <2>2. /\ s \in AnyStream /\ CurrentKind(s) = "KW_Local"
        /\ Stands(ConsumeCurrent(s), <<token>>, t)
    BY <1>1, <1>2, <2>1, StandsFirst, StandsType
  <2>3. "KW_Local" \in Specifier /\ ~Repeated("KW_Local", {}) /\ ScopeOf({} \cup {"KW_Local"}) = "Local"
    BY DEF Specifier, Repeated, ScopeOf
  <2>4. ParseSpecifiers({}, s) = ParseSpecifiers({} \cup {"KW_Local"}, ConsumeCurrent(s))
    BY <2>2, <2>3, SpecifiersUnfolded
  <2> QED BY <1>3, <1>5, <2>2, <2>3, <2>4
<1>6. CASE scope = "Global"
  <2> DEFINE const  == Sign("KW_Const")
             global == Sign("KW_Global")
             u      == ConsumeCurrent(s)
  <2>1. const \in Token /\ const.kind = "KW_Const" /\ global \in Token /\ global.kind = "KW_Global"
    BY <1>2
  <2>2. Stands(s, <<const, global>> \o <<token>>, t)
    BY <1>6 DEF SpecifiersOf, token
  <2> HIDE DEF const, global
  <2>3. <<const, global>> = <<const>> \o <<global>> /\ <<const, global>> \in Seq(Token)
        /\ <<global>> \in Seq(Token)
    BY <2>1, TwoTokens, OneType
  <2>4. PICK x : Stands(s, <<const>> \o <<global>>, x) /\ Stands(x, <<token>>, t)
    <3> DEFINE pair == <<const, global>>
    <3>1. Stands(s, pair \o <<token>>, t) /\ pair \in Seq(Token) /\ pair = <<const>> \o <<global>>
      BY <2>2, <2>3
    <3> HIDE DEF pair
    <3>2. PICK x : Stands(s, pair, x) /\ Stands(x, <<token>>, t)
      BY <1>1, <3>1, StandsConcat
    <3> QED BY <3>1, <3>2
  <2>5. s \in AnyStream /\ CurrentKind(s) = "KW_Const" /\ Stands(u, <<global>>, x)
    <3>1. s \in AnyStream
      BY <2>4, StandsType
    <3>2. CurrentKind(s) = const.kind /\ Stands(ConsumeCurrent(s), <<global>>, x)
      BY <2>1, <2>3, <2>4, StandsFirst
    <3> QED BY <2>1, <3>1, <3>2
  <2> HIDE DEF u
  <2>6. u \in AnyStream /\ CurrentKind(u) = "KW_Global" /\ ConsumeCurrent(u) = x
    BY <2>1, <2>5, StandsOne, StandsType
  <2>7. /\ {"KW_Const", "KW_Global"} \subseteq Specifier
        /\ ~Repeated("KW_Const", {}) /\ ~Repeated("KW_Global", {} \cup {"KW_Const"})
        /\ ScopeOf({} \cup {"KW_Const"} \cup {"KW_Global"}) = "Global"
    BY DEF Specifier, Repeated, ScopeOf
  <2>8. ParseSpecifiers({}, s) = ParseSpecifiers({} \cup {"KW_Const"}, u)
    BY <2>5, <2>7, SpecifiersUnfolded DEF u
  <2>9. ParseSpecifiers({} \cup {"KW_Const"}, u)
          = ParseSpecifiers({} \cup {"KW_Const"} \cup {"KW_Global"}, x)
    BY <2>6, <2>7, SpecifiersUnfolded
  <2> QED BY <1>3, <1>6, <2>4, <2>5, <2>7, <2>8, <2>9
<1> QED BY <1>4, <1>5, <1>6

LEMMA SpecifiersType ==
  ASSUME NEW scope \in {"Auto", "Local", "Global"}
  PROVE  SpecifiersOf(scope) \in Seq(Token)
<1>1. \A kind \in {"KW_Local", "KW_Const", "KW_Global"} : Sign(kind) \in Token
  BY Words
<1>2. CASE scope = "Auto"
  BY <1>2 DEF SpecifiersOf
<1>3. CASE scope = "Local"
  BY <1>1, <1>3, OneType DEF SpecifiersOf
<1>4. CASE scope = "Global"
  BY <1>1, <1>4, TwoTokens DEF SpecifiersOf
<1> QED BY <1>2, <1>3, <1>4

LEMMA InitialisedType ==
  ASSUME NEW initial \in OptionalTree
  PROVE  Initialised(initial) \in Seq(Token)
<1>1. CASE initial = <<>>
  BY <1>1 DEF Initialised
<1>2. CASE initial # <<>>
  <2>1. PICK e \in Tree : initial = <<e>>
    BY <1>2 DEF OptionalTree
  <2>2. Initialised(initial) = <<Sign("OP_Equals")>> \o Written(e)
    BY <2>1 DEF Initialised
  <2>3. Sign("OP_Equals") \in Token /\ Written(e) \in Seq(Token)
    BY <2>1, Words, WrittenType
  <2> QED BY <2>2, <2>3, OneType, ConcatType
<1> QED BY <1>1, <1>2

\* A variable with its value, if it has one.
LEMMA InitialisedRead ==
  ASSUME ExpressionDescent, NEW initial \in OptionalTree, initial # <<>>,
         NEW s, NEW t, Stands(s, Initialised(initial), t), Ends(t)
  PROVE  /\ CurrentKind(s) = "OP_Equals" /\ Behind(s, ConsumeCurrent(s))
         /\ ParseExpression(ConsumeCurrent(s)) = Parsed(initial[1], t)
         /\ initial = <<initial[1]>>
<1>1. PICK e \in Tree : initial = <<e>>
  BY DEF OptionalTree
<1>2. Stands(s, <<Sign("OP_Equals")>> \o Written(e), t)
  BY <1>1 DEF Initialised
<1>3. Sign("OP_Equals") \in Token /\ Sign("OP_Equals").kind = "OP_Equals" /\ Written(e) \in Seq(Token)
  BY Words, WrittenType
<1>4. /\ CurrentKind(s) = "OP_Equals" /\ Behind(s, ConsumeCurrent(s))
      /\ Stands(ConsumeCurrent(s), Written(e), t)
  BY <1>2, <1>3, StandsFirst
<1> QED BY <1>1, <1>4, ExpressionRead

\* What is said of statements: at s, and at all places from s on.
ReadsAt(s) ==
  \A t \in StatementTree : \A u :
    Stands(s, WrittenStatement(t), u) /\ EndsLine(u) => ParseStatement(s) = Parsed(t, u)

ReadsFrom(s) == \A t \in Ahead(s) : ReadsAt(t)

LEMMA AssignmentShape ==
  ASSUME NEW t \in StatementTree, t \in Assignments
  PROVE  /\ t = VariableAssignment(t.name, t.scope, t.initial)
         /\ t.name \in STRING /\ t.scope \in {"Auto", "Local", "Global"}
         /\ t.initial \in OptionalTree
         /\ WrittenStatement(t) =
              (SpecifiersOf(t.scope) \o <<VariableToken(t.name)>>) \o Initialised(t.initial)
<1>1. /\ t.kind = "VariableAssignment" /\ t = VariableAssignment(t.name, t.scope, t.initial)
      /\ t.name \in STRING /\ t.scope \in {"Auto", "Local", "Global"}
      /\ t.initial \in OptionalTree
  BY DEF Assignments, VariableAssignment
<1>2. WrittenStatement(t) = WrittenStatementAs(t)
  BY WrittenStatementAssumption
<1>3. WrittenStatementAs(t) =
        (SpecifiersOf(t.scope) \o <<VariableToken(t.name)>>) \o Initialised(t.initial)
  BY <1>1 DEF WrittenStatementAs
<1> QED BY <1>1, <1>2, <1>3

LEMMA AssignmentRead ==
  ASSUME ExpressionDescent, StatementDescent, NEW t \in StatementTree, t \in Assignments,
         NEW s, NEW u, Stands(s, WrittenStatement(t), u)
  PROVE  /\ StartsStatement(s)
         /\ EndsLine(u) => ParseStatement(s) = Parsed(t, u)
<1> DEFINE head == SpecifiersOf(t.scope) \o <<VariableToken(t.name)>>
           tail == Initialised(t.initial)
           v    == [name |-> t.name, scope |-> t.scope]
<1>1. /\ t = VariableAssignment(t.name, t.scope, t.initial)
      /\ t.name \in STRING /\ t.scope \in {"Auto", "Local", "Global"}
      /\ t.initial \in OptionalTree /\ WrittenStatement(t) = head \o tail
  BY AssignmentShape
<1>2. head \in Seq(Token) /\ tail \in Seq(Token)
  BY <1>1, SpecifiersType, VariableTokens, OneType, ConcatType, InitialisedType
<1>3. PICK m : Stands(s, head, m) /\ Stands(m, tail, u)
  <2> HIDE DEF head, tail
  <2> QED BY <1>1, <1>2, StandsConcat
<1>4. /\ s \in AnyStream /\ m \in AnyStream /\ u \in AnyStream
      /\ CurrentKind(s) \in Specifier \cup {"VariableIdentifier"}
      /\ ParseSpecifiers({}, s) = Parsed(v, m)
  <2>1. s \in AnyStream /\ m \in AnyStream /\ u \in AnyStream
    BY <1>3, StandsType
  <2>2. /\ CurrentKind(s) \in Specifier \cup {"VariableIdentifier"}
        /\ ParseSpecifiers({}, s) = Parsed(v, m)
    <3>1. PICK name \in STRING, scope \in {"Auto", "Local", "Global"} :
            name = t.name /\ scope = t.scope
      BY <1>1
    <3>2. Stands(s, SpecifiersOf(scope) \o <<VariableToken(name)>>, m)
      BY <1>3, <3>1
    <3>3. v = [name |-> name, scope |-> scope]
      BY <3>1
    <3> HIDE DEF v
    <3> QED BY <3>2, <3>3, SpecifiersRead
  <2> QED BY <2>1, <2>2
<1>5. StartsStatement(s) /\ CurrentKind(s) \notin SkipKind \cup {"none"}
  BY <1>4 DEF StartsStatement, SkipKind, CommentKind, BlockEnd, IfEnd, Specifier
<1>6. SUFFICES ASSUME EndsLine(u) PROVE ParseStatement(s) = Parsed(t, u)
  BY <1>5
<1>7. Ends(u) /\ CurrentKind(u) # "OP_Equals"
  BY <1>4, <1>6, LineEnds
<1>8. ParseStatement(s) = ParseVariableAssignment(s)
  BY <1>4, <1>5, StatementHere
<1> DEFINE r == ParseExpression(ConsumeCurrent(m))
<1>9. ParseVariableAssignment(s) =
        IF CurrentKind(m) # "OP_Equals" THEN Parsed(VariableAssignment(t.name, t.scope, <<>>), m)
        ELSE IF r.tree = <<>> THEN r
        ELSE Parsed(VariableAssignment(t.name, t.scope, <<r.tree[1]>>), r.stream)
  <2> DEFINE p == ParseSpecifiers({}, s)
  <2>1. p.tree = <<v>> /\ p.tree # <<>> /\ p.tree[1] = v /\ p.stream = m
    BY <1>4, ParsedFields
  <2>2. v.name = t.name /\ v.scope = t.scope
    OBVIOUS
  <2>3. ParseVariableAssignment(s) =
          IF p.tree = <<>> THEN p
          ELSE IF CurrentKind(p.stream) # "OP_Equals"
                 THEN Parsed(VariableAssignment(p.tree[1].name, p.tree[1].scope, <<>>), p.stream)
          ELSE IF ParseExpression(ConsumeCurrent(p.stream)).tree = <<>>
                 THEN ParseExpression(ConsumeCurrent(p.stream))
          ELSE Parsed(VariableAssignment(p.tree[1].name, p.tree[1].scope,
                                         <<ParseExpression(ConsumeCurrent(p.stream)).tree[1]>>),
                      ParseExpression(ConsumeCurrent(p.stream)).stream)
    BY DEF ParseVariableAssignment, Then
  <2> HIDE DEF p, v
  <2> QED BY <2>1, <2>2, <2>3
<1>10. CASE t.initial = <<>>
  <2>1. tail = <<>>
    BY <1>10 DEF Initialised
  <2>2. m = u
    BY <1>3, <2>1, StandsNone
  <2> HIDE DEF r
  <2> QED BY <1>1, <1>7, <1>8, <1>9, <1>10, <2>2
<1>11. CASE t.initial # <<>>
  <2>1. /\ CurrentKind(m) = "OP_Equals" /\ r = Parsed(t.initial[1], u)
        /\ t.initial = <<t.initial[1]>>
    BY <1>1, <1>3, <1>7, <1>11, InitialisedRead
  <2>2. r.tree # <<>> /\ r.tree[1] = t.initial[1] /\ r.stream = u
    BY <2>1, ParsedFields
  <2> HIDE DEF r
  <2> QED BY <1>1, <1>8, <1>9, <2>1, <2>2
<1> QED BY <1>10, <1>11

LEMMA CallTreeStarts ==
  ASSUME NEW e \in CallTree, NEW s, NEW u, Stands(s, Written(e), u)
  PROVE  /\ e \in Tree /\ CurrentKind(s) \in UnaryOperator \cup {"FunctionIdentifier", "BuiltIn"}
         /\ IsValidAsStatement(e)
<1>1. /\ e \in Tree /\ e.kind \in {"UnaryExpression", "FunctionCall", "BuiltInCall"}
      /\ IsValidAsStatement(e)
  BY DEF CallTree, IsValidAsStatement
<1>2. e \in Unaries \cup Calls
  <2>1. e \in Atoms \cup Unaries \cup Binaries \cup Ternaries \cup Subscripts \cup Calls
    BY <1>1, TreeAssumption
  <2> QED BY <1>1, <2>1 DEF Atoms, Binaries, Ternaries, Subscripts
<1>3. CASE e \in Unaries
  <2>1. e.operator \in UnaryOperator /\ Written(e) = <<Sign(e.operator)>> \o WrittenOperand(e.expression)
        /\ e.expression \in Tree
    BY <1>1, <1>3, UnaryShape
  <2>2. /\ Sign(e.operator) \in Token /\ Sign(e.operator).kind = e.operator
        /\ WrittenOperand(e.expression) \in Seq(Token)
    BY <2>1, OperatorKinds, SignType, WrittenType
  <2>3. CurrentKind(s) = e.operator
    <3>1. Stands(s, <<Sign(e.operator)>> \o WrittenOperand(e.expression), u)
      BY <2>1
    <3> QED BY <2>2, <3>1, StandsFirst
  <2> QED BY <1>1, <2>1, <2>3
<1>4. CASE e \in Calls
  <2> DEFINE token == FunctionToken(e)
             w     == WithCommas(e.arguments)
  <2>1. /\ token \in Token /\ token.kind \in {"FunctionIdentifier", "BuiltIn"}
        /\ Written(e) = <<token>> \o InParens(w) /\ e.arguments \in Seq(Tree)
    BY <1>1, <1>4, CallShape
  <2>2. InParens(w) \in Seq(Token)
    <3>1. Len(e.arguments) \in 0 .. Len(e.arguments)
      BY <2>1
    <3>2. w \in Seq(Token)
      BY <2>1, <3>1, LastArgumentsAre DEF WithCommas
    <3> HIDE DEF w
    <3> QED BY <3>2, InParensType
  <2> HIDE DEF token, w
  <2>3. CurrentKind(s) = token.kind
    <3>1. Stands(s, <<token>> \o InParens(w), u)
      BY <2>1
    <3> QED BY <2>1, <2>2, <3>1, StandsFirst
  <2> QED BY <1>1, <2>1, <2>3
<1> QED BY <1>2, <1>3, <1>4

LEMMA ExpressionStatementShape ==
  ASSUME NEW t \in StatementTree, t \in ExpressionStatements
  PROVE  /\ t = ExpressionStatement(t.expression) /\ t.expression \in CallTree
         /\ WrittenStatement(t) = Written(t.expression)
<1>1. /\ t.kind = "ExpressionStatement" /\ t = ExpressionStatement(t.expression)
      /\ t.expression \in CallTree
  BY DEF ExpressionStatements, ExpressionStatement
<1>2. WrittenStatement(t) = WrittenStatementAs(t)
  BY WrittenStatementAssumption
<1>3. WrittenStatementAs(t) = Written(t.expression)
  BY <1>1 DEF WrittenStatementAs
<1> QED BY <1>1, <1>2, <1>3

LEMMA ExpressionStatementRead ==
  ASSUME ExpressionDescent, StatementDescent,
         NEW t \in StatementTree, t \in ExpressionStatements,
         NEW s, NEW u, Stands(s, WrittenStatement(t), u)
  PROVE  /\ StartsStatement(s)
         /\ EndsLine(u) => ParseStatement(s) = Parsed(t, u)
<1> DEFINE e == t.expression
           r == ParseExpression(s)
<1>1. t = ExpressionStatement(e) /\ e \in CallTree /\ Stands(s, Written(e), u)
  BY ExpressionStatementShape
<1> HIDE DEF e
<1>2. /\ e \in Tree /\ CurrentKind(s) \in UnaryOperator \cup {"FunctionIdentifier", "BuiltIn"}
      /\ IsValidAsStatement(e) /\ s \in AnyStream /\ u \in AnyStream
  BY <1>1, CallTreeStarts, StandsType
<1>3. /\ StartsStatement(s) /\ CurrentKind(s) \notin SkipKind
      /\ CurrentKind(s) \notin Specifier \cup {"VariableIdentifier", "KW_If", "KW_While", "KW_Exit",
                                               "none"}
  BY <1>2 DEF UnaryOperator, StartsStatement, SkipKind, CommentKind, BlockEnd, IfEnd, Specifier
<1>4. SUFFICES ASSUME EndsLine(u) PROVE ParseStatement(s) = Parsed(t, u)
  BY <1>3
<1>5. ParseStatement(s) = ParseExpressionStatement(s)
  BY <1>2, <1>3, StatementHere
<1>6. r = Parsed(e, u)
  BY <1>1, <1>2, <1>4, LineEnds, ExpressionRead
<1>7. ParseExpressionStatement(s) =
        IF r.tree = <<>> THEN r
        ELSE IF IsValidAsStatement(r.tree[1])
               THEN Parsed(ExpressionStatement(r.tree[1]), r.stream)
               ELSE Failed(r.stream)
  BY DEF ParseExpressionStatement, Then
<1>8. r.tree # <<>> /\ r.tree[1] = e /\ r.stream = u
  BY <1>6, ParsedFields
<1> HIDE DEF r
<1> QED BY <1>1, <1>2, <1>5, <1>7, <1>8

LEMMA ExitShape ==
  ASSUME NEW t \in StatementTree, t \in ExitStatements
  PROVE  /\ t = ExitStatement(t.expression) /\ t.expression \in OptionalTree
         /\ WrittenStatement(t) =
              <<Sign("KW_Exit")>>
                \o (IF t.expression = <<>> THEN <<>> ELSE Written(t.expression[1]))
<1>1. t.kind = "ExitStatement" /\ t = ExitStatement(t.expression) /\ t.expression \in OptionalTree
  BY DEF ExitStatements, ExitStatement
<1>2. WrittenStatement(t) = WrittenStatementAs(t)
  BY WrittenStatementAssumption
<1>3. WrittenStatementAs(t) =
        <<Sign("KW_Exit")>> \o (IF t.expression = <<>> THEN <<>> ELSE Written(t.expression[1]))
  BY <1>1 DEF WrittenStatementAs
<1> QED BY <1>1, <1>2, <1>3

LEMMA ExitRead ==
  ASSUME ExpressionDescent, StatementDescent, NEW t \in StatementTree, t \in ExitStatements,
         NEW s, NEW u, Stands(s, WrittenStatement(t), u)
  PROVE  /\ StartsStatement(s)
         /\ EndsLine(u) => ParseStatement(s) = Parsed(t, u)
<1> DEFINE w    == IF t.expression = <<>> THEN <<>> ELSE Written(t.expression[1])
           rest == ConsumeCurrent(s)
           r    == ParseExpression(rest)
<1>1. /\ t = ExitStatement(t.expression) /\ t.expression \in OptionalTree
      /\ WrittenStatement(t) = <<Sign("KW_Exit")>> \o w
  BY ExitShape
<1>2. t.expression = <<>> \/ \E e \in Tree : t.expression = <<e>>
  BY <1>1 DEF OptionalTree
<1>3. w \in Seq(Token)
  <2>1. CASE t.expression = <<>>
    BY <2>1
  <2>2. CASE t.expression # <<>>
    <3>1. PICK e \in Tree : t.expression = <<e>>
      BY <1>2, <2>2
    <3> QED BY <3>1, WrittenType
  <2> QED BY <2>1, <2>2
<1>4. s \in AnyStream /\ u \in AnyStream /\ CurrentKind(s) = "KW_Exit" /\ Stands(rest, w, u)
  <2>1. Sign("KW_Exit") \in Token /\ Sign("KW_Exit").kind = "KW_Exit"
    BY Words
  <2> HIDE DEF w
  <2>2. Stands(s, <<Sign("KW_Exit")>> \o w, u)
    BY <1>1
  <2>3. CurrentKind(s) = "KW_Exit" /\ Stands(rest, w, u)
    BY <1>3, <2>1, <2>2, StandsFirst
  <2> QED BY <2>3, StandsType
<1>5. StartsStatement(s) /\ CurrentKind(s) \notin SkipKind
  BY <1>4 DEF StartsStatement, SkipKind, CommentKind, BlockEnd, IfEnd
<1>6. SUFFICES ASSUME EndsLine(u) PROVE ParseStatement(s) = Parsed(t, u)
  BY <1>5
<1>7. ParseStatement(s) = Parsed(ExitStatement(r.tree), r.stream)
  BY <1>4, <1>5, StatementHere DEF ParseExitStatement
<1>8. CASE t.expression = <<>>
  <2>1. rest = u
    BY <1>4, <1>8, StandsNone
  <2>2. r = Failed(u)
    BY <1>4, <1>6, <2>1, LineEnds
  <2>3. r.tree = <<>> /\ r.stream = u
    BY <2>2 DEF Failed
  <2> HIDE DEF r
  <2> QED BY <1>1, <1>7, <1>8, <2>3
<1>9. CASE t.expression # <<>>
  <2>1. PICK e \in Tree : t.expression = <<e>>
    BY <1>2, <1>9
  <2>2. Stands(rest, Written(e), u)
    BY <1>4, <2>1
  <2>3. r = Parsed(e, u)
    BY <1>4, <1>6, <2>2, LineEnds, ExpressionRead
  <2>4. r.tree = <<e>> /\ r.stream = u
    BY <2>3, ParsedFields
  <2> HIDE DEF r
  <2> QED BY <1>1, <1>7, <2>1, <2>4
<1> QED BY <1>8, <1>9

-----------------------------------------------------------------------------
(* How blocks are written.                                                 *)

LineParts(body) == [i \in DOMAIN body |-> WrittenStatement(body[i]) \o LineBreak]
LoopParts(body) == [i \in DOMAIN body |-> LineBreak \o WrittenStatement(body[i])]
CaseParts(cases) ==
  [i \in DOMAIN cases |-> WrittenCase(IF i = 1 THEN "KW_If" ELSE "KW_ElseIf", cases[i])]

LEMMA StatementType ==
  ASSUME NEW t \in StatementTree
  PROVE  WrittenStatement(t) \in Seq(Token)
BY WrittenStatementAssumption

LEMMA LinePartsType ==
  ASSUME NEW body \in Seq(StatementTree)
  PROVE  /\ LineParts(body) \in Seq(Seq(Token)) /\ Len(LineParts(body)) = Len(body)
         /\ \A i \in 1 .. Len(body) : LineParts(body)[i] = WrittenStatement(body[i]) \o LineBreak
         /\ LoopParts(body) \in Seq(Seq(Token)) /\ Len(LoopParts(body)) = Len(body)
         /\ \A i \in 1 .. Len(body) : LoopParts(body)[i] = LineBreak \o WrittenStatement(body[i])
         /\ Lines(body) \in Seq(Token) /\ LoopLines(body) \in Seq(Token)
         /\ Lines(body) = LastParts(LineParts(body))[Len(body)]
         /\ LoopLines(body) = LastParts(LoopParts(body))[Len(body)]
<1> DEFINE n == Len(body)
<1>1. n \in Nat /\ DOMAIN body = 1 .. n /\ \A i \in 1 .. n : body[i] \in StatementTree
  OBVIOUS
<1> HIDE DEF n
<1>2. LineBreak \in Seq(Token)
  BY LineBreakAssumption
<1>3. ASSUME NEW i \in 1 .. n
      PROVE  /\ WrittenStatement(body[i]) \o LineBreak \in Seq(Token)
             /\ LineBreak \o WrittenStatement(body[i]) \in Seq(Token)
  BY <1>1, <1>2, StatementType, ConcatType
<1>4. /\ LineParts(body) = [i \in 1 .. n |-> WrittenStatement(body[i]) \o LineBreak]
      /\ LoopParts(body) = [i \in 1 .. n |-> LineBreak \o WrittenStatement(body[i])]
  BY <1>1 DEF LineParts, LoopParts
<1>5. LineParts(body) \in Seq(Seq(Token)) /\ Len(LineParts(body)) = n
  <2>1. LineParts(body) \in [1 .. n -> Seq(Token)]
    BY <1>3, <1>4
  <2> QED BY <1>1, <2>1
<1>6. LoopParts(body) \in Seq(Seq(Token)) /\ Len(LoopParts(body)) = n
  <2>1. LoopParts(body) \in [1 .. n -> Seq(Token)]
    BY <1>3, <1>4
  <2> QED BY <1>1, <2>1
<1>7. Lines(body) = Joined(LineParts(body)) /\ LoopLines(body) = Joined(LoopParts(body))
  BY DEF Lines, LoopLines, LineParts, LoopParts
<1>8. /\ Lines(body) \in Seq(Token) /\ Lines(body) = LastParts(LineParts(body))[n]
  BY <1>5, <1>7, JoinedType
<1>9. /\ LoopLines(body) \in Seq(Token) /\ LoopLines(body) = LastParts(LoopParts(body))[n]
  BY <1>6, <1>7, JoinedType
<1> QED BY <1>4, <1>5, <1>6, <1>8, <1>9 DEF n

LEMMA WhileShape ==
  ASSUME NEW t \in StatementTree, t \in WhileStatements
  PROVE  /\ t = WhileStatement(t.condition, t.body)
         /\ t.condition \in Tree /\ t.body \in Seq(StatementTree)
         /\ WrittenStatement(t) =
              ((<<Sign("KW_While")>> \o Written(t.condition)) \o LoopLines(t.body))
                \o <<Sign("KW_WEnd")>>
<1>1. /\ t.kind = "WhileStatement" /\ t = WhileStatement(t.condition, t.body)
      /\ t.condition \in Tree /\ t.body \in Seq(StatementTree)
  BY DEF WhileStatements, WhileStatement
<1>2. WrittenStatement(t) = WrittenStatementAs(t)
  BY WrittenStatementAssumption
<1>3. WrittenStatementAs(t) =
        ((<<Sign("KW_While")>> \o Written(t.condition)) \o LoopLines(t.body)) \o <<Sign("KW_WEnd")>>
  BY <1>1 DEF WrittenStatementAs
<1> QED BY <1>1, <1>2, <1>3

LEMMA WhileStands ==
  ASSUME NEW t \in StatementTree, t \in WhileStatements,
         NEW s, NEW u, Stands(s, WrittenStatement(t), u)
  PROVE  LET rest == ConsumeCurrent(s)
         IN  /\ CurrentKind(s) = "KW_While" /\ Behind(s, rest)
             /\ \E m, v :
                  /\ Stands(rest, Written(t.condition), m) /\ Stands(m, LoopLines(t.body), v)
                  /\ CurrentKind(v) = "KW_WEnd" /\ ConsumeCurrent(v) = u
<1> DEFINE c     == Written(t.condition)
           lines == LoopLines(t.body)
           open  == Sign("KW_While")
           close == Sign("KW_WEnd")
<1>1. /\ c \in Seq(Token) /\ lines \in Seq(Token)
      /\ WrittenStatement(t) = ((<<open>> \o c) \o lines) \o <<close>>
  BY WhileShape, WrittenType, LinePartsType
<1>2. open \in Token /\ open.kind = "KW_While" /\ close \in Token /\ close.kind = "KW_WEnd"
  BY Words
<1>3. Stands(s, ((<<open>> \o c) \o lines) \o <<close>>, u)
  BY <1>1
<1> HIDE DEF c, lines, open, close
<1>4. <<open>> \o c \in Seq(Token) /\ (<<open>> \o c) \o lines \in Seq(Token)
  BY <1>1, <1>2, OneType, ConcatType
<1>5. PICK v : /\ Stands(s, (<<open>> \o c) \o lines, v)
               /\ CurrentKind(v) = close.kind /\ ConsumeCurrent(v) = u /\ Behind(v, u)
  BY <1>2, <1>3, <1>4, StandsLast
<1>6. PICK m : Stands(s, <<open>> \o c, m) /\ Stands(m, lines, v)
  BY <1>1, <1>4, <1>5, StandsConcat
<1>7. /\ CurrentKind(s) = open.kind /\ Stands(ConsumeCurrent(s), c, m)
      /\ Behind(s, ConsumeCurrent(s))
  BY <1>1, <1>2, <1>6, StandsFirst
<1> QED BY <1>2, <1>5, <1>6, <1>7 DEF c, lines

LEMMA CaseType ==
  ASSUME NEW word \in {"KW_If", "KW_ElseIf"}, NEW c \in Cases
  PROVE  WrittenCase(word, c) \in Seq(Token)
<1>1. c.condition \in Tree /\ c.body \in Seq(StatementTree)
  BY DEF Cases
<1>2. Sign(word) \in Token /\ Sign("KW_Then") \in Token /\ LineBreak \in Seq(Token)
  BY Words, LineBreakAssumption
<1>3. Written(c.condition) \in Seq(Token) /\ Lines(c.body) \in Seq(Token)
  BY <1>1, WrittenType, LinePartsType
<1>4. <<Sign(word)>> \o Written(c.condition) \in Seq(Token)
  BY <1>2, <1>3, OneType, ConcatType
<1>5. <<Sign(word)>> \o Written(c.condition) \o <<Sign("KW_Then")>> \in Seq(Token)
  BY <1>2, <1>4, OneType, ConcatType
<1>6. <<Sign(word)>> \o Written(c.condition) \o <<Sign("KW_Then")>> \o LineBreak \in Seq(Token)
  BY <1>2, <1>5, ConcatType
<1> QED BY <1>3, <1>6, ConcatType DEF WrittenCase

LEMMA CaseStands ==
  ASSUME NEW word \in {"KW_If", "KW_ElseIf"}, NEW c \in Cases,
         NEW s, NEW u, Stands(s, WrittenCase(word, c), u)
  PROVE  LET rest == ConsumeCurrent(s)
         IN  /\ CurrentKind(s) = word /\ Behind(s, rest)
             /\ c = IfCase(c.condition, c.body)
             /\ c.condition \in Tree /\ c.body \in Seq(StatementTree)
             /\ \E m, v :
                  /\ Stands(rest, Written(c.condition), m) /\ CurrentKind(m) = "KW_Then"
                  /\ Stands(ConsumeCurrent(m), LineBreak, v) /\ Stands(v, Lines(c.body), u)
<1> DEFINE e     == Written(c.condition)
           lines == Lines(c.body)
           open  == Sign(word)
           then  == Sign("KW_Then")
<1>1. c = IfCase(c.condition, c.body) /\ c.condition \in Tree /\ c.body \in Seq(StatementTree)
  BY DEF Cases, IfCase
<1>2. /\ e \in Seq(Token) /\ lines \in Seq(Token) /\ LineBreak \in Seq(Token)
  BY <1>1, WrittenType, LinePartsType, LineBreakAssumption
<1>3. open \in Token /\ open.kind = word /\ then \in Token /\ then.kind = "KW_Then"
  BY Words
<1>4. Stands(s, (((<<open>> \o e) \o <<then>>) \o LineBreak) \o lines, u)
  BY DEF WrittenCase
<1> HIDE DEF e, lines, open, then
<1>5. <<open>> \o e \in Seq(Token)
  BY <1>2, <1>3, OneType, ConcatType
<1>6. (<<open>> \o e) \o <<then>> \in Seq(Token)
  BY <1>3, <1>5, OneType, ConcatType
<1>7. ((<<open>> \o e) \o <<then>>) \o LineBreak \in Seq(Token)
  BY <1>2, <1>6, ConcatType
<1>8. PICK v : /\ Stands(s, ((<<open>> \o e) \o <<then>>) \o LineBreak, v) /\ Stands(v, lines, u)
  BY <1>2, <1>4, <1>7, StandsConcat
<1>9. PICK x : /\ Stands(s, (<<open>> \o e) \o <<then>>, x) /\ Stands(x, LineBreak, v)
  BY <1>2, <1>6, <1>8, StandsConcat
<1>10. PICK m : /\ Stands(s, <<open>> \o e, m)
                /\ CurrentKind(m) = then.kind /\ ConsumeCurrent(m) = x /\ Behind(m, x)
  BY <1>3, <1>5, <1>9, StandsLast
<1>11. /\ CurrentKind(s) = open.kind /\ Stands(ConsumeCurrent(s), e, m)
       /\ Behind(s, ConsumeCurrent(s))
  BY <1>2, <1>3, <1>10, StandsFirst
<1> QED BY <1>1, <1>3, <1>8, <1>9, <1>10, <1>11 DEF e, lines

LEMMA CasePartsType ==
  ASSUME NEW cases \in Seq(Cases)
  PROVE  /\ CaseParts(cases) \in Seq(Seq(Token)) /\ Len(CaseParts(cases)) = Len(cases)
         /\ \A i \in 1 .. Len(cases) :
              CaseParts(cases)[i] =
                WrittenCase(IF i = 1 THEN "KW_If" ELSE "KW_ElseIf", cases[i])
         /\ WrittenCases(cases) \in Seq(Token)
         /\ WrittenCases(cases) = LastParts(CaseParts(cases))[Len(cases)]
<1> DEFINE n       == Len(cases)
           Word(i) == IF i = 1 THEN "KW_If" ELSE "KW_ElseIf"
<1>1. n \in Nat /\ DOMAIN cases = 1 .. n /\ \A i \in 1 .. n : cases[i] \in Cases
  OBVIOUS
<1> HIDE DEF n
<1>2. ASSUME NEW i \in 1 .. n PROVE WrittenCase(Word(i), cases[i]) \in Seq(Token)
  <2>1. Word(i) \in {"KW_If", "KW_ElseIf"}
    OBVIOUS
  <2> HIDE DEF Word
  <2> QED BY <1>1, <2>1, CaseType
<1>3. CaseParts(cases) = [i \in 1 .. n |-> WrittenCase(Word(i), cases[i])]
  BY <1>1 DEF CaseParts
<1>4. CaseParts(cases) \in Seq(Seq(Token)) /\ Len(CaseParts(cases)) = n
  <2>1. CaseParts(cases) \in [1 .. n -> Seq(Token)]
    <3> HIDE DEF Word
    <3> QED BY <1>2, <1>3
  <2> QED BY <1>1, <2>1
<1>5. WrittenCases(cases) = Joined(CaseParts(cases))
  BY DEF WrittenCases, CaseParts
<1>6. WrittenCases(cases) \in Seq(Token) /\ WrittenCases(cases) = LastParts(CaseParts(cases))[n]
  BY <1>4, <1>5, JoinedType
<1> QED BY <1>3, <1>4, <1>6 DEF n

LEMMA ElseType ==
  ASSUME NEW body \in Seq(StatementTree)
  PROVE  WrittenElse(body) \in Seq(Token)
<1>1. CASE body = <<>>
  BY <1>1 DEF WrittenElse
<1>2. CASE body # <<>>
  <2>1. WrittenElse(body) = <<Sign("KW_Else")>> \o LineBreak \o Lines(body)
    BY <1>2 DEF WrittenElse
  <2>2. Sign("KW_Else") \in Token /\ LineBreak \in Seq(Token) /\ Lines(body) \in Seq(Token)
    BY Words, LineBreakAssumption, LinePartsType
  <2>3. <<Sign("KW_Else")>> \o LineBreak \in Seq(Token)
    BY <2>2, OneType, ConcatType
  <2> QED BY <2>1, <2>2, <2>3, ConcatType
<1> QED BY <1>1, <1>2

LEMMA IfShape ==
  ASSUME NEW t \in StatementTree, t \in IfStatements
  PROVE  /\ t = IfStatement(t.cases, t.elseCase)
         /\ t.cases \in Seq(Cases) /\ t.cases # <<>> /\ t.elseCase \in Seq(StatementTree)
         /\ WrittenStatement(t) =
              (WrittenCases(t.cases) \o WrittenElse(t.elseCase)) \o <<Sign("KW_EndIf")>>
<1>1. /\ t.kind = "IfStatement" /\ t = IfStatement(t.cases, t.elseCase)
      /\ t.cases \in Seq(Cases) /\ t.cases # <<>> /\ t.elseCase \in Seq(StatementTree)
  BY DEF IfStatements, IfStatement
<1>2. WrittenStatement(t) = WrittenStatementAs(t)
  BY WrittenStatementAssumption
<1>3. WrittenStatementAs(t) =
        (WrittenCases(t.cases) \o WrittenElse(t.elseCase)) \o <<Sign("KW_EndIf")>>
  BY <1>1 DEF WrittenStatementAs
<1> QED BY <1>1, <1>2, <1>3

\* The first case, the others, the Else.
LEMMA IfStands ==
  ASSUME NEW t \in StatementTree, t \in IfStatements,
         NEW s, NEW u, Stands(s, WrittenStatement(t), u)
  PROVE  \E x, m, v :
           /\ Stands(s, WrittenCase("KW_If", t.cases[1]), x)
           /\ Stands(x, LastParts(CaseParts(t.cases))[Len(t.cases) - 1], m)
           /\ Stands(m, WrittenElse(t.elseCase), v)
           /\ CurrentKind(v) = "KW_EndIf" /\ ConsumeCurrent(v) = u
<1> DEFINE cases == WrittenCases(t.cases)
           else  == WrittenElse(t.elseCase)
           close == Sign("KW_EndIf")
           n     == Len(t.cases)
           last  == LastParts(CaseParts(t.cases))
           first == WrittenCase("KW_If", t.cases[1])
<1>1. /\ t.cases \in Seq(Cases) /\ t.cases # <<>> /\ t.elseCase \in Seq(StatementTree)
      /\ WrittenStatement(t) = (cases \o else) \o <<close>>
  BY IfShape
<1>2. cases \in Seq(Token) /\ else \in Seq(Token) /\ cases = last[n]
  BY <1>1, CasePartsType, ElseType
<1>3. close \in Token /\ close.kind = "KW_EndIf"
  BY Words
<1>4. Stands(s, (cases \o else) \o <<close>>, u)
  BY <1>1
<1>5. n \in 1 .. n /\ n - 1 \in 0 .. n /\ n - n + 1 = 1
  BY <1>1
<1>6. last[n] = first \o last[n - 1] /\ last[n - 1] \in Seq(Token) /\ first \in Seq(Token)
  <2>1. /\ CaseParts(t.cases) \in Seq(Seq(Token)) /\ Len(CaseParts(t.cases)) = n
        /\ CaseParts(t.cases)[1] = first
    BY <1>1, <1>5, CasePartsType
  <2>2. /\ last[n] = CaseParts(t.cases)[n - n + 1] \o last[n - 1] /\ last[n - 1] \in Seq(Token)
    <3> HIDE DEF n
    <3> QED BY <1>5, <2>1, LastPartsAre
  <2>3. first \in Seq(Token)
    <3>1. t.cases[1] \in Cases
      BY <1>1, <1>5
    <3> QED BY <3>1, CaseType
  <2> QED BY <1>5, <2>1, <2>2, <2>3
<1> HIDE DEF cases, else, close, last, first, n
<1>7. PICK v : /\ Stands(s, cases \o else, v)
               /\ CurrentKind(v) = close.kind /\ ConsumeCurrent(v) = u /\ Behind(v, u)
  <2>1. cases \o else \in Seq(Token)
    BY <1>2, ConcatType
  <2> QED BY <1>3, <1>4, <2>1, StandsLast
<1>8. PICK m : Stands(s, cases, m) /\ Stands(m, else, v)
  BY <1>2, <1>7, StandsConcat
<1>9. Stands(s, first \o last[n - 1], m)
  BY <1>2, <1>6, <1>8
<1>10. PICK x : Stands(s, first, x) /\ Stands(x, last[n - 1], m)
  BY <1>6, <1>9, StandsConcat
<1> QED BY <1>3, <1>7, <1>8, <1>10 DEF first, last, n, else

LEMMA StatementStarts ==
  ASSUME ExpressionDescent, StatementDescent, NEW t \in StatementTree,
         NEW s, NEW u, Stands(s, WrittenStatement(t), u)
  PROVE  StartsStatement(s)
<1>1. CASE t \in WhileStatements
  <2>1. CurrentKind(s) = "KW_While"
    BY <1>1, WhileStands
  <2> QED BY <2>1 DEF StartsStatement, SkipKind, CommentKind, BlockEnd, IfEnd
<1>2. CASE t \in IfStatements
  <2>1. PICK x : Stands(s, WrittenCase("KW_If", t.cases[1]), x)
    BY <1>2, IfStands
  <2>2. t.cases[1] \in Cases
    BY <1>2, IfShape
  <2>3. CurrentKind(s) = "KW_If"
    BY <2>1, <2>2, CaseStands
  <2> QED BY <2>3 DEF StartsStatement, SkipKind, CommentKind, BlockEnd, IfEnd
<1> QED BY <1>1, <1>2, StatementTreeAssumption, AssignmentRead, ExpressionStatementRead, ExitRead

-----------------------------------------------------------------------------
(* The statements of a block, from the last one up.                        *)

LEMMA Climb ==
  ASSUME NEW n \in Nat, NEW G, 0 \in G, \A k \in 1 .. n : k - 1 \in G => k \in G
  PROVE  n \in G
<1> DEFINE Bad == {k \in 0 .. n : k \notin G}
<1> SUFFICES ASSUME n \notin G PROVE FALSE
  OBVIOUS
<1>1. Bad \in SUBSET Nat /\ n \in Bad
  OBVIOUS
<1>2. PICK k \in Bad : \A l \in Bad : k <= l
  <2> HIDE DEF Bad
  <2> QED BY <1>1, NatLeast
<1>3. k \in 1 .. n /\ k - 1 \in 0 .. n /\ k - 1 \notin Bad
  BY <1>2
<1> QED BY <1>2, <1>3

LEMMA OneMore ==
  ASSUME NEW S, NEW b \in Seq(S), NEW k \in 1 .. Len(b)
  PROVE  LET n == Len(b)
         IN  /\ n \in Nat /\ n - k + 1 \in 1 .. n /\ b[n - k + 1] \in S
             /\ Append(SubSeq(b, 1, n - k), b[n - k + 1]) = SubSeq(b, 1, n - (k - 1))
<1> DEFINE n == Len(b)
           m == n - k + 1
           v == Append(SubSeq(b, 1, n - k), b[m])
           w == SubSeq(b, 1, n - (k - 1))
<1>1. n \in Nat /\ m \in 1 .. n /\ n - (k - 1) = m /\ n - k = m - 1 /\ b[m] \in S
  OBVIOUS
<1>2. SubSeq(b, 1, m - 1) \in Seq(S) /\ Len(SubSeq(b, 1, m - 1)) = m - 1
  BY <1>1
<1>3. v \in Seq(S) /\ Len(v) = m /\ w \in Seq(S) /\ Len(w) = m
  BY <1>1, <1>2
<1>4. \A i \in 1 .. m : v[i] = w[i]
  <2> SUFFICES ASSUME NEW i \in 1 .. m PROVE v[i] = w[i]
    OBVIOUS
  <2>1. w[i] = b[i]
    BY <1>1
  <2>2. CASE i = m
    BY <1>1, <1>2, <2>1, <2>2
  <2>3. CASE i \in 1 .. m - 1
    <3>1. SubSeq(b, 1, m - 1)[i] = b[i]
      BY <1>1, <2>3
    <3> QED BY <1>1, <1>2, <2>1, <2>3, <3>1
  <2>4. i = m \/ i \in 1 .. m - 1
    <3> HIDE DEF m
    <3> QED BY <1>1
  <2> QED BY <2>2, <2>3, <2>4, Zenon
<1>5. v = w
  <2> HIDE DEF v, w, m
  <2> QED BY <1>1, <1>3, <1>4, SeqEqual
<1> QED BY <1>1, <1>5

LEMMA AllOrNone ==
  ASSUME NEW S, NEW b \in Seq(S)
  PROVE  LET n == Len(b)
         IN  n \in Nat /\ SubSeq(b, 1, n - 0) = b /\ SubSeq(b, 1, n - n) = <<>>
<1> DEFINE n == Len(b)
<1>1. n \in Nat /\ n - 0 = n /\ n - n = 0
  OBVIOUS
<1>2. SubSeq(b, 1, n) \in Seq(S) /\ Len(SubSeq(b, 1, n)) = n /\ \A i \in 1 .. n : SubSeq(b, 1, n)[i] = b[i]
  BY <1>1
<1>3. SubSeq(b, 1, n) = b
  BY <1>1, <1>2, SeqEqual
<1>4. SubSeq(b, 1, 0) = <<>>
  OBVIOUS
<1> QED BY <1>1, <1>3, <1>4

LEMMA BodyUnfolded ==
  ASSUME StatementDescent, NEW s \in AnyStream, NEW ends, NEW body
  PROVE  /\ CurrentKind(s) \in ends => ParseBody(ends, body, s) = Parsed(body, s)
         /\ \A t, u :
              CurrentKind(s) \notin ends \cup {"none"} /\ ParseStatement(s) = Parsed(t, u) =>
                ParseBody(ends, body, s) =
                  ParseBody(ends, Append(body, t), ConsumeNewLineAndComments(u))
<1> DEFINE r == ParseStatement(s)
<1>1. ParseBody(ends, body, s) =
        IF CurrentKind(s) \in ends \cup {"none"} THEN Parsed(body, s)
        ELSE IF r.tree = <<>> THEN r
        ELSE ParseBody(ends, Append(body, r.tree[1]), ConsumeNewLineAndComments(r.stream))
  BY DEF StatementDescent, BodyAt, Then
<1>2. ASSUME NEW t, NEW u, r = Parsed(t, u)
      PROVE  r.tree # <<>> /\ r.tree[1] = t /\ r.stream = u
  BY <1>2, ParsedFields
<1> HIDE DEF r
<1>3. ASSUME NEW t, NEW u, CurrentKind(s) \notin ends \cup {"none"}, r = Parsed(t, u)
      PROVE  ParseBody(ends, body, s) =
               ParseBody(ends, Append(body, t), ConsumeNewLineAndComments(u))
  BY <1>1, <1>2, <1>3
<1> QED BY <1>1, <1>3 DEF r

LEMMA WhileBodyUnfolded ==
  ASSUME StatementDescent, NEW s \in AnyStream, NEW body
  PROVE  /\ CurrentKind(s) = "KW_WEnd" => ParseWhileBody(body, s) = Parsed(body, s)
         /\ \A t, u :
              CurrentKind(s) \notin {"KW_WEnd", "none"} /\ ParseStatement(s) = Parsed(t, u) =>
                ParseWhileBody(body, s) = ParseWhileBody(Append(body, t), u)
<1> DEFINE r == ParseStatement(s)
<1>1. ParseWhileBody(body, s) =
        IF CurrentKind(s) \in {"KW_WEnd", "none"} THEN Parsed(body, s)
        ELSE IF r.tree = <<>> THEN r
        ELSE ParseWhileBody(Append(body, r.tree[1]), r.stream)
  BY DEF StatementDescent, WhileBodyAt, Then
<1>2. ASSUME NEW t, NEW u, r = Parsed(t, u)
      PROVE  r.tree # <<>> /\ r.tree[1] = t /\ r.stream = u
  BY <1>2, ParsedFields
<1> HIDE DEF r
<1>3. ASSUME NEW t, NEW u, CurrentKind(s) \notin {"KW_WEnd", "none"}, r = Parsed(t, u)
      PROVE  ParseWhileBody(body, s) = ParseWhileBody(Append(body, t), u)
  BY <1>1, <1>2, <1>3
<1> QED BY <1>1, <1>3 DEF r

LEMMA ReadsThere ==
  ASSUME NEW s \in AnyStream, ReadsFrom(s), NEW t \in Ahead(s)
  PROVE  ReadsFrom(t)
BY AheadIsTransitive DEF ReadsFrom

LEMMA ReadsHere ==
  ASSUME NEW s \in AnyStream, ReadsFrom(s)
  PROVE  ReadsAt(s)
BY StreamFields DEF ReadsFrom

\* A word is before the statements, and one of ends behind them.
LEMMA LinesRead ==
  ASSUME ExpressionDescent, StatementDescent, NEW body \in Seq(StatementTree),
         NEW ends \in SUBSET BlockEnd,
         NEW s, NEW t, ReadsFrom(s), Stands(s, Lines(body), t), CurrentKind(t) \in ends
  PROVE  CurrentKind(s) \notin SkipKind /\ ParseBody(ends, <<>>, s) = Parsed(body, t)
<1> DEFINE n    == Len(body)
           last == LastParts(LineParts(body))
           Reads(k) ==
             \A a, z : ReadsFrom(a) /\ Stands(a, last[k], z) /\ CurrentKind(z) \in ends =>
               /\ CurrentKind(a) \notin SkipKind
               /\ ParseBody(ends, SubSeq(body, 1, n - k), a) = Parsed(body, z)
           G == {k \in 0 .. n : Reads(k)}
<1>1. /\ LineParts(body) \in Seq(Seq(Token)) /\ Len(LineParts(body)) = n
      /\ Lines(body) = last[n]
      /\ \A i \in 1 .. n : LineParts(body)[i] = WrittenStatement(body[i]) \o LineBreak
  BY LinePartsType
<1>2. n \in Nat /\ SubSeq(body, 1, n - 0) = body /\ SubSeq(body, 1, n - n) = <<>>
  BY AllOrNone
<1>3. /\ last[0] = <<>> /\ \A k \in 0 .. n : last[k] \in Seq(Token)
      /\ \A k \in 1 .. n : last[k] = LineParts(body)[n - k + 1] \o last[k - 1]
  <2> HIDE DEF n
  <2> QED BY <1>1, LastPartsAre
<1>4. ends \cap SkipKind = {} /\ "none" \notin ends
  BY DEF BlockEnd, IfEnd, SkipKind, CommentKind
<1> HIDE DEF last, n
<1>5. Reads(0)
  <2> SUFFICES ASSUME NEW a, NEW z, Stands(a, <<>>, z), CurrentKind(z) \in ends
               PROVE  /\ CurrentKind(a) \notin SkipKind
                      /\ ParseBody(ends, body, a) = Parsed(body, z)
    BY <1>2, <1>3
  <2>1. a = z /\ a \in AnyStream
    BY StandsNone, StandsType
  <2> QED BY <1>4, <2>1, BodyUnfolded
<1>6. ASSUME NEW k \in 1 .. n, Reads(k - 1) PROVE Reads(k)
  <2> SUFFICES ASSUME NEW a, NEW z, ReadsFrom(a), Stands(a, last[k], z), CurrentKind(z) \in ends
               PROVE  /\ CurrentKind(a) \notin SkipKind
                      /\ ParseBody(ends, SubSeq(body, 1, n - k), a) = Parsed(body, z)
    OBVIOUS
  <2> DEFINE b == body[n - k + 1]
             w == WrittenStatement(b)
             front == SubSeq(body, 1, n - k)
  <2>1. /\ n - k + 1 \in 1 .. n /\ b \in StatementTree
        /\ Append(front, b) = SubSeq(body, 1, n - (k - 1))
    BY <1>6, OneMore DEF n
  <2>2. w \in Seq(Token) /\ LineBreak \in Seq(Token) /\ last[k - 1] \in Seq(Token)
    <3>1. k - 1 \in 0 .. n
      BY <1>2
    <3> QED BY <1>3, <2>1, <3>1, StatementType, LineBreakAssumption
  <2>3. last[k] = (w \o LineBreak) \o last[k - 1]
    BY <1>1, <1>3, <2>1
  <2> HIDE DEF b, w, front
  <2>4. PICK v : Stands(a, w \o LineBreak, v) /\ Stands(v, last[k - 1], z)
    <3>1. w \o LineBreak \in Seq(Token) /\ Stands(a, (w \o LineBreak) \o last[k - 1], z)
      BY <2>2, <2>3, ConcatType
    <3> QED BY <2>2, <3>1, StandsConcat
  <2>5. PICK u : Stands(a, w, u) /\ Stands(u, LineBreak, v)
    BY <2>2, <2>4, StandsConcat
  <2>6. a \in AnyStream /\ v \in Ahead(a)
    BY <2>4, StandsType
  <2>7. CurrentKind(v) \notin SkipKind /\ ParseBody(ends, Append(front, b), v) = Parsed(body, z)
    <3>1. ReadsFrom(v)
      BY <2>6, ReadsThere
    <3>2. /\ CurrentKind(v) \notin SkipKind
          /\ ParseBody(ends, SubSeq(body, 1, n - (k - 1)), v) = Parsed(body, z)
      BY <1>6, <2>4, <3>1
    <3> QED BY <2>1, <3>2
  <2>8. ConsumeNewLineAndComments(u) = v /\ EndsLine(u)
    BY <2>5, <2>7, LineBreakSkipped DEF EndsLine
  <2>9. ParseStatement(a) = Parsed(b, u)
    BY <2>1, <2>5, <2>6, <2>8, ReadsHere DEF ReadsAt, w
  <2>10. CurrentKind(a) \notin SkipKind \cup ends \cup {"none"}
    BY <2>1, <2>5, StatementStarts DEF StartsStatement, w
  <2>11. ParseBody(ends, front, a) = ParseBody(ends, Append(front, b), v)
    BY <2>6, <2>8, <2>9, <2>10, BodyUnfolded
  <2> QED BY <2>7, <2>10, <2>11 DEF front
<1>7. 0 \in G /\ \A k \in 1 .. n : k - 1 \in G => k \in G
  <2> HIDE DEF Reads
  <2> QED BY <1>2, <1>5, <1>6
<1>8. n \in G
  <2> HIDE DEF G
  <2> QED BY <1>2, <1>7, Climb
<1>9. Reads(n)
  BY <1>8
<1> QED BY <1>1, <1>2, <1>9

\* Behind the end of its first line.
LEMMA BlockRead ==
  ASSUME ExpressionDescent, StatementDescent, NEW body \in Seq(StatementTree),
         NEW ends \in SUBSET BlockEnd,
         NEW s, NEW t, NEW u, ReadsFrom(s),
         Stands(s, LineBreak, t), Stands(t, Lines(body), u), CurrentKind(u) \in ends
  PROVE  /\ ConsumeNewLineAndComments(s) = t
         /\ ParseBody(ends, <<>>, t) = Parsed(body, u)
<1>1. s \in AnyStream /\ t \in Ahead(s)
  BY StandsType
<1>2. ReadsFrom(t)
  BY <1>1, ReadsThere
<1>3. CurrentKind(t) \notin SkipKind /\ ParseBody(ends, <<>>, t) = Parsed(body, u)
  BY <1>2, LinesRead
<1> QED BY <1>3, LineBreakSkipped

LEMMA LoopRead ==
  ASSUME ExpressionDescent, StatementDescent, NEW body \in Seq(StatementTree),
         NEW s, NEW t, ReadsFrom(s), Stands(s, LoopLines(body), t), CurrentKind(t) = "KW_WEnd"
  PROVE  EndsLine(s) /\ ParseWhileBody(<<>>, s) = Parsed(body, t)
<1> DEFINE n    == Len(body)
           last == LastParts(LoopParts(body))
           Reads(k) ==
             \A a, z : ReadsFrom(a) /\ Stands(a, last[k], z) /\ CurrentKind(z) = "KW_WEnd" =>
               /\ EndsLine(a)
               /\ ParseWhileBody(SubSeq(body, 1, n - k), a) = Parsed(body, z)
           G == {k \in 0 .. n : Reads(k)}
<1>1. /\ LoopParts(body) \in Seq(Seq(Token)) /\ Len(LoopParts(body)) = n
      /\ LoopLines(body) = last[n]
      /\ \A i \in 1 .. n : LoopParts(body)[i] = LineBreak \o WrittenStatement(body[i])
  BY LinePartsType
<1>2. n \in Nat /\ SubSeq(body, 1, n - 0) = body /\ SubSeq(body, 1, n - n) = <<>>
  BY AllOrNone
<1>3. /\ last[0] = <<>> /\ \A k \in 0 .. n : last[k] \in Seq(Token)
      /\ \A k \in 1 .. n : last[k] = LoopParts(body)[n - k + 1] \o last[k - 1]
  <2> HIDE DEF n
  <2> QED BY <1>1, LastPartsAre
<1> HIDE DEF last, n
<1>4. Reads(0)
  <2> SUFFICES ASSUME NEW a, NEW z, Stands(a, <<>>, z), CurrentKind(z) = "KW_WEnd"
               PROVE  EndsLine(a) /\ ParseWhileBody(body, a) = Parsed(body, z)
    BY <1>2, <1>3
  <2>1. a = z /\ a \in AnyStream
    BY StandsNone, StandsType
  <2> QED BY <2>1, WhileBodyUnfolded DEF EndsLine
<1>5. ASSUME NEW k \in 1 .. n, Reads(k - 1) PROVE Reads(k)
  <2> SUFFICES ASSUME NEW a, NEW z, ReadsFrom(a), Stands(a, last[k], z),
                      CurrentKind(z) = "KW_WEnd"
               PROVE  /\ EndsLine(a)
                      /\ ParseWhileBody(SubSeq(body, 1, n - k), a) = Parsed(body, z)
    OBVIOUS
  <2> DEFINE b == body[n - k + 1]
             w == WrittenStatement(b)
             front == SubSeq(body, 1, n - k)
  <2>1. /\ n - k + 1 \in 1 .. n /\ b \in StatementTree
        /\ Append(front, b) = SubSeq(body, 1, n - (k - 1))
    BY <1>5, OneMore DEF n
  <2>2. w \in Seq(Token) /\ LineBreak \in Seq(Token) /\ last[k - 1] \in Seq(Token)
    <3>1. k - 1 \in 0 .. n
      BY <1>2
    <3> QED BY <1>3, <2>1, <3>1, StatementType, LineBreakAssumption
  <2>3. last[k] = (LineBreak \o w) \o last[k - 1]
    BY <1>1, <1>3, <2>1
  <2> HIDE DEF b, w, front
  <2>4. PICK u : Stands(a, LineBreak \o w, u) /\ Stands(u, last[k - 1], z)
    <3>1. LineBreak \o w \in Seq(Token) /\ Stands(a, (LineBreak \o w) \o last[k - 1], z)
      BY <2>2, <2>3, ConcatType
    <3> QED BY <2>2, <3>1, StandsConcat
  <2>5. PICK v : Stands(a, LineBreak, v) /\ Stands(v, w, u)
    BY <2>2, <2>4, StandsConcat
  <2>6. a \in AnyStream /\ v \in AnyStream /\ v \in Ahead(a) /\ u \in Ahead(a)
    BY <2>4, <2>5, StandsType
  <2>7. EndsLine(u) /\ ParseWhileBody(Append(front, b), u) = Parsed(body, z)
    <3>1. ReadsFrom(u)
      BY <2>6, ReadsThere
    <3>2. EndsLine(u) /\ ParseWhileBody(SubSeq(body, 1, n - (k - 1)), u) = Parsed(body, z)
      BY <1>5, <2>4, <3>1
    <3> QED BY <2>1, <3>2
  <2>8. ParseStatement(v) = Parsed(b, u)
    <3>1. ReadsAt(v)
      BY <2>6 DEF ReadsFrom
    <3> QED BY <2>1, <2>5, <2>7, <3>1 DEF ReadsAt, w
  <2>9. CurrentKind(v) \notin SkipKind
    BY <2>1, <2>5, StatementStarts DEF StartsStatement, w
  <2>10. CurrentKind(a) \in SkipKind /\ ParseStatement(a) = Parsed(b, u)
    BY <2>5, <2>8, <2>9, LineBreakSkipped, StatementBehindBreak
  <2>11. EndsLine(a) /\ CurrentKind(a) \notin {"KW_WEnd", "none"}
    BY <2>10 DEF EndsLine, SkipKind, CommentKind
  <2>12. ParseWhileBody(front, a) = ParseWhileBody(Append(front, b), u)
    BY <2>6, <2>10, <2>11, WhileBodyUnfolded
  <2> QED BY <2>7, <2>11, <2>12 DEF front
<1>6. 0 \in G /\ \A k \in 1 .. n : k - 1 \in G => k \in G
  <2> HIDE DEF Reads
  <2> QED BY <1>2, <1>4, <1>5
<1>7. n \in G
  <2> HIDE DEF G
  <2> QED BY <1>2, <1>6, Climb
<1>8. Reads(n)
  BY <1>7
<1> QED BY <1>1, <1>2, <1>8

-----------------------------------------------------------------------------
(* While and If.                                                           *)

LEMMA WhileRead ==
  ASSUME ExpressionDescent, StatementDescent, NEW t \in StatementTree, t \in WhileStatements,
         NEW s, NEW u, Stands(s, WrittenStatement(t), u), ReadsFrom(ConsumeCurrent(s))
  PROVE  ParseStatement(s) = Parsed(t, u)
<1> DEFINE rest == ConsumeCurrent(s)
           r    == ParseExpression(rest)
           b    == ParseWhileBody(<<>>, r.stream)
<1>1. /\ t = WhileStatement(t.condition, t.body)
      /\ t.condition \in Tree /\ t.body \in Seq(StatementTree)
  BY WhileShape
<1>2. PICK m, v :
        /\ Stands(rest, Written(t.condition), m) /\ Stands(m, LoopLines(t.body), v)
        /\ CurrentKind(v) = "KW_WEnd" /\ ConsumeCurrent(v) = u
  BY WhileStands
<1>3. CurrentKind(s) = "KW_While" /\ s \in AnyStream /\ rest \in AnyStream /\ m \in Ahead(rest)
  BY <1>2, WhileStands, StandsType
<1>4. ReadsFrom(m)
  BY <1>3, ReadsThere
<1>5. EndsLine(m) /\ m \in AnyStream /\ ParseWhileBody(<<>>, m) = Parsed(t.body, v)
  BY <1>1, <1>2, <1>4, LoopRead, StandsType
<1>6. r = Parsed(t.condition, m)
  BY <1>1, <1>2, <1>5, LineEnds, ExpressionRead
<1>7. ParseStatement(s) = ParseWhileStatement(rest)
  <2>1. CurrentKind(s) \notin SkipKind
    BY <1>3 DEF SkipKind, CommentKind
  <2> QED BY <1>3, <2>1, StatementHere
<1>8. ParseWhileStatement(rest) =
        IF r.tree = <<>> THEN r
        ELSE IF b.tree = <<>> THEN b
        ELSE IF CurrentKind(b.stream) = "KW_WEnd"
               THEN Parsed(WhileStatement(r.tree[1], b.tree[1]), ConsumeCurrent(b.stream))
               ELSE Failed(b.stream)
  BY DEF ParseWhileStatement, Then, MustParse
<1>9. r.tree # <<>> /\ r.tree[1] = t.condition /\ r.stream = m
  BY <1>6, ParsedFields
<1>10. b = Parsed(t.body, v)
  BY <1>5, <1>9
<1>11. b.tree # <<>> /\ b.tree[1] = t.body /\ b.stream = v
  BY <1>10, ParsedFields
<1> HIDE DEF r, b
<1> QED BY <1>1, <1>2, <1>7, <1>8, <1>9, <1>11

\* A case, up to the next one, Else or EndIf.
LEMMA CaseRead ==
  ASSUME ExpressionDescent, StatementDescent, NEW word \in {"KW_If", "KW_ElseIf"},
         NEW c \in Cases, NEW s, NEW u, Stands(s, WrittenCase(word, c), u),
         ReadsFrom(ConsumeCurrent(s)), CurrentKind(u) \in IfEnd
  PROVE  \E m : /\ ParseExpression(ConsumeCurrent(s)) = Parsed(c.condition, m)
                /\ CurrentKind(m) = "KW_Then"
                /\ ParseBody(IfEnd, <<>>, ConsumeNewLineAndComments(ConsumeCurrent(m)))
                     = Parsed(c.body, u)
<1> DEFINE rest == ConsumeCurrent(s)
<1>1. c.condition \in Tree /\ c.body \in Seq(StatementTree)
  BY CaseStands
<1>2. PICK m, v :
        /\ Stands(rest, Written(c.condition), m) /\ CurrentKind(m) = "KW_Then"
        /\ Stands(ConsumeCurrent(m), LineBreak, v) /\ Stands(v, Lines(c.body), u)
  BY CaseStands
<1>3. ParseExpression(rest) = Parsed(c.condition, m)
  <2>1. Ends(m)
    BY <1>2 DEF Ends, BinaryOperator, CompoundAssignment, Comparison
  <2> QED BY <1>1, <1>2, <2>1, ExpressionRead
<1>4. /\ rest \in AnyStream /\ m \in AnyStream /\ m \in Ahead(rest)
      /\ ConsumeCurrent(m) \in Ahead(m)
  BY <1>2, StandsType, ConsumeCurrentAhead
<1>5. ReadsFrom(ConsumeCurrent(m))
  BY <1>4, ReadsThere
<1>6. IfEnd \in SUBSET BlockEnd
  BY DEF BlockEnd
<1>7. /\ ConsumeNewLineAndComments(ConsumeCurrent(m)) = v
      /\ ParseBody(IfEnd, <<>>, v) = Parsed(c.body, u)
  BY <1>1, <1>2, <1>5, <1>6, BlockRead
<1> QED BY <1>2, <1>3, <1>7

LEMMA ElseIfUnfolded ==
  ASSUME StatementDescent, NEW s \in AnyStream, NEW cases
  PROVE  /\ CurrentKind(s) # "KW_ElseIf" => ParseElseIfCases(cases, s) = Parsed(cases, s)
         /\ \A e, m, body, u :
              /\ CurrentKind(s) = "KW_ElseIf" /\ CurrentKind(m) = "KW_Then"
              /\ ParseExpression(ConsumeCurrent(s)) = Parsed(e, m)
              /\ ParseBody(IfEnd, <<>>, ConsumeNewLineAndComments(ConsumeCurrent(m)))
                   = Parsed(body, u)
              => ParseElseIfCases(cases, s) = ParseElseIfCases(Append(cases, IfCase(e, body)), u)
<1> DEFINE r == ParseExpression(ConsumeCurrent(s))
           b == ParseIfCaseStatements(AfterThen(r.stream))
           loop == ParseElseIfCases(Append(cases, IfCase(r.tree[1], b.tree[1])), b.stream)
<1>1. ParseElseIfCases(cases, s) =
        IF CurrentKind(s) # "KW_ElseIf" THEN Parsed(cases, s)
        ELSE IF r.tree = <<>> THEN r
        ELSE IF b.tree = <<>> THEN b
        ELSE loop
  BY ElseIfCasesUnfolded
<1>2. ASSUME NEW e, NEW m, NEW body, NEW u,
             CurrentKind(s) = "KW_ElseIf", CurrentKind(m) = "KW_Then", r = Parsed(e, m),
             ParseBody(IfEnd, <<>>, ConsumeNewLineAndComments(ConsumeCurrent(m)))
               = Parsed(body, u)
      PROVE  ParseElseIfCases(cases, s) = ParseElseIfCases(Append(cases, IfCase(e, body)), u)
  <2> DEFINE t == ConsumeNewLineAndComments(ConsumeCurrent(m))
             p == ParseBody(IfEnd, <<>>, t)
  <2>1. r.tree # <<>> /\ r.tree[1] = e /\ r.stream = m
    BY <1>2, ParsedFields
  <2>2. AfterThen(r.stream) = t
    BY <1>2, <2>1 DEF AfterThen
  <2>3. b = ParseIfCaseStatements(t)
    BY <2>2
  <2>4. ParseIfCaseStatements(t) = Parsed(IF p.tree = <<>> THEN <<>> ELSE p.tree[1], p.stream)
    BY DEF ParseIfCaseStatements
  <2>5. p.tree # <<>> /\ p.tree[1] = body /\ p.stream = u
    BY <1>2, ParsedFields
  <2> HIDE DEF p, r
  <2>6. b = Parsed(body, u)
    BY <2>3, <2>4, <2>5
  <2>7. b.tree # <<>> /\ b.tree[1] = body /\ b.stream = u
    BY <2>6, ParsedFields
  <2> HIDE DEF b
  <2> QED BY <1>1, <1>2, <2>1, <2>7
<1> HIDE DEF b, loop
<1> QED BY <1>1, <1>2

\* The cases behind the first.
LEMMA CasesRead ==
  ASSUME ExpressionDescent, StatementDescent, NEW cases \in Seq(Cases), cases # <<>>,
         NEW s, NEW t, ReadsFrom(s),
         Stands(s, LastParts(CaseParts(cases))[Len(cases) - 1], t),
         CurrentKind(t) \in {"KW_Else", "KW_EndIf"}
  PROVE  /\ CurrentKind(s) \in IfEnd
         /\ ParseElseIfCases(<<cases[1]>>, s) = Parsed(cases, t)
<1> DEFINE n    == Len(cases)
           last == LastParts(CaseParts(cases))
           Reads(k) ==
             \A a, z : /\ ReadsFrom(a) /\ Stands(a, last[k], z)
                       /\ CurrentKind(z) \in {"KW_Else", "KW_EndIf"}
               => /\ CurrentKind(a) \in IfEnd
                  /\ ParseElseIfCases(SubSeq(cases, 1, n - k), a) = Parsed(cases, z)
           G == {k \in 0 .. n - 1 : Reads(k)}
<1>1. /\ CaseParts(cases) \in Seq(Seq(Token)) /\ Len(CaseParts(cases)) = n
      /\ \A i \in 1 .. n :
           CaseParts(cases)[i] = WrittenCase(IF i = 1 THEN "KW_If" ELSE "KW_ElseIf", cases[i])
  BY CasePartsType
<1>2. n \in Nat /\ n - 1 \in Nat /\ n - (n - 1) = 1 /\ SubSeq(cases, 1, n - 0) = cases
  BY AllOrNone
<1>3. SubSeq(cases, 1, 1) = <<cases[1]>>
  <2>1. n >= 1
    BY <1>2
  <2>2. /\ SubSeq(cases, 1, 1) \in Seq(Cases) /\ Len(SubSeq(cases, 1, 1)) = 1
        /\ SubSeq(cases, 1, 1)[1] = cases[1]
    BY <2>1
  <2>3. <<cases[1]>> \in Seq(Cases) /\ Len(<<cases[1]>>) = 1 /\ <<cases[1]>>[1] = cases[1]
    BY <2>1
  <2> DEFINE v == SubSeq(cases, 1, 1)
             w == <<cases[1]>>
  <2>4. v \in Seq(Cases) /\ w \in Seq(Cases) /\ Len(v) = Len(w) /\ \A i \in 1 .. Len(v) : v[i] = w[i]
    BY <2>2, <2>3
  <2> HIDE DEF v, w
  <2>5. v = w
    BY <2>4, SeqEqual
  <2> QED BY <2>5 DEF v, w
<1>4. /\ last[0] = <<>> /\ \A k \in 0 .. n : last[k] \in Seq(Token)
      /\ \A k \in 1 .. n : last[k] = CaseParts(cases)[n - k + 1] \o last[k - 1]
  <2> HIDE DEF n
  <2> QED BY <1>1, LastPartsAre
<1> HIDE DEF last, n
<1>5. Reads(0)
  <2> SUFFICES ASSUME NEW a, NEW z, Stands(a, <<>>, z),
                      CurrentKind(z) \in {"KW_Else", "KW_EndIf"}
               PROVE  CurrentKind(a) \in IfEnd /\ ParseElseIfCases(cases, a) = Parsed(cases, z)
    BY <1>2, <1>4
  <2>1. a = z /\ a \in AnyStream
    BY StandsNone, StandsType
  <2>2. CurrentKind(a) \in IfEnd /\ CurrentKind(a) # "KW_ElseIf"
    BY <2>1 DEF IfEnd
  <2> QED BY <2>1, <2>2, ElseIfUnfolded
<1>6. ASSUME NEW k \in 1 .. n - 1, Reads(k - 1) PROVE Reads(k)
  <2> SUFFICES ASSUME NEW a, NEW z, ReadsFrom(a), Stands(a, last[k], z),
                      CurrentKind(z) \in {"KW_Else", "KW_EndIf"}
               PROVE  /\ CurrentKind(a) \in IfEnd
                      /\ ParseElseIfCases(SubSeq(cases, 1, n - k), a) = Parsed(cases, z)
    OBVIOUS
  <2> DEFINE c == cases[n - k + 1]
             w == WrittenCase("KW_ElseIf", c)
             front == SubSeq(cases, 1, n - k)
  <2>1. /\ k \in 1 .. n /\ n - k + 1 \in 1 .. n /\ n - k + 1 # 1 /\ c \in Cases
        /\ Append(front, c) = SubSeq(cases, 1, n - (k - 1))
    <3>1. k \in 1 .. n /\ n - k + 1 # 1
      BY <1>2
    <3> QED BY <3>1, OneMore DEF n
  <2>2. w \in Seq(Token) /\ last[k - 1] \in Seq(Token)
    <3>1. k - 1 \in 0 .. n
      BY <1>2
    <3> QED BY <1>4, <2>1, <3>1, CaseType
  <2>3. last[k] = w \o last[k - 1]
    BY <1>1, <1>4, <2>1
  <2> HIDE DEF c, w, front
  <2>4. PICK x : Stands(a, w, x) /\ Stands(x, last[k - 1], z)
    <3>1. Stands(a, w \o last[k - 1], z)
      BY <2>3
    <3> QED BY <2>2, <3>1, StandsConcat
  <2>5. a \in AnyStream /\ x \in Ahead(a)
    BY <2>4, StandsType
  <2>6. CurrentKind(x) \in IfEnd /\ ParseElseIfCases(Append(front, c), x) = Parsed(cases, z)
    <3>1. ReadsFrom(x)
      BY <2>5, ReadsThere
    <3>2. /\ CurrentKind(x) \in IfEnd
          /\ ParseElseIfCases(SubSeq(cases, 1, n - (k - 1)), x) = Parsed(cases, z)
      BY <1>6, <2>4, <3>1
    <3> QED BY <2>1, <3>2
  <2>7. CurrentKind(a) = "KW_ElseIf" /\ c = IfCase(c.condition, c.body)
    BY <2>1, <2>4, CaseStands DEF w
  <2>8. ReadsFrom(ConsumeCurrent(a))
    BY <2>5, <2>7, ConsumeCurrentAhead, ReadsThere
  <2>9. PICK m : /\ ParseExpression(ConsumeCurrent(a)) = Parsed(c.condition, m)
                 /\ CurrentKind(m) = "KW_Then"
                 /\ ParseBody(IfEnd, <<>>, ConsumeNewLineAndComments(ConsumeCurrent(m)))
                      = Parsed(c.body, x)
    BY <2>1, <2>4, <2>6, <2>8, CaseRead DEF w
  <2>10. ParseElseIfCases(front, a)
           = ParseElseIfCases(Append(front, IfCase(c.condition, c.body)), x)
    BY <2>5, <2>7, <2>9, ElseIfUnfolded
  <2>11. CurrentKind(a) \in IfEnd
    BY <2>7 DEF IfEnd
  <2> QED BY <2>6, <2>7, <2>10, <2>11 DEF front
<1>7. 0 \in G /\ \A k \in 1 .. n - 1 : k - 1 \in G => k \in G
  <2> HIDE DEF Reads
  <2> QED BY <1>2, <1>5, <1>6
<1>8. n - 1 \in G
  <2> HIDE DEF G
  <2> QED BY <1>2, <1>7, Climb
<1>9. Reads(n - 1)
  BY <1>8
<1>10. Stands(s, last[n - 1], t)
  BY DEF last, n
<1> QED BY <1>2, <1>3, <1>9, <1>10

LEMMA ElseRead ==
  ASSUME ExpressionDescent, StatementDescent, NEW body \in Seq(StatementTree),
         NEW s, NEW t, ReadsFrom(s), Stands(s, WrittenElse(body), t), CurrentKind(t) = "KW_EndIf"
  PROVE  /\ CurrentKind(s) \in {"KW_Else", "KW_EndIf"}
         /\ ParseElseCase(s) = Parsed(body, t)
<1>1. CASE body = <<>>
  <2>1. Stands(s, <<>>, t)
    BY <1>1 DEF WrittenElse
  <2>2. s = t
    BY <2>1, StandsNone
  <2> QED BY <1>1, <2>2 DEF ParseElseCase
<1>2. CASE body # <<>>
  <2> DEFINE rest  == ConsumeCurrent(s)
             lines == Lines(body)
             else  == Sign("KW_Else")
  <2>1. else \in Token /\ else.kind = "KW_Else" /\ LineBreak \in Seq(Token) /\ lines \in Seq(Token)
    BY Words, LineBreakAssumption, LinePartsType
  <2>2. Stands(s, (<<else>> \o LineBreak) \o lines, t)
    BY <1>2 DEF WrittenElse
  <2> HIDE DEF lines, else
  <2>3. PICK v : Stands(s, <<else>> \o LineBreak, v) /\ Stands(v, lines, t)
    BY <2>1, <2>2, OneType, ConcatType, StandsConcat
  <2>4. /\ CurrentKind(s) = "KW_Else" /\ Stands(rest, LineBreak, v)
        /\ s \in AnyStream /\ rest \in Ahead(s)
    BY <2>1, <2>3, StandsFirst, StandsType DEF Behind
  <2>5. ReadsFrom(rest)
    BY <2>4, ReadsThere
  <2> DEFINE p == ParseBody(IfEnd, <<>>, v)
  <2>6. ConsumeNewLineAndComments(rest) = v /\ p = Parsed(body, t)
    <3>1. IfEnd \in SUBSET BlockEnd /\ CurrentKind(t) \in IfEnd
      BY DEF BlockEnd, IfEnd
    <3> QED BY <2>3, <2>4, <2>5, <3>1, BlockRead DEF lines
  <2>7. ParseElseCase(s) = ParseIfCaseStatements(v)
    BY <2>4, <2>6 DEF ParseElseCase
  <2>8. ParseIfCaseStatements(v) = Parsed(IF p.tree = <<>> THEN <<>> ELSE p.tree[1], p.stream)
    BY DEF ParseIfCaseStatements
  <2>9. p.tree # <<>> /\ p.tree[1] = body /\ p.stream = t
    BY <2>6, ParsedFields
  <2> HIDE DEF p
  <2> QED BY <2>4, <2>7, <2>8, <2>9
<1> QED BY <1>1, <1>2

LEMMA IfRead ==
  ASSUME ExpressionDescent, StatementDescent, NEW t \in StatementTree, t \in IfStatements,
         NEW s, NEW u, Stands(s, WrittenStatement(t), u), ReadsFrom(ConsumeCurrent(s))
  PROVE  ParseStatement(s) = Parsed(t, u)
<1> DEFINE rest == ConsumeCurrent(s)
           c1   == t.cases[1]
<1>1. /\ t = IfStatement(t.cases, t.elseCase)
      /\ t.cases \in Seq(Cases) /\ t.cases # <<>> /\ t.elseCase \in Seq(StatementTree)
      /\ c1 \in Cases
  BY IfShape
<1>2. PICK x, m, v :
        /\ Stands(s, WrittenCase("KW_If", c1), x)
        /\ Stands(x, LastParts(CaseParts(t.cases))[Len(t.cases) - 1], m)
        /\ Stands(m, WrittenElse(t.elseCase), v)
        /\ CurrentKind(v) = "KW_EndIf" /\ ConsumeCurrent(v) = u
  BY IfStands
<1> HIDE DEF c1
<1>3. /\ CurrentKind(s) = "KW_If" /\ c1 = IfCase(c1.condition, c1.body)
      /\ s \in AnyStream /\ rest \in AnyStream
  <2>1. CurrentKind(s) = "KW_If" /\ Behind(s, rest) /\ c1 = IfCase(c1.condition, c1.body)
    BY <1>1, <1>2, CaseStands
  <2> QED BY <1>2, <2>1, StandsType DEF Behind
<1>4. x \in Ahead(rest) /\ m \in Ahead(rest)
  <2>1. PICK y, z :
          /\ Stands(rest, Written(c1.condition), y) /\ CurrentKind(y) = "KW_Then"
          /\ Stands(ConsumeCurrent(y), LineBreak, z) /\ Stands(z, Lines(c1.body), x)
    BY <1>1, <1>2, CaseStands
  <2>2. /\ y \in Ahead(rest) /\ y \in AnyStream /\ ConsumeCurrent(y) \in Ahead(y)
        /\ z \in Ahead(ConsumeCurrent(y)) /\ x \in Ahead(z) /\ m \in Ahead(x)
    BY <1>2, <2>1, StandsType, ConsumeCurrentAhead
  <2> HIDE DEF rest
  <2> QED BY <1>3, <2>2, AheadIsTransitive
<1>5. ReadsFrom(x) /\ ReadsFrom(m)
  BY <1>3, <1>4, ReadsThere
<1>6. /\ CurrentKind(m) \in {"KW_Else", "KW_EndIf"}
      /\ ParseElseCase(m) = Parsed(t.elseCase, v)
  BY <1>1, <1>2, <1>5, ElseRead
<1>7. /\ CurrentKind(x) \in IfEnd
      /\ ParseElseIfCases(<<c1>>, x) = Parsed(t.cases, m)
  BY <1>1, <1>2, <1>5, <1>6, CasesRead DEF c1
<1>8. PICK y : /\ ParseExpression(rest) = Parsed(c1.condition, y)
               /\ CurrentKind(y) = "KW_Then"
               /\ ParseBody(IfEnd, <<>>, ConsumeNewLineAndComments(ConsumeCurrent(y)))
                    = Parsed(c1.body, x)
  BY <1>1, <1>2, <1>7, CaseRead
<1>9. ParseStatement(s) = ParseIfStatement(rest)
  <2>1. CurrentKind(s) \notin SkipKind
    BY <1>3 DEF SkipKind, CommentKind
  <2> QED BY <1>3, <2>1, StatementHere
<1> DEFINE r == ParseExpression(rest)
           a == ConsumeNewLineAndComments(ConsumeCurrent(r.stream))
           b == ParseBody(IfEnd, <<>>, a)
           c == ParseElseIfCases(<<IfCase(r.tree[1], b.tree[1])>>, b.stream)
           e == ParseElseCase(c.stream)
<1>10. ParseIfStatement(rest) =
         IF r.tree = <<>> THEN r
         ELSE IF CurrentKind(r.stream) = "KW_Then" THEN ParseIfCases(r.tree[1], a)
         ELSE Failed(r.stream)
  BY DEF ParseIfStatement, Then, MustParse
<1>11. ParseIfCases(r.tree[1], a) =
         IF b.tree = <<>> THEN b ELSE IF c.tree = <<>> THEN c ELSE ParseIfEnd(c.tree[1], c.stream)
  BY IfCasesUnfolded
<1>13. r.tree # <<>> /\ r.tree[1] = c1.condition /\ r.stream = y
  BY <1>8, ParsedFields
<1>14. b = Parsed(c1.body, x)
  BY <1>8, <1>13
<1>15. b.tree # <<>> /\ b.tree[1] = c1.body /\ b.stream = x
  BY <1>14, ParsedFields
<1> HIDE DEF r, a, b
<1>16. c = Parsed(t.cases, m)
  BY <1>3, <1>7, <1>13, <1>15
<1>17. c.tree # <<>> /\ c.tree[1] = t.cases /\ c.stream = m
  BY <1>16, ParsedFields
<1> HIDE DEF c
<1>12. ParseIfEnd(c.tree[1], c.stream) =
         IF e.tree = <<>> THEN e
         ELSE IF CurrentKind(e.stream) = "KW_EndIf"
                THEN Parsed(IfStatement(c.tree[1], e.tree[1]), ConsumeCurrent(e.stream))
                ELSE Failed(e.stream)
  BY DEF ParseIfEnd, Then, MustParse
<1>18. e = Parsed(t.elseCase, v)
  BY <1>6, <1>17
<1>19. e.tree # <<>> /\ e.tree[1] = t.elseCase /\ e.stream = v
  BY <1>18, ParsedFields
<1> HIDE DEF e
<1> QED BY <1>1, <1>2, <1>8, <1>9, <1>10, <1>11, <1>12, <1>13, <1>15, <1>17, <1>19

-----------------------------------------------------------------------------
(* Every statement, by the tokens left.                                    *)

LEMMA StatementRead ==
  ASSUME ExpressionDescent, StatementDescent, NEW s \in AnyStream,
         \A t : Behind(s, t) => ReadsAt(t)
  PROVE  ReadsAt(s)
<1> SUFFICES ASSUME NEW t \in StatementTree, NEW u, Stands(s, WrittenStatement(t), u), EndsLine(u)
             PROVE  ParseStatement(s) = Parsed(t, u)
  BY DEF ReadsAt
<1>1. StartsStatement(s)
  BY StatementStarts
<1>2. Behind(s, ConsumeCurrent(s)) /\ ConsumeCurrent(s) \in AnyStream
  BY <1>1, RestBehind DEF StartsStatement
<1>3. ReadsFrom(ConsumeCurrent(s))
  BY <1>2, BehindOn DEF ReadsFrom
<1> QED BY <1>3, StatementTreeAssumption, AssignmentRead, ExpressionStatementRead, ExitRead,
           WhileRead, IfRead

LEMMA AllStatementsRead ==
  ASSUME ExpressionDescent, StatementDescent
  PROVE  \A s \in AnyStream : ReadsAt(s) /\ ReadsFrom(s)
<1> DEFINE Left(s) == Len(s.tokens) - s.index
           Bad     == {s \in AnyStream : ~ReadsAt(s)}
<1>1. \A s \in AnyStream : Left(s) \in Nat
  BY StreamFields
<1>2. SUFFICES ASSUME Bad # {} PROVE FALSE
  BY AheadFields DEF ReadsFrom
<1>3. PICK s \in Bad : \A t \in Bad : Left(s) <= Left(t)
  <2> DEFINE T == {Left(t) : t \in Bad}
  <2>1. T \in SUBSET Nat /\ T # {}
    BY <1>1, <1>2
  <2>2. PICK n \in T : \A m \in T : n <= m
    <3> HIDE DEF T
    <3> QED BY <2>1, NatLeast
  <2> QED BY <2>2
<1>4. s \in AnyStream /\ ~ReadsAt(s)
  BY <1>3
<1>5. ASSUME NEW t, Behind(s, t) PROVE ReadsAt(t)
  <2>1. t \in AnyStream /\ Left(t) < Left(s)
    BY <1>4, <1>5, StreamFields, AheadFields DEF Behind
  <2>2. t \notin Bad
    BY <1>1, <1>3, <1>4, <2>1
  <2> QED BY <2>1, <2>2
<1> QED BY <1>4, <1>5, StatementRead

-----------------------------------------------------------------------------
(* Parameters.                                                             *)

\* What is read of a parameter: nothing, its name, its default value.
NoParameter == [name |-> "", defaultInit |-> <<>>]
HasName(p)  == p.name # ""
WithName(p, name) == [p EXCEPT !.name = name]
WithDefault(p, e) ==
  [p EXCEPT !.defaultInit = Append(@, VariableAssignment(p.name, "Auto", <<e>>))]

LEMMA ParameterPartUnfolded ==
  ASSUME StatementDescent, NEW s \in AnyStream, NEW p
  PROVE  LET kind == CurrentKind(s)
             rest == ConsumeCurrent(s)
         IN  /\ kind = "VariableIdentifier" =>
                  ParseParameterPart(p, s) =
                    ParseParameterPart(WithName(p, CurrentToken(s).text), rest)
             /\ kind = "KW_ByRef" => ParseParameterPart(p, s) = ParseParameterPart(p, rest)
             /\ kind = "OP_Equals" /\ HasName(p) =>
                  LET r == ParseExpression(rest)
                  IN  ParseParameterPart(p, s) =
                        IF r.tree = <<>> THEN r
                        ELSE ParseParameterPart(WithDefault(p, r.tree[1]), r.stream)
             /\ kind \in {"Comma", "RParen"} => ParseParameterPart(p, s) = Parsed(p, s)
<1> DEFINE kind == CurrentKind(s)
           rest == ConsumeCurrent(s)
           r    == ParseExpression(rest)
           Named == ParseParameterPart(WithName(p, CurrentToken(s).text), rest)
           initial == IF r.tree = <<>> THEN r
                      ELSE ParseParameterPart(WithDefault(p, r.tree[1]), r.stream)
<1>1. ParseParameterPart(p, s) =
        CASE kind = "VariableIdentifier" -> Named
          [] kind \in {"KW_Const", "KW_ByRef"} -> ParseParameterPart(p, rest)
          [] kind = "OP_Equals" /\ HasName(p) -> initial
          [] kind \in {"Comma", "RParen"} -> Parsed(p, s)
          [] OTHER -> Failed(s)
  BY DEF StatementDescent, ParameterPartAt, Then, WithName, WithDefault, HasName
<1> HIDE DEF kind, rest, initial, Named
<1>2. /\ kind = "VariableIdentifier" => ParseParameterPart(p, s) = Named
      /\ kind = "KW_ByRef" => ParseParameterPart(p, s) = ParseParameterPart(p, rest)
      /\ kind = "OP_Equals" /\ HasName(p) => ParseParameterPart(p, s) = initial
      /\ kind \in {"Comma", "RParen"} => ParseParameterPart(p, s) = Parsed(p, s)
  BY <1>1
<1> QED BY <1>2 DEF kind, rest, Named, initial

LEMMA DefaultUnfolded ==
  ASSUME StatementDescent, NEW s \in AnyStream, NEW p, NEW e, NEW t,
         CurrentKind(s) = "OP_Equals", HasName(p),
         ParseExpression(ConsumeCurrent(s)) = Parsed(e, t)
  PROVE  ParseParameterPart(p, s) = ParseParameterPart(WithDefault(p, e), t)
<1> DEFINE r == ParseExpression(ConsumeCurrent(s))
<1>1. ParseParameterPart(p, s) =
        IF r.tree = <<>> THEN r ELSE ParseParameterPart(WithDefault(p, r.tree[1]), r.stream)
  BY ParameterPartUnfolded
<1>2. r.tree # <<>> /\ r.tree[1] = e /\ r.stream = t
  BY ParsedFields
<1> HIDE DEF r
<1> QED BY <1>1, <1>2

LEMMA ParametersUnfolded ==
  ASSUME StatementDescent, NEW s \in AnyStream, NEW parameters
  PROVE  /\ CurrentKind(s) = "RParen" => ParseParameters(parameters, s) = Parsed(parameters, s)
         /\ \A p, t :
              /\ CurrentKind(s) \notin {"RParen", "none"}
              /\ ParseParameterPart(NoParameter, s) = Parsed(p, t)
              => ParseParameters(parameters, s) =
                   ParseParameters(Append(parameters, p),
                                   IF CurrentKind(t) = "Comma" THEN ConsumeCurrent(t) ELSE t)
<1> DEFINE r == ParseParameterPart(NoParameter, s)
<1>1. ParseParameters(parameters, s) =
        IF CurrentKind(s) \in {"RParen", "none"} THEN Parsed(parameters, s)
        ELSE IF r.tree = <<>> THEN r
        ELSE ParseParameters(Append(parameters, r.tree[1]),
                             IF CurrentKind(r.stream) = "Comma" THEN ConsumeCurrent(r.stream)
                                                                ELSE r.stream)
  BY DEF StatementDescent, ParametersAt, Then, NoParameter
<1> HIDE DEF r
<1>2. ASSUME NEW p, NEW t, r = Parsed(p, t)
      PROVE  r.tree # <<>> /\ r.tree[1] = p /\ r.stream = t
  BY <1>2, ParsedFields
<1>3. ASSUME NEW p, NEW t, CurrentKind(s) \notin {"RParen", "none"}, r = Parsed(p, t)
      PROVE  ParseParameters(parameters, s) =
               ParseParameters(Append(parameters, p),
                               IF CurrentKind(t) = "Comma" THEN ConsumeCurrent(t) ELSE t)
  BY <1>1, <1>2, <1>3
<1>4. CurrentKind(s) = "RParen" => ParseParameters(parameters, s) = Parsed(parameters, s)
  BY <1>1
<1> QED BY <1>3, <1>4 DEF r

IsParameter(p) ==
  /\ p = [name |-> p.name, defaultInit |-> p.defaultInit]
  /\ p.name \in STRING /\ p.name # "" /\ IsDefault(p.defaultInit, p.name)

LEMMA ParameterWritten ==
  ASSUME NEW p, IsParameter(p)
  PROVE  /\ WrittenParameter(p) \in Seq(Token)
         /\ p.defaultInit = <<>> =>
              WrittenParameter(p) = <<Sign("KW_ByRef")>> \o <<VariableToken(p.name)>>
         /\ p.defaultInit # <<>> =>
              \E e \in Tree :
                /\ p.defaultInit = <<VariableAssignment(p.name, "Auto", <<e>>)>>
                /\ WrittenParameter(p) =
                     <<VariableToken(p.name)>> \o (<<Sign("OP_Equals")>> \o Written(e))
<1>1. VariableToken(p.name) \in Token
  BY VariableTokens DEF IsParameter
<1>2. Sign("KW_ByRef") \in Token /\ Sign("OP_Equals") \in Token
  BY Words
<1>3. CASE p.defaultInit = <<>>
  <2>1. WrittenParameter(p) = <<Sign("KW_ByRef"), VariableToken(p.name)>>
    BY <1>3 DEF WrittenParameter
  <2> QED BY <1>1, <1>2, <1>3, <2>1, TwoTokens
<1>4. CASE p.defaultInit # <<>>
  <2>1. PICK e \in Tree : p.defaultInit = <<VariableAssignment(p.name, "Auto", <<e>>)>>
    BY <1>4 DEF IsParameter, IsDefault
  <2>2. p.defaultInit[1].initial = <<e>>
    BY <2>1 DEF VariableAssignment
  <2>3. Initialised(p.defaultInit[1].initial) = <<Sign("OP_Equals")>> \o Written(e)
    BY <2>2 DEF Initialised
  <2>4. WrittenParameter(p) = <<VariableToken(p.name)>> \o (<<Sign("OP_Equals")>> \o Written(e))
    BY <1>4, <2>3 DEF WrittenParameter
  <2>5. <<Sign("OP_Equals")>> \o Written(e) \in Seq(Token)
    BY <1>2, WrittenType, OneType, ConcatType
  <2>6. WrittenParameter(p) \in Seq(Token)
    BY <1>1, <2>4, <2>5, OneType, ConcatType
  <2> QED BY <1>4, <2>1, <2>4, <2>6
<1> QED BY <1>3, <1>4

LEMMA Named ==
  ASSUME NEW name, NEW init, NEW v
  PROVE  WithName([name |-> name, defaultInit |-> init], v) = [name |-> v, defaultInit |-> init]
BY DEF WithName

LEMMA Defaulted ==
  ASSUME NEW name, NEW init, NEW e
  PROVE  WithDefault([name |-> name, defaultInit |-> init], e)
           = [name |-> name,
              defaultInit |-> Append(init, VariableAssignment(name, "Auto", <<e>>))]
<1> DEFINE p == [name |-> name, defaultInit |-> init]
           a == VariableAssignment(p.name, "Auto", <<e>>)
           b == Append(p.defaultInit, a)
<1>1. p.name = name /\ p.defaultInit = init
  OBVIOUS
<1>2. WithDefault(p, e) = [p EXCEPT !.defaultInit = b]
  BY Zenon DEF WithDefault
<1>3. b = Append(init, VariableAssignment(name, "Auto", <<e>>))
  BY <1>1, Zenon
<1> HIDE DEF a, b
<1>4. [p EXCEPT !.defaultInit = b] = [name |-> name, defaultInit |-> b]
  OBVIOUS
<1> QED BY <1>2, <1>3, <1>4, Zenon

LEMMA ParameterRead ==
  ASSUME ExpressionDescent, StatementDescent, NEW p, IsParameter(p),
         NEW s, NEW t, Stands(s, WrittenParameter(p), t), CurrentKind(t) \in {"Comma", "RParen"}
  PROVE  /\ CurrentKind(s) \in {"KW_ByRef", "VariableIdentifier"}
         /\ ParseParameterPart(NoParameter, s) = Parsed(p, t)
<1> DEFINE empty == <<>>
           named == [name |-> p.name, defaultInit |-> empty]
           token == VariableToken(p.name)
<1>1. s \in AnyStream /\ t \in AnyStream
  BY StandsType
<1>2. token \in Token /\ token.kind = "VariableIdentifier" /\ token.text = p.name
  BY VariableTokens DEF IsParameter
<1>3. ParseParameterPart(p, t) = Parsed(p, t)
  BY <1>1, ParameterPartUnfolded
<1>4. WithName(NoParameter, p.name) = named /\ named.name = p.name
  <2>1. WithName(NoParameter, p.name) = named
    BY Named, Zenon DEF NoParameter
  <2> QED BY <2>1
<1>5. p = [name |-> p.name, defaultInit |-> p.defaultInit] /\ p.name # ""
  BY DEF IsParameter
<1> HIDE DEF named, token
<1>6. CASE p.defaultInit = <<>>
  <2> DEFINE byRef == Sign("KW_ByRef")
             rest  == ConsumeCurrent(s)
  <2>1. byRef \in Token /\ byRef.kind = "KW_ByRef"
    BY Words
  <2>2. Stands(s, <<byRef>> \o <<token>>, t)
    BY <1>6, ParameterWritten DEF token
  <2> HIDE DEF byRef
  <2>3. CurrentKind(s) = "KW_ByRef" /\ Stands(rest, <<token>>, t)
    BY <1>2, <2>1, <2>2, OneType, StandsFirst
  <2>4. /\ rest \in AnyStream /\ CurrentKind(rest) = "VariableIdentifier"
        /\ CurrentToken(rest) = token /\ ConsumeCurrent(rest) = t
    BY <1>2, <2>3, StandsOne, StandsType
  <2> HIDE DEF rest
  <2>5. ParseParameterPart(NoParameter, s) = ParseParameterPart(NoParameter, rest)
    BY <1>1, <2>3, ParameterPartUnfolded DEF rest
  <2>6. ParseParameterPart(NoParameter, rest) =
          ParseParameterPart(WithName(NoParameter, p.name), t)
    BY <1>2, <2>4, ParameterPartUnfolded
  <2>7. p = named
    BY <1>5, <1>6 DEF named
  <2>8. ParseParameterPart(NoParameter, s) = Parsed(p, t)
    BY <1>3, <1>4, <2>5, <2>6, <2>7
  <2> QED BY <2>3, <2>8
<1>7. CASE p.defaultInit # <<>>
  <2> DEFINE equals == Sign("OP_Equals")
             rest   == ConsumeCurrent(s)
             value  == ConsumeCurrent(rest)
  <2>1. PICK e \in Tree :
          /\ p.defaultInit = <<VariableAssignment(p.name, "Auto", <<e>>)>>
          /\ WrittenParameter(p) = <<token>> \o (<<equals>> \o Written(e))
    BY <1>7, ParameterWritten DEF token
  <2>2. /\ equals \in Token /\ equals.kind = "OP_Equals" /\ Written(e) \in Seq(Token)
        /\ <<equals>> \o Written(e) \in Seq(Token)
    BY Words, WrittenType, OneType, ConcatType
  <2>3. Stands(s, <<token>> \o (<<equals>> \o Written(e)), t)
    BY <2>1
  <2> HIDE DEF equals
  <2>4. /\ CurrentToken(s) = token /\ CurrentKind(s) = "VariableIdentifier"
        /\ Stands(rest, <<equals>> \o Written(e), t)
    BY <1>2, <2>2, <2>3, StandsFirst
  <2>5. /\ rest \in AnyStream /\ CurrentKind(rest) = "OP_Equals" /\ Stands(value, Written(e), t)
    BY <2>2, <2>4, StandsFirst, StandsType
  <2>6. ParseExpression(value) = Parsed(e, t)
    <3>1. Ends(t)
      BY DEF Ends, BinaryOperator, CompoundAssignment, Comparison
    <3> QED BY <2>5, <3>1, ExpressionRead
  <2> HIDE DEF rest, value
  <2>7. ParseParameterPart(NoParameter, s) = ParseParameterPart(WithName(NoParameter, p.name), rest)
    BY <1>1, <1>2, <2>4, ParameterPartUnfolded DEF rest
  <2> DEFINE a == VariableAssignment(p.name, "Auto", <<e>>)
  <2>8. Append(empty, a) = <<a>> /\ p.defaultInit = <<a>>
    BY <2>1
  <2>9. ParseParameterPart(named, rest) = ParseParameterPart(WithDefault(named, e), t)
    <3>1. HasName(named)
      BY <1>4, <1>5 DEF HasName
    <3>2. ParseExpression(ConsumeCurrent(rest)) = Parsed(e, t)
      BY <2>6 DEF value
    <3> HIDE DEF a, empty
    <3> QED BY <2>5, <3>1, <3>2, DefaultUnfolded
  <2>10. WithDefault(named, e) = [name |-> p.name, defaultInit |-> Append(empty, a)]
    BY Defaulted, Zenon DEF named
  <2> HIDE DEF a, empty
  <2>11. WithDefault(named, e) = p
    BY <1>5, <2>8, <2>10
  <2>12. ParseParameterPart(NoParameter, s) = Parsed(p, t)
    BY <1>3, <1>4, <2>7, <2>9, <2>11
  <2> QED BY <2>4, <2>12
<1> QED BY <1>6, <1>7

ParameterParts(ps) ==
  [i \in DOMAIN ps |->
     WrittenParameter(ps[i]) \o (IF i = Len(ps) THEN <<>> ELSE <<Sign("Comma")>>)]

LEMMA ParameterPartsType ==
  ASSUME NEW S, \A p \in S : IsParameter(p), NEW ps \in Seq(S)
  PROVE  /\ ParameterParts(ps) \in Seq(Seq(Token)) /\ Len(ParameterParts(ps)) = Len(ps)
         /\ \A i \in 1 .. Len(ps) :
              ParameterParts(ps)[i] =
                WrittenParameter(ps[i]) \o (IF i = Len(ps) THEN <<>> ELSE <<Sign("Comma")>>)
         /\ WrittenParameters(ps) \in Seq(Token)
         /\ WrittenParameters(ps) = LastParts(ParameterParts(ps))[Len(ps)]
<1> DEFINE n        == Len(ps)
           Comma(i) == IF i = n THEN <<>> ELSE <<Sign("Comma")>>
           Part(i)  == WrittenParameter(ps[i]) \o Comma(i)
<1>1. n \in Nat /\ DOMAIN ps = 1 .. n /\ \A i \in 1 .. n : ps[i] \in S
  OBVIOUS
<1>2. ASSUME NEW i \in 1 .. n PROVE Part(i) \in Seq(Token)
  <2>1. <<>> \in Seq(Token) /\ <<Sign("Comma")>> \in Seq(Token)
    BY Words, OneType
  <2>2. Comma(i) \in Seq(Token)
    BY <2>1
  <2>3. WrittenParameter(ps[i]) \in Seq(Token)
    BY <1>1, ParameterWritten
  <2> HIDE DEF Comma
  <2> QED BY <2>2, <2>3, ConcatType
<1>3. ParameterParts(ps) = [i \in 1 .. n |-> Part(i)]
  BY <1>1 DEF ParameterParts
<1>4. WrittenParameters(ps) = Joined(ParameterParts(ps))
  BY DEF WrittenParameters, ParameterParts
<1>5. \A i \in 1 .. n : ParameterParts(ps)[i] = Part(i)
  <2> HIDE DEF Part, n
  <2> QED BY <1>3
<1>6. ParameterParts(ps) \in Seq(Seq(Token)) /\ Len(ParameterParts(ps)) = n
  <2> HIDE DEF Part, n
  <2>1. ParameterParts(ps) \in [1 .. n -> Seq(Token)]
    BY <1>2, <1>3
  <2> QED BY <1>1, <2>1
<1>7. /\ WrittenParameters(ps) \in Seq(Token)
      /\ WrittenParameters(ps) = LastParts(ParameterParts(ps))[n]
  BY <1>4, <1>6, JoinedType
<1> QED BY <1>5, <1>6, <1>7

\* A parameter, and the comma behind it if it is not the last.
LEMMA PartRead ==
  ASSUME ExpressionDescent, StatementDescent, NEW p, IsParameter(p), NEW w, NEW s, NEW t,
         Stands(s, WrittenParameter(p) \o w, t),
         (w = <<>> /\ CurrentKind(t) = "RParen") \/ w = <<Sign("Comma")>>,
         NEW parameters
  PROVE  ParseParameters(parameters, s) = ParseParameters(Append(parameters, p), t)
<1> DEFINE Next(u) == IF CurrentKind(u) = "Comma" THEN ConsumeCurrent(u) ELSE u
<1>1. WrittenParameter(p) \in Seq(Token)
  BY ParameterWritten
<1>2. PICK u : /\ Stands(s, WrittenParameter(p), u) /\ CurrentKind(u) \in {"Comma", "RParen"}
               /\ Next(u) = t
  <2>1. CASE w = <<>> /\ CurrentKind(t) = "RParen"
    <3>1. WrittenParameter(p) \o w = WrittenParameter(p)
      BY <1>1, <2>1
    <3> QED BY <2>1, <3>1
  <2>2. CASE w = <<Sign("Comma")>>
    <3> DEFINE comma == Sign("Comma")
    <3>1. comma \in Token /\ comma.kind = "Comma"
      BY Words
    <3>2. Stands(s, WrittenParameter(p) \o <<comma>>, t)
      BY <2>2
    <3> HIDE DEF comma
    <3>3. PICK u : /\ Stands(s, WrittenParameter(p), u)
                   /\ CurrentKind(u) = comma.kind /\ ConsumeCurrent(u) = t /\ Behind(u, t)
      BY <1>1, <3>1, <3>2, StandsLast
    <3>4. CurrentKind(u) = "Comma" /\ Next(u) = t
      BY <3>1, <3>3
    <3> QED BY <3>3, <3>4
  <2> QED BY <2>1, <2>2
<1>3. /\ CurrentKind(s) \in {"KW_ByRef", "VariableIdentifier"}
      /\ ParseParameterPart(NoParameter, s) = Parsed(p, u)
  BY <1>2, ParameterRead
<1>4. s \in AnyStream /\ CurrentKind(s) \notin {"RParen", "none"}
  BY <1>2, <1>3, StandsType
<1>5. ParseParameters(parameters, s) = ParseParameters(Append(parameters, p), Next(u))
  BY <1>3, <1>4, ParametersUnfolded
<1> HIDE DEF Next
<1> QED BY <1>2, <1>5

LEMMA ParametersRead ==
  ASSUME ExpressionDescent, StatementDescent, NEW S, \A p \in S : IsParameter(p),
         NEW ps \in Seq(S),
         NEW s, NEW t, Stands(s, WrittenParameters(ps), t), CurrentKind(t) = "RParen"
  PROVE  ParseParameters(<<>>, s) = Parsed(ps, t)
<1> DEFINE n        == Len(ps)
           last     == LastParts(ParameterParts(ps))
           Comma(i) == IF i = n THEN <<>> ELSE <<Sign("Comma")>>
           Reads(k) ==
             \A a, z : Stands(a, last[k], z) /\ CurrentKind(z) = "RParen" =>
               ParseParameters(SubSeq(ps, 1, n - k), a) = Parsed(ps, z)
           G == {k \in 0 .. n : Reads(k)}
<1>1. /\ ParameterParts(ps) \in Seq(Seq(Token)) /\ Len(ParameterParts(ps)) = n
      /\ WrittenParameters(ps) = last[n]
      /\ \A i \in 1 .. n : ParameterParts(ps)[i] = WrittenParameter(ps[i]) \o Comma(i)
  BY ParameterPartsType
<1>2. n \in Nat /\ SubSeq(ps, 1, n - 0) = ps /\ SubSeq(ps, 1, n - n) = <<>>
  BY AllOrNone
<1>3. /\ last[0] = <<>> /\ \A k \in 0 .. n : last[k] \in Seq(Token)
      /\ \A k \in 1 .. n : last[k] = ParameterParts(ps)[n - k + 1] \o last[k - 1]
  <2> HIDE DEF n
  <2> QED BY <1>1, LastPartsAre
<1> HIDE DEF last, n
<1>4. Reads(0)
  <2> SUFFICES ASSUME NEW a, NEW z, Stands(a, <<>>, z), CurrentKind(z) = "RParen"
               PROVE  ParseParameters(ps, a) = Parsed(ps, z)
    BY <1>2, <1>3
  <2>1. a = z /\ a \in AnyStream
    BY StandsNone, StandsType
  <2> QED BY <2>1, ParametersUnfolded
<1>5. ASSUME NEW k \in 1 .. n, Reads(k - 1) PROVE Reads(k)
  <2> SUFFICES ASSUME NEW a, NEW z, Stands(a, last[k], z), CurrentKind(z) = "RParen"
               PROVE  ParseParameters(SubSeq(ps, 1, n - k), a) = Parsed(ps, z)
    OBVIOUS
  <2> DEFINE p == ps[n - k + 1]
             c == Comma(n - k + 1)
             front == SubSeq(ps, 1, n - k)
  <2>1. /\ n - k + 1 \in 1 .. n /\ p \in S
        /\ Append(front, p) = SubSeq(ps, 1, n - (k - 1))
    BY <1>5, OneMore DEF n
  <2>2. /\ WrittenParameter(p) \in Seq(Token) /\ c \in Seq(Token) /\ last[k - 1] \in Seq(Token)
        /\ WrittenParameter(p) \o c \in Seq(Token)
    <3>1. k - 1 \in 0 .. n
      BY <1>2
    <3>2. <<>> \in Seq(Token) /\ <<Sign("Comma")>> \in Seq(Token)
      BY Words, OneType
    <3>3. WrittenParameter(p) \in Seq(Token) /\ c \in Seq(Token) /\ last[k - 1] \in Seq(Token)
      BY <1>3, <2>1, <3>1, <3>2, ParameterWritten
    <3> HIDE DEF c, p
    <3> QED BY <3>3, ConcatType
  <2>3. last[k] = (WrittenParameter(p) \o c) \o last[k - 1]
    BY <1>1, <1>3, <2>1
  <2>4. (k = 1 /\ c = <<>> /\ last[k - 1] = <<>>) \/ c = <<Sign("Comma")>>
    <3>1. CASE k = 1
      <4>1. n - k + 1 = n /\ k - 1 = 0
        BY <1>2, <3>1
      <4> QED BY <1>3, <3>1, <4>1
    <3>2. CASE k # 1
      <4>1. n - k + 1 # n
        BY <1>2, <3>2
      <4> QED BY <4>1
    <3> QED BY <3>1, <3>2
  <2> HIDE DEF p, c, front
  <2>5. PICK x : Stands(a, WrittenParameter(p) \o c, x) /\ Stands(x, last[k - 1], z)
    <3>1. Stands(a, (WrittenParameter(p) \o c) \o last[k - 1], z)
      BY <2>3
    <3> QED BY <2>2, <3>1, StandsConcat
  <2>6. (c = <<>> /\ CurrentKind(x) = "RParen") \/ c = <<Sign("Comma")>>
    <3>1. CASE k = 1 /\ c = <<>> /\ last[k - 1] = <<>>
      <4>1. Stands(x, <<>>, z)
        BY <2>5, <3>1
      <4> QED BY <3>1, <4>1, StandsNone
    <3> QED BY <2>4, <3>1
  <2>7. ParseParameters(front, a) = ParseParameters(Append(front, p), x)
    <3>1. IsParameter(p)
      BY <2>1
    <3> QED BY <2>5, <2>6, <3>1, PartRead
  <2>8. ParseParameters(SubSeq(ps, 1, n - (k - 1)), x) = Parsed(ps, z)
    BY <1>5, <2>5
  <2> QED BY <2>1, <2>7, <2>8 DEF front
<1>6. 0 \in G /\ \A k \in 1 .. n : k - 1 \in G => k \in G
  <2> HIDE DEF Reads
  <2> QED BY <1>2, <1>4, <1>5
<1>7. n \in G
  <2> HIDE DEF G
  <2> QED BY <1>2, <1>6, Climb
<1>8. Reads(n)
  BY <1>7
<1> QED BY <1>1, <1>2, <1>8

-----------------------------------------------------------------------------
(* Functions.                                                              *)

FunctionParameters(f) == {f.parameters[i] : i \in 1 .. Len(f.parameters)}

LEMMA FunctionShape ==
  ASSUME NEW f \in FunctionTree
  PROVE  /\ f = [name |-> f.name, parameters |-> f.parameters, body |-> f.body]
         /\ f.name \in STRING /\ f.body \in Seq(StatementTree)
         /\ \A p \in FunctionParameters(f) : IsParameter(p)
         /\ f.parameters \in Seq(FunctionParameters(f))
<1> DEFINE ps == f.parameters
           n  == Len(ps)
<1>1. /\ f = [name |-> f.name, parameters |-> ps, body |-> f.body]
      /\ f.name \in STRING /\ f.body \in Seq(StatementTree)
      /\ ps = [i \in 1 .. n |-> [name |-> ps[i].name, defaultInit |-> ps[i].defaultInit]]
      /\ n \in Nat
      /\ \A i \in 1 .. n :
           ps[i].name \in STRING \ {""} /\ IsDefault(ps[i].defaultInit, ps[i].name)
  BY FunctionTreeAssumption
<1> HIDE DEF ps, n
<1>2. ASSUME NEW i \in 1 .. n PROVE IsParameter(ps[i])
  <2>1. ps[i] = [name |-> ps[i].name, defaultInit |-> ps[i].defaultInit]
    <3> DEFINE r == [name |-> ps[i].name, defaultInit |-> ps[i].defaultInit]
    <3>1. [j \in 1 .. n |-> [name |-> ps[j].name, defaultInit |-> ps[j].defaultInit]][i] = r
      OBVIOUS
    <3> HIDE DEF r
    <3>2. ps[i] = r
      BY <1>1, <3>1, Zenon
    <3> QED BY <3>2 DEF r
  <2> QED BY <1>1, <2>1 DEF IsParameter
<1>3. \A p \in FunctionParameters(f) : IsParameter(p)
  BY <1>2 DEF FunctionParameters, ps, n
<1>4. ps \in Seq(FunctionParameters(f))
  <2>1. \A i \in 1 .. n : ps[i] \in FunctionParameters(f)
    BY DEF FunctionParameters, ps, n
  <2>2. DOMAIN ps = 1 .. n /\ ps = [i \in 1 .. n |-> ps[i]]
    BY <1>1
  <2>3. ps \in [1 .. n -> FunctionParameters(f)]
    BY <2>1, <2>2
  <2>4. n \in Nat
    BY <1>1
  <2> QED BY <2>3, <2>4
<1>5. /\ f = [name |-> f.name, parameters |-> f.parameters, body |-> f.body]
      /\ f.name \in STRING /\ f.body \in Seq(StatementTree)
  BY <1>1 DEF ps
<1>6. f.parameters \in Seq(FunctionParameters(f))
  BY <1>4 DEF ps
<1> QED BY <1>3, <1>5, <1>6

FunctionOpen(f) == <<Tok("FunctionIdentifier", f.name), Sign("LParen")>>
FunctionClose   == <<Sign("RParen"), Sign("NewLine")>>

LEMMA FunctionParts ==
  ASSUME NEW f \in FunctionTree
  PROVE  LET token == Tok("FunctionIdentifier", f.name)
         IN  /\ token \in Token /\ token.kind = "FunctionIdentifier" /\ token.text = f.name
             /\ FunctionOpen(f) = <<token>> \o <<Sign("LParen")>>
             /\ FunctionClose = <<Sign("RParen")>> \o <<Sign("NewLine")>>
             /\ FunctionOpen(f) \in Seq(Token) /\ FunctionClose \in Seq(Token)
             /\ WrittenParameters(f.parameters) \in Seq(Token) /\ Lines(f.body) \in Seq(Token)
<1>1. f.name \in STRING /\ f.body \in Seq(StatementTree)
  BY FunctionShape
<1> DEFINE token == Tok("FunctionIdentifier", f.name)
<1>2. token \in Token /\ token.kind = "FunctionIdentifier" /\ token.text = f.name
  <2>1. "FunctionIdentifier" \in TokenKind
    BY DEF TokenKind
  <2> QED BY <1>1, <2>1, TokType
<1>3. Sign("LParen") \in Token /\ Sign("RParen") \in Token /\ Sign("NewLine") \in Token
  BY Words
<1>4. WrittenParameters(f.parameters) \in Seq(Token)
  BY FunctionShape, ParameterPartsType
<1>5. Lines(f.body) \in Seq(Token)
  BY <1>1, LinePartsType
<1> HIDE DEF token
<1>6. FunctionOpen(f) = <<token>> \o <<Sign("LParen")>> /\ FunctionOpen(f) \in Seq(Token)
  BY <1>2, <1>3, TwoTokens DEF FunctionOpen, token
<1>7. FunctionClose = <<Sign("RParen")>> \o <<Sign("NewLine")>> /\ FunctionClose \in Seq(Token)
  BY <1>3, TwoTokens DEF FunctionClose
<1> QED BY <1>2, <1>4, <1>5, <1>6, <1>7 DEF token

LEMMA FunctionStands ==
  ASSUME NEW f \in FunctionTree, NEW s, NEW u, Stands(s, WrittenFunction(f), u)
  PROVE  LET t == ConsumeCurrent(s)
         IN  /\ CurrentKind(s) = "FunctionIdentifier" /\ CurrentToken(s).text = f.name
             /\ CurrentKind(t) = "LParen"
             /\ \E m, v :
                  /\ Stands(ConsumeCurrent(t), WrittenParameters(f.parameters), m)
                  /\ CurrentKind(m) = "RParen"
                  /\ CurrentKind(ConsumeCurrent(m)) = "NewLine"
                  /\ Stands(ConsumeCurrent(ConsumeCurrent(m)), Lines(f.body), v)
                  /\ CurrentKind(v) = "KW_EndFunc" /\ ConsumeCurrent(v) = u
<1> DEFINE token   == Tok("FunctionIdentifier", f.name)
           lparen  == Sign("LParen")
           rparen  == Sign("RParen")
           newLine == Sign("NewLine")
           endFunc == Sign("KW_EndFunc")
           open    == FunctionOpen(f)
           close   == FunctionClose
           ps      == WrittenParameters(f.parameters)
           lines   == Lines(f.body)
<1>1. /\ token \in Token /\ token.kind = "FunctionIdentifier" /\ token.text = f.name
      /\ open = <<token>> \o <<lparen>> /\ close = <<rparen>> \o <<newLine>>
      /\ open \in Seq(Token) /\ close \in Seq(Token) /\ ps \in Seq(Token) /\ lines \in Seq(Token)
  BY FunctionParts
<1>2. /\ lparen \in Token /\ lparen.kind = "LParen" /\ rparen \in Token /\ rparen.kind = "RParen"
      /\ newLine \in Token /\ newLine.kind = "NewLine"
      /\ endFunc \in Token /\ endFunc.kind = "KW_EndFunc"
  BY Words
<1>3. Stands(s, (((open \o ps) \o close) \o lines) \o <<endFunc>>, u)
  BY DEF WrittenFunction, FunctionOpen, FunctionClose
<1> HIDE DEF token, lparen, rparen, newLine, endFunc, open, close, ps, lines
<1> DEFINE one   == open \o ps
           two   == one \o close
           three == two \o lines
<1>4. one \in Seq(Token)
  BY <1>1, ConcatType
<1> HIDE DEF one
<1>5. two \in Seq(Token)
  BY <1>1, <1>4, ConcatType
<1> HIDE DEF two
<1>6. three \in Seq(Token)
  BY <1>1, <1>5, ConcatType
<1>7. PICK v, w, m, a :
        /\ CurrentKind(v) = endFunc.kind /\ ConsumeCurrent(v) = u
        /\ Stands(w, lines, v) /\ Stands(m, close, w)
        /\ Stands(s, open, a) /\ Stands(a, ps, m)
  <2>1. Stands(s, three \o <<endFunc>>, u)
    BY <1>3 DEF one, two
  <2> HIDE DEF three
  <2>2. PICK v : /\ Stands(s, three, v)
                 /\ CurrentKind(v) = endFunc.kind /\ ConsumeCurrent(v) = u /\ Behind(v, u)
    BY <1>2, <1>6, <2>1, StandsLast
  <2>3. Stands(s, two \o lines, v)
    BY <2>2 DEF three
  <2>4. PICK w : Stands(s, two, w) /\ Stands(w, lines, v)
    BY <1>1, <1>5, <2>3, StandsConcat
  <2>5. Stands(s, one \o close, w)
    BY <2>4 DEF two
  <2>6. PICK m : Stands(s, one, m) /\ Stands(m, close, w)
    BY <1>1, <1>4, <2>5, StandsConcat
  <2>7. Stands(s, open \o ps, m)
    BY <2>6 DEF one
  <2>8. PICK a : Stands(s, open, a) /\ Stands(a, ps, m)
    BY <1>1, <2>7, StandsConcat
  <2> QED BY <2>2, <2>4, <2>6, <2>8
<1>8. /\ CurrentToken(s) = token /\ CurrentKind(s) = token.kind
      /\ Stands(ConsumeCurrent(s), <<lparen>>, a)
  <2>1. Stands(s, <<token>> \o <<lparen>>, a) /\ <<lparen>> \in Seq(Token)
    BY <1>1, <1>2, <1>7, OneType
  <2> QED BY <1>1, <2>1, StandsFirst
<1>9. CurrentKind(ConsumeCurrent(s)) = lparen.kind /\ ConsumeCurrent(ConsumeCurrent(s)) = a
  BY <1>2, <1>8, StandsOne
<1>10. CurrentKind(m) = rparen.kind /\ Stands(ConsumeCurrent(m), <<newLine>>, w)
  <2>1. Stands(m, <<rparen>> \o <<newLine>>, w) /\ <<newLine>> \in Seq(Token)
    BY <1>1, <1>2, <1>7, OneType
  <2> QED BY <1>2, <2>1, StandsFirst
<1>11. CurrentKind(ConsumeCurrent(m)) = newLine.kind /\ ConsumeCurrent(ConsumeCurrent(m)) = w
  BY <1>2, <1>10, StandsOne
<1>12. /\ Stands(ConsumeCurrent(ConsumeCurrent(s)), ps, m) /\ CurrentKind(m) = "RParen"
       /\ CurrentKind(ConsumeCurrent(m)) = "NewLine"
       /\ Stands(ConsumeCurrent(ConsumeCurrent(m)), lines, v)
       /\ CurrentKind(v) = "KW_EndFunc" /\ ConsumeCurrent(v) = u
  BY <1>2, <1>7, <1>9, <1>10, <1>11
<1> QED BY <1>1, <1>2, <1>8, <1>9, <1>12 DEF ps, lines

LEMMA FunctionRead ==
  ASSUME ExpressionDescent, StatementDescent, NEW f \in FunctionTree,
         NEW s, NEW u, Stands(s, WrittenFunction(f), u)
  PROVE  ParseFunctionDefinition(s) = Parsed(f, u)
<1> DEFINE t == ConsumeCurrent(s)
           a == ConsumeCurrent(t)
           r == ParseParameters(<<>>, a)
           c == ConsumeCurrent(r.stream)
           w == ConsumeCurrent(c)
           b == ParseBody({"KW_EndFunc"}, <<>>, w)
<1>1. /\ f = [name |-> f.name, parameters |-> f.parameters, body |-> f.body]
      /\ f.body \in Seq(StatementTree)
  BY FunctionShape
<1>2. /\ CurrentKind(s) = "FunctionIdentifier" /\ CurrentToken(s).text = f.name
      /\ CurrentKind(t) = "LParen"
  BY FunctionStands
<1>3. PICK m, v :
        /\ Stands(a, WrittenParameters(f.parameters), m)
        /\ CurrentKind(m) = "RParen"
        /\ CurrentKind(ConsumeCurrent(m)) = "NewLine"
        /\ Stands(ConsumeCurrent(ConsumeCurrent(m)), Lines(f.body), v)
        /\ CurrentKind(v) = "KW_EndFunc" /\ ConsumeCurrent(v) = u
  BY FunctionStands
<1>4. r = Parsed(f.parameters, m)
  BY <1>3, FunctionShape, ParametersRead
<1>5. r.tree # <<>> /\ r.tree[1] = f.parameters /\ r.stream = m
  BY <1>4, ParsedFields
<1>6. b = Parsed(f.body, v)
  <2>1. ConsumeCurrent(ConsumeCurrent(m)) \in AnyStream
    BY <1>3, StandsType
  <2>2. ReadsFrom(ConsumeCurrent(ConsumeCurrent(m)))
    BY <2>1, AllStatementsRead
  <2>3. {"KW_EndFunc"} \in SUBSET BlockEnd
    BY DEF BlockEnd
  <2>4. ParseBody({"KW_EndFunc"}, <<>>, ConsumeCurrent(ConsumeCurrent(m))) = Parsed(f.body, v)
    BY <1>1, <1>3, <2>2, <2>3, LinesRead
  <2> QED BY <1>5, <2>4
<1>7. b.tree # <<>> /\ b.tree[1] = f.body /\ b.stream = v
  BY <1>6, ParsedFields
<1>8. ParseFunctionDefinition(s) =
        IF CurrentKind(s) # "FunctionIdentifier" THEN Failed(s)
        ELSE IF CurrentKind(t) # "LParen" THEN Failed(t)
        ELSE IF r.tree = <<>> THEN r
        ELSE IF CurrentKind(r.stream) # "RParen" THEN Failed(r.stream)
        ELSE IF CurrentKind(c) # "NewLine" THEN Failed(c)
        ELSE ParseFunctionBody(CurrentToken(s).text, r.tree[1], w)
  BY DEF ParseFunctionDefinition, Then, MustParse
<1>9. ParseFunctionBody(CurrentToken(s).text, r.tree[1], w) =
        IF b.tree = <<>> THEN b
        ELSE IF CurrentKind(b.stream) = "KW_EndFunc"
               THEN Parsed([name |-> CurrentToken(s).text, parameters |-> r.tree[1],
                            body |-> b.tree[1]], ConsumeCurrent(b.stream))
               ELSE Failed(b.stream)
  <2> HIDE DEF t, a, r, c, w
  <2> QED BY DEF ParseFunctionBody, Then, MustParse
<1>10. CurrentKind(c) = "NewLine"
  BY <1>3, <1>5
<1> HIDE DEF t, a, r, c, w, b
<1>11. ParseFunctionDefinition(s) = ParseFunctionBody(CurrentToken(s).text, r.tree[1], w)
  BY <1>2, <1>3, <1>5, <1>8, <1>10
<1>12. ParseFunctionBody(CurrentToken(s).text, r.tree[1], w) =
         Parsed([name |-> f.name, parameters |-> f.parameters, body |-> f.body], u)
  BY <1>2, <1>3, <1>5, <1>7, <1>9
<1> QED BY <1>1, <1>11, <1>12

-----------------------------------------------------------------------------
(* One call of ParseStatement or ParseFunctionDefinition.                  *)

LEMMA NextLinesType ==
  ASSUME NEW behind \in NextLines
  PROVE  behind \in Seq(Token) /\ (behind # <<>> => behind[1].kind \in SkipKind)
<1>1. CASE behind = <<>>
  BY <1>1
<1>2. CASE behind # <<>>
  <2>1. PICK tokens \in NextLine : behind = LineBreak \o tokens
    BY <1>2 DEF NextLines
  <2>2. /\ LineBreak \in Seq(Token) /\ LineBreak # <<>>
        /\ \A i \in DOMAIN LineBreak : LineBreak[i].kind \in SkipKind
        /\ tokens \in Seq(Token)
    BY LineBreakAssumption, NextLineAssumption, SourceAssumption DEF SkipKind
  <2>3. 1 \in DOMAIN LineBreak /\ (LineBreak \o tokens)[1] = LineBreak[1]
    BY <2>2
  <2> QED BY <2>1, <2>2, <2>3, ConcatType
<1> QED BY <1>1, <1>2

LEMMA FileStands ==
  ASSUME NEW w \in Seq(Token), NEW behind \in NextLines
  PROVE  LET s == Stream(w \o behind)
         IN  \E u : Stands(s, w, u) /\ EndsLine(u) /\ u.index = Len(w) /\ u.errors = 0
<1> DEFINE s == Stream(w \o behind)
           u == Skip(s, Len(w))
           n == Len(w)
<1>1. behind \in Seq(Token) /\ (behind # <<>> => behind[1].kind \in SkipKind)
  BY NextLinesType
<1>2. /\ w \o behind \in Seq(Token) /\ n \in Nat
      /\ Len(w \o behind) = n + Len(behind) /\ Len(behind) \in Nat
      /\ \A i \in 1 .. n : (w \o behind)[i] = w[i]
      /\ behind # <<>> => Len(behind) > 0 /\ (w \o behind)[n + 1] = behind[1]
  BY <1>1
<1>3. s \in AnyStream /\ s.tokens = w \o behind /\ s.index = 0 /\ s.errors = 0
  BY <1>2, StreamType
<1> HIDE DEF s
<1>4. At(s, w)
  BY <1>2, <1>3 DEF At
<1>5. Stands(s, w, u)
  BY <1>4 DEF Stands
<1> HIDE DEF u
<1>6. u.tokens = w \o behind /\ u.index = n /\ u.errors = 0
  <2>1. u.tokens = s.tokens /\ u.index = s.index + Len(w) /\ u.errors = s.errors
    BY <1>5, StandsType
  <2> QED BY <1>2, <1>3, <2>1
<1>7. EndsLine(u)
  <2>1. CASE behind = <<>>
    <3>1. ~(u.index < Len(u.tokens))
      BY <1>2, <1>6, <2>1
    <3> QED BY <3>1 DEF EndsLine, CurrentKind, HasMoreTokens
  <2>2. CASE behind # <<>>
    <3>1. u.index < Len(u.tokens) /\ u.tokens[u.index + 1].kind \in SkipKind
      BY <1>1, <1>2, <1>6, <2>2
    <3> QED BY <3>1 DEF EndsLine, CurrentKind, HasMoreTokens, CurrentToken
  <2> QED BY <2>1, <2>2
<1> QED BY <1>5, <1>6, <1>7 DEF s

LEMMA FunctionWritten ==
  ASSUME NEW f \in FunctionTree
  PROVE  WrittenFunction(f) \in Seq(Token)
<1> DEFINE open  == FunctionOpen(f)
           close == FunctionClose
           ps    == WrittenParameters(f.parameters)
           lines == Lines(f.body)
           end   == Sign("KW_EndFunc")
<1>1. WrittenFunction(f) = (((open \o ps) \o close) \o lines) \o <<end>>
  BY DEF WrittenFunction, FunctionOpen, FunctionClose
<1>2. /\ open \in Seq(Token) /\ close \in Seq(Token) /\ ps \in Seq(Token) /\ lines \in Seq(Token)
      /\ <<end>> \in Seq(Token)
  BY FunctionParts, Words, OneType
<1> HIDE DEF open, close, ps, lines, end
<1>3. open \o ps \in Seq(Token)
  BY <1>2, ConcatType
<1>4. (open \o ps) \o close \in Seq(Token)
  BY <1>2, <1>3, ConcatType
<1>5. ((open \o ps) \o close) \o lines \in Seq(Token)
  BY <1>2, <1>4, ConcatType
<1>6. (((open \o ps) \o close) \o lines) \o <<end>> \in Seq(Token)
  BY <1>2, <1>5, ConcatType
<1> QED BY <1>1, <1>6

\* What is written, until it is read back.
StatementReadInv ==
  /\ origin # <<>> /\ ~parsed =>
       /\ \E behind \in NextLines : stream = Stream(WrittenOrigin \o behind)
       /\ \/ called = "ParseStatement" /\ \E t \in StatementTree : origin = <<t>>
          \/ called = "ParseFunctionDefinition" /\ \E f \in FunctionTree : origin = <<f>>
  /\ StatementsReadBack

LEMMA StatementReadInit == StatementInit => StatementReadInv
<1> SUFFICES ASSUME StatementInit PROVE StatementReadInv
  OBVIOUS
<1>1. ~parsed
  BY DEF StatementInit
<1>2. StatementsReadBack
  BY <1>1 DEF StatementsReadBack, StatementParsed
<1>3. \/ origin = <<>>
      \/ \E behind \in NextLines :
           /\ \/ called = "ParseStatement" /\ \E t \in StatementTree : origin = <<t>>
              \/ called = "ParseFunctionDefinition" /\ \E f \in FunctionTree : origin = <<f>>
           /\ stream = Stream(WrittenOrigin \o behind)
  BY DEF StatementInit
<1> QED BY <1>2, <1>3 DEF StatementReadInv

LEMMA StatementReadStep ==
  ASSUME ExpressionDescent, StatementDescent, StatementReadInv, [StatementNext]_vars
  PROVE  StatementReadInv'
<1>1. CASE UNCHANGED vars
  BY <1>1 DEF StatementReadInv, StatementsReadBack, StatementParsed, WrittenOrigin, IsFunction, vars
<1>2. CASE StatementNext
  <2> DEFINE r == IF IsFunction THEN ParseFunctionDefinition(stream) ELSE ParseStatement(stream)
             w == WrittenOrigin
  <2>1. /\ ~parsed /\ parsed' = TRUE /\ origin' = origin /\ called' = called
        /\ trees' = r.tree /\ stream' = r.stream
    BY <1>2 DEF StatementNext, ParseOneStatement, ParseOneFunction, Returns, IsFunction
  <2>2. WrittenOrigin' = w
    BY <2>1 DEF WrittenOrigin, IsFunction
  <2> HIDE DEF r, w
  <2>3. CASE origin = <<>>
    BY <2>1, <2>3 DEF StatementReadInv, StatementsReadBack, StatementParsed
  <2>4. CASE origin # <<>>
    <3>1. PICK behind \in NextLines : stream = Stream(w \o behind)
      BY <2>1, <2>4 DEF StatementReadInv, w
    <3>2. \/ called = "ParseStatement" /\ \E t \in StatementTree : origin = <<t>>
          \/ called = "ParseFunctionDefinition" /\ \E f \in FunctionTree : origin = <<f>>
      BY <2>1, <2>4 DEF StatementReadInv
    <3>3. r.tree = origin /\ r.stream.index = Len(w) /\ r.stream.errors = 0
      <4>1. CASE called = "ParseStatement" /\ \E t \in StatementTree : origin = <<t>>
        <5>1. PICK t \in StatementTree : origin = <<t>>
          BY <4>1
        <5>2. w = WrittenStatement(t) /\ w \in Seq(Token)
          BY <4>1, <5>1, StatementType DEF w, WrittenOrigin, IsFunction
        <5>3. PICK u : /\ Stands(stream, w, u) /\ EndsLine(u)
                       /\ u.index = Len(w) /\ u.errors = 0
          BY <3>1, <5>2, FileStands
        <5>4. r = Parsed(t, u)
          <6>1. stream \in AnyStream
            BY <5>3, StandsType
          <6>2. ReadsAt(stream)
            BY <6>1, AllStatementsRead
          <6>3. ParseStatement(stream) = Parsed(t, u)
            BY <5>2, <5>3, <6>2 DEF ReadsAt
          <6> QED BY <4>1, <6>3 DEF r, IsFunction
        <5> QED BY <5>1, <5>3, <5>4, ParsedFields
      <4>2. CASE called = "ParseFunctionDefinition" /\ \E f \in FunctionTree : origin = <<f>>
        <5>1. PICK f \in FunctionTree : origin = <<f>>
          BY <4>2
        <5>2. w = WrittenFunction(f) /\ w \in Seq(Token)
          BY <4>2, <5>1, FunctionWritten DEF w, WrittenOrigin, IsFunction
        <5>3. PICK u : /\ Stands(stream, w, u) /\ EndsLine(u)
                       /\ u.index = Len(w) /\ u.errors = 0
          BY <3>1, <5>2, FileStands
        <5>4. r = Parsed(f, u)
          BY <4>2, <5>2, <5>3, FunctionRead DEF r, IsFunction
        <5> QED BY <5>1, <5>3, <5>4, ParsedFields
      <4> QED BY <3>2, <4>1, <4>2
    <3> QED BY <2>1, <2>2, <3>3 DEF StatementReadInv, StatementsReadBack, StatementParsed
  <2> QED BY <2>3, <2>4
<1> QED BY <1>1, <1>2

\* Statements and functions, with all their blocks, are read back as they were
\* written, and nothing on the lines behind them is touched.
THEOREM StatementsAreReadBack ==
  ASSUME ExpressionDescent, StatementDescent
  PROVE  StatementSpec => []StatementsReadBack
<1>1. StatementReadInv => StatementsReadBack
  BY DEF StatementReadInv
<1> QED BY <1>1, StatementReadInit, StatementReadStep, PTL DEF StatementSpec

LEMMA StatementTypeInit == StatementInit => IInv
<1> SUFFICES ASSUME StatementInit PROVE IInv
  OBVIOUS
<1>1. stream \in AnyStream
  <2>1. CASE \E tokens \in NextLine : stream = Stream(tokens)
    BY <2>1, StreamType, NextLineAssumption, SourceAssumption
  <2>2. CASE origin # <<>> \/ (origin = <<>> /\ ~ \E tokens \in NextLine : stream = Stream(tokens))
    <3>1. PICK behind \in NextLines :
            /\ \/ called = "ParseStatement" /\ \E t \in StatementTree : origin = <<t>>
               \/ called = "ParseFunctionDefinition" /\ \E f \in FunctionTree : origin = <<f>>
            /\ stream = Stream(WrittenOrigin \o behind)
      BY <2>2 DEF StatementInit
    <3>2. WrittenOrigin \in Seq(Token)
      BY <3>1, StatementType, FunctionWritten DEF WrittenOrigin, IsFunction
    <3>3. WrittenOrigin \o behind \in Seq(Token)
      BY <3>2, NextLinesType, ConcatType
    <3> QED BY <3>1, <3>3, StreamType
  <2> QED BY <2>1, <2>2
<1>2. /\ trees = <<>> /\ Len(trees) <= 1
      /\ called \in {"ParseStatement", "ParseFunctionDefinition"}
  BY DEF StatementInit
<1> QED BY <1>1, <1>2 DEF IInv

LEMMA StatementTypeStep ==
  ASSUME ExpressionDescent, StatementDescent, IInv, [StatementNext]_vars
  PROVE  IInv'
<1>1. CASE UNCHANGED vars
  BY <1>1 DEF vars, IInv
<1>2. CASE StatementNext
  <2> DEFINE r == IF IsFunction THEN ParseFunctionDefinition(stream) ELSE ParseStatement(stream)
  <2>1. stream \in AnyStream
    BY DEF IInv
  <2>2. MovesForward(stream, r)
    BY <2>1, StatementsMoveForward
  <2>3. trees' = r.tree /\ stream' = r.stream /\ parsed' = TRUE /\ called' = called
    BY <1>2 DEF StatementNext, ParseOneStatement, ParseOneFunction, Returns, IsFunction
  <2> HIDE DEF r
  <2>4. r.stream \in AnyStream /\ stream.index \in Nat /\ r.stream.index \in Nat
    <3>1. r.stream \in AnyStream
      BY <2>1, <2>2, AheadFields DEF MovesForward
    <3> QED BY <2>1, <3>1, StreamFields
  <2>5. r.tree # <<>> => r.tree = <<r.tree[1]>> /\ r.stream.index > stream.index
    BY <2>2 DEF MovesForward
  <2>6. Len(r.tree) <= 1
    <3>1. CASE r.tree = <<>>
      BY <3>1
    <3>2. ASSUME NEW tree, r.tree = <<tree>> PROVE Len(r.tree) <= 1
      BY <3>2
    <3> QED BY <2>5, <3>1, <3>2, Zenon
  <2> QED BY <2>3, <2>4, <2>5, <2>6 DEF IInv
<1> QED BY <1>1, <1>2

\* Whatever the tokens are, a statement or a function stays in them, and uses one
\* when it returns something.
THEOREM StatementsTypeCorrect ==
  ASSUME ExpressionDescent, StatementDescent
  PROVE  StatementSpec => []TypeOK
<1>1. IInv => TypeOK
  BY StreamFields DEF IInv, TypeOK
<1> QED BY <1>1, StatementTypeInit, StatementTypeStep, PTL DEF StatementSpec
-----------------------------------------------------------------------------
(* One call of any of them.                                                *)

\* What is called never changes, so a call is of one kind or the other.
THEOREM CallsAreOfOneKind == GrammarSpec => Spec \/ StatementSpec
<1> DEFINE Expression == called = "ParseExpression"
<1>1. Init => Expression
  BY DEF Init
<1>2. StatementInit => ~Expression
  BY DEF StatementInit
<1>3. Expression /\ [GrammarNext]_vars => Expression' /\ [Parse]_vars
  BY DEF GrammarNext, StatementNext, ParseOneStatement, ParseOneFunction, IsFunction,
         Parse, Returns, vars
<1>4. ~Expression /\ [GrammarNext]_vars => ~Expression' /\ [StatementNext]_vars
  BY DEF GrammarNext, StatementNext, ParseOneStatement, ParseOneFunction, IsFunction,
         Parse, Returns, vars
<1> HIDE DEF Expression
<1> QED BY <1>1, <1>2, <1>3, <1>4, PTL DEF GrammarSpec, GrammarInit, Spec, StatementSpec

LEMMA ExpressionCalls == Spec => [](called = "ParseExpression")
<1>1. Init => called = "ParseExpression"
  BY DEF Init
<1>2. called = "ParseExpression" /\ [Parse]_vars => (called = "ParseExpression")'
  BY DEF Parse, Returns, vars
<1> QED BY <1>1, <1>2, PTL DEF Spec

LEMMA StatementCalls == StatementSpec => [](called # "ParseExpression")
<1>1. StatementInit => called # "ParseExpression"
  BY DEF StatementInit
<1>2. called # "ParseExpression" /\ [StatementNext]_vars => (called # "ParseExpression")'
  BY DEF StatementNext, ParseOneStatement, ParseOneFunction, Returns, vars
<1> QED BY <1>1, <1>2, PTL DEF StatementSpec

\* Whichever of the three is called, all that the runs check of it holds: what one
\* property says of expressions and another of statements is said of every call.
THEOREM GrammarIsRight ==
  ASSUME LeavesDescent, ExpressionDescent, StatementDescent
  PROVE  GrammarSpec => [](/\ TypeOK /\ ReadsBackWhatIsWritten /\ ChainsBindByLevel
                           /\ OperandsKept /\ StatementsReadBack)
<1>1. called = "ParseExpression" => StatementsReadBack
  BY DEF StatementsReadBack, StatementParsed
<1>2. called # "ParseExpression" =>
        ReadsBackWhatIsWritten /\ ChainsBindByLevel /\ OperandsKept
  BY DEF ReadsBackWhatIsWritten, ChainsBindByLevel, OperandsKept, ExpressionParsed
<1>3. Spec => []TypeOK /\ []ReadsBackWhatIsWritten /\ []ChainsBindByLevel /\ []OperandsKept
  BY TypeCorrect, WrittenTreesAreReadBack, ChainsAreBoundByLevel, LiteralsAreKept
<1>4. StatementSpec => []TypeOK /\ []StatementsReadBack
  BY StatementsTypeCorrect, StatementsAreReadBack
<1> QED BY <1>1, <1>2, <1>3, <1>4, CallsAreOfOneKind, ExpressionCalls, StatementCalls, PTL
=============================================================================
