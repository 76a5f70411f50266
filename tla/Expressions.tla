---------------------------- MODULE Expressions ----------------------------
(***************************************************************************)
(* The parser's expressions (Parser.cpp), a recursive descent with         *)
(* precedence climbing.                                                    *)
(*                                                                         *)
(* The functions of the descent call each other.  Those that close the     *)
(* circle are constants: what they do is defined below, at a stream, and   *)
(* ExpressionDescent says that it is what they do.                         *)
(***************************************************************************)
EXTENDS TokenStream

CONSTANTS
  TooLarge,   \* texts of integer literals that do not fit in 64 bits
  ParseExpression(_),
  ParseExpressionRhs(_, _, _),
  ParseFunctionCallArguments(_, _)

-----------------------------------------------------------------------------
(* Operators.                                                              *)

UnaryOperator == {"OP_Plus", "OP_Minus", "KW_Not"}
IsUnaryOperator(kind) == kind \in UnaryOperator

CompoundAssignment ==
  {"OP_PlusEquals", "OP_MinusEquals", "OP_MultiplyEquals", "OP_DivideEquals",
   "OP_ConcatenateEquals"}

Comparison ==
  {"OP_LessThan", "OP_LessThanEqual", "OP_GreaterThan", "OP_GreaterThanEqual",
   "OP_Equals", "OP_NotEqual", "OP_EqualsEquals"}

BinaryOperator ==
  CompoundAssignment \cup Comparison \cup
    {"KW_And", "KW_Or", "OP_Plus", "OP_Minus", "OP_Multiply", "OP_Divide",
     "OP_Raise", "OP_Concatenate"}
IsBinaryOperator(kind) == kind \in BinaryOperator

\* Slip: concatenation binds as tightly as addition.
PrecedenceConcatenateAsPlus(kind) ==
  CASE kind \in {"OP_Multiply", "OP_Divide"} -> 50
    [] kind \in {"OP_Plus", "OP_Minus", "OP_Concatenate"} -> 40
    [] kind \in Comparison -> 20
    [] OTHER -> 0

\* Every other kind has none: 0, and so have compound assignments and the ternary.
Precedence(kind) ==
  CASE kind = "LParen" -> 80
    [] kind = "KW_Not" -> 70
    [] kind = "OP_Raise" -> 60
    [] kind \in {"OP_Multiply", "OP_Divide"} -> 50
    [] kind \in {"OP_Plus", "OP_Minus"} -> 40
    [] kind = "OP_Concatenate" -> 30
    [] kind \in Comparison -> 20
    [] kind \in {"KW_Or", "KW_And"} -> 10
    [] OTHER -> 0

-----------------------------------------------------------------------------
(* Trees: the shapes the interpreter runs.                                 *)

LiteralKind ==
  {"IntegerLiteral", "StringLiteral", "FloatLiteral", "KW_True", "KW_False",
   "KW_Default", "KW_Null"}

Literal(token)  == [kind |-> "Literal", value |-> token]
Variable(token) == [kind |-> "VariableExpression", name |-> token.text]
Macro(token)    == [kind |-> "MacroExpression", macro |-> token.text]
Unary(o, e)     == [kind |-> "UnaryExpression", operator |-> o, expression |-> e]
Binary(l, o, r) == [kind |-> "BinaryExpression", operator |-> o, lhs |-> l, rhs |-> r]
Subscript(e)    == [kind |-> "ArraySubscriptExpression", index |-> e]
Ternary(c, t, f) ==
  [kind |-> "TernaryIfExpression", condition |-> c, ifTrue |-> t, ifFalse |-> f]
Reference(token) == [kind |-> "FunctionReferenceExpression", function |-> token.text]
Call(token, arguments) ==
  [kind |-> IF token.kind = "BuiltIn" THEN "BuiltInCall" ELSE "FunctionCall",
   function |-> token.text, arguments |-> arguments]

-----------------------------------------------------------------------------
(* Parsing.                                                                *)

ParseUnaryExpression(operator, s) ==
  Then(ParseExpression(s), LAMBDA e, t : Parsed(Unary(operator, e), t))

ParseParenExpression(s) ==
  Then(ParseExpression(s), LAMBDA e, t :
    MustParse("RParen", t, LAMBDA u : Parsed(e, u)))

ParseArraySubscriptExpression(s) ==
  Then(ParseExpression(s), LAMBDA e, t :
    MustParse("RSquare", t, LAMBDA u : Parsed(Subscript(e), u)))

\* Slip: the branches of a ternary swapped.
ParseTernaryIfExpressionSwapped(condition, s) ==
  Then(ParseExpression(s), LAMBDA ifTrue, t :
    MustParse("OP_TernaryElse", t, LAMBDA u :
      Then(ParseExpression(u), LAMBDA ifFalse, v :
        Parsed(Ternary(condition, ifFalse, ifTrue), v))))

ParseTernaryIfExpression(condition, s) ==
  Then(ParseExpression(s), LAMBDA ifTrue, t :
    MustParse("OP_TernaryElse", t, LAMBDA u :
      Then(ParseExpression(u), LAMBDA ifFalse, v :
        Parsed(Ternary(condition, ifTrue, ifFalse), v))))

\* Slip: a token more goes when the literal does not fit.
ParseIntegerLiteralSkipsOne(s) ==
  IF CurrentToken(s).text \in TooLarge
    THEN Failed(ConsumeCurrent(ConsumeCurrent(Report(s))))
    ELSE Parsed(Literal(CurrentToken(s)), ConsumeCurrent(s))

\* One that does not fit is reported.
ParseIntegerLiteral(s) ==
  IF CurrentToken(s).text \in TooLarge
    THEN Failed(ConsumeCurrent(Report(s)))
    ELSE Parsed(Literal(CurrentToken(s)), ConsumeCurrent(s))

\* Expressions separated by commas or nothing.  An argument that fails empties
\* the list, and is no failure of the call.
FunctionCallArgumentsAt(s, arguments) ==
  IF CurrentKind(s) \in {"RParen", "none"}
    THEN [arguments |-> arguments, stream |-> s]
    ELSE LET r == ParseExpression(s)
             t == r.stream
         IN  IF r.tree = <<>>
               THEN [arguments |-> <<>>, stream |-> t]
               ELSE ParseFunctionCallArguments(
                      IF CurrentKind(t) = "Comma" THEN ConsumeCurrent(t) ELSE t,
                      arguments \o r.tree)

\* Slip: the closing parenthesis of a call stays in the stream.
ParseFunctionCallLeavesParen(function, s) ==
  LET r == ParseFunctionCallArguments(s, <<>>)
  IN  MustParse("RParen", r.stream,
                LAMBDA t : Parsed(Call(function, r.arguments), r.stream))

ParseFunctionCall(function, s) ==
  LET r == ParseFunctionCallArguments(s, <<>>)
  IN  MustParse("RParen", r.stream, LAMBDA t : Parsed(Call(function, r.arguments), t))

ParseFunctionExpression(function, s) ==
  IF CurrentKind(s) = "LParen" THEN ParseFunctionCall(function, ConsumeCurrent(s))
                               ELSE Parsed(Reference(function), s)

ParseExpressionLhs(s) ==
  LET kind  == CurrentKind(s)
      token == CurrentToken(s)
      rest  == ConsumeCurrent(s)
  IN  CASE IsUnaryOperator(kind) -> ParseUnaryExpression(kind, rest)
        [] kind = "LParen" -> ParseParenExpression(rest)
        [] kind = "LSquare" -> ParseArraySubscriptExpression(rest)
        [] kind = "IntegerLiteral" -> ParseIntegerLiteral(s)
        [] kind \in LiteralKind \ {"IntegerLiteral"} -> Parsed(Literal(token), rest)
        [] kind \in {"FunctionIdentifier", "BuiltIn"} -> ParseFunctionExpression(token, rest)
        [] kind = "VariableIdentifier" -> Parsed(Variable(token), rest)
        [] kind = "Macro" -> Parsed(Macro(token), rest)
        [] OTHER -> Failed(s)

\* The operand of an operator, with what binds more tightly behind it.
WithTighterRhs(operand, operator, s) ==
  IF Precedence(operator) < Precedence(CurrentKind(s))
    THEN ParseExpressionRhs(operand, s, Precedence(operator) + 1)
    ELSE Parsed(operand, s)

\* The operator is consumed before its precedence is looked at.
ExpressionRhsAt(lhs, s, precedence) ==
  LET operator == CurrentKind(s)
      rest     == ConsumeCurrent(s)
  IN  IF ~IsBinaryOperator(operator) /\ operator # "OP_TernaryIf"
        THEN Parsed(lhs, s)
        ELSE IF Precedence(operator) < precedence
        THEN Parsed(lhs, rest)
        ELSE IF operator = "OP_TernaryIf"
        THEN ParseTernaryIfExpression(lhs, rest)
        ELSE Then(ParseExpressionLhs(rest), LAMBDA operand, t :
               Then(WithTighterRhs(operand, operator, t), LAMBDA rhs, u :
                 ParseExpressionRhs(Binary(lhs, operator, rhs), u, precedence)))

ExpressionAt(s) ==
  Then(ParseExpressionLhs(s), LAMBDA lhs, t : ParseExpressionRhs(lhs, t, 0))

ExpressionDescent ==
  \A s \in AnyStream :
    /\ ParseExpression(s) = ExpressionAt(s)
    /\ \A lhs, precedence :
         ParseExpressionRhs(lhs, s, precedence) = ExpressionRhsAt(lhs, s, precedence)
    /\ \A arguments :
         ParseFunctionCallArguments(s, arguments) = FunctionCallArgumentsAt(s, arguments)
=============================================================================
