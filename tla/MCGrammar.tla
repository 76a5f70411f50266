----------------------------- MODULE MCGrammar ------------------------------
(***************************************************************************)
(* Statements and functions for TLC to write and parse, beside the         *)
(* expressions.                                                            *)
(***************************************************************************)
EXTENDS MCExpressions, ParsedStatement

\* As for expressions, the constants are what is said of them.
MCParseStatement(s) == LET r == StatementOfKindAt(s) IN r
MCParseBody(ends, statements, s) == LET r == BodyAt(ends, statements, s) IN r
MCParseWhileBody(statements, s) == LET r == WhileBodyAt(statements, s) IN r
MCParseElseIfCases(cases, s) == LET r == ElseIfCasesAt(cases, s) IN r
MCParseSpecifiers(specifiers, s) == LET r == SpecifiersAt(specifiers, s) IN r
MCParseParameterPart(parameter, s) == LET r == ParameterPartAt(parameter, s) IN r
MCParseParameters(parameters, s) == LET r == ParametersAt(parameters, s) IN r
MCWrittenStatement(t) == LET ts == WrittenStatementAs(t) IN ts

MCLineBreak == <<Sign("Comment"), Sign("NewLine"), Sign("NewLine")>>

-----------------------------------------------------------------------------

One == Literal(Tok("IntegerLiteral", "1"))
X   == Variable(VariableToken("x"))
F   == Call(Tok("FunctionIdentifier", "f"), <<X>>)
StatementExpression == {One, X, F, Unary("OP_Minus", X), Binary(X, "OP_Equals", One)}
Conditions == {X, F, Binary(X, "OP_Equals", One)}

SimpleStatement ==
  {VariableAssignment("x", scope, i) :
     scope \in {"Auto", "Local", "Global"}, i \in {<<>>, <<F>>, <<Binary(X, "OP_Equals", One)>>}}
    \cup {ExpressionStatement(e) : e \in {F, Unary("OP_Minus", X)}}
    \cup {ExitStatement(i) : i \in {<<>>, <<X>>, <<Unary("OP_Minus", X)>>}}
Body == {<<>>, <<ExpressionStatement(F)>>,
         <<ExitStatement(<<>>), VariableAssignment("x", "Auto", <<F>>)>>}
Blocks(B) ==
  {IfStatement(<<IfCase(X, b)>>, c) : b \in B, c \in B}
    \cup {IfStatement(<<IfCase(F, b), IfCase(X, c), IfCase(F, b)>>, b) : b \in B, c \in B}
    \cup {WhileStatement(e, b) : e \in Conditions, b \in B}
Nested ==
  {IfStatement(<<IfCase(X, <<ExpressionStatement(F)>>)>>, <<ExitStatement(<<>>)>>),
   WhileStatement(X, <<ExitStatement(<<X>>)>>)}
StatementSet == SimpleStatement \cup Nested \cup Blocks(Body \cup {<<s, s>> : s \in Nested})

Parameter(name, init) == [name |-> name, defaultInit |-> init]
FunctionSet ==
  {[name |-> "f", parameters |-> ps, body |-> b] :
     ps \in {<<>>, <<Parameter("x", <<>>)>>,
             <<Parameter("y", <<>>),
               Parameter("x", <<VariableAssignment("x", "Auto", <<Unary("OP_Minus", X)>>)>>),
               Parameter("z", <<>>)>>},
     b \in Body \cup {<<s, s>> : s \in Nested}}

-----------------------------------------------------------------------------
(* What is not in the form of a tree.                                      *)

UsualWhile ==
  <<Sign("KW_While"), VariableToken("x"), Sign("NewLine"), VariableToken("x"), Sign("NewLine"),
    Sign("KW_WEnd")>>
EmptyFunction ==
  <<Tok("FunctionIdentifier", "f"), Sign("LParen"), Sign("RParen"), Sign("NewLine"),
    Sign("Comment"), Sign("NewLine"), Sign("KW_EndFunc")>>

MCNextLine ==
  { <<>>, UsualWhile, EmptyFunction, <<VariableToken("main")>>,
    <<Sign("KW_Exit"), Tok("IntegerLiteral", "huge")>>,
    <<Sign("KW_Local"), Sign("KW_Local"), VariableToken("x")>>,
    <<Tok("FunctionIdentifier", "f"), Sign("LParen"), VariableToken("x"), Sign("KW_If")>> }

GrammarSource == MCSource \cup MCNextLine
GrammarTree   == TreeSet \cup StatementExpression

\* Parser.cpp:804 has a While go on until its WEnd, on whatever line it is.
WhileGoesToWEnd ==
  called = "ParseStatement" /\ parsed /\ stream.tokens = UsualWhile => trees # <<>>
=============================================================================
