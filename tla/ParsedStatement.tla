--------------------------- MODULE ParsedStatement ---------------------------
(***************************************************************************)
(* One call of ParseStatement, or of ParseFunctionDefinition behind Func:  *)
(* what is written line by line is read back.                              *)
(***************************************************************************)
EXTENDS ParsedExpression, Statements

CONSTANTS
  LineBreak,           \* what stands between two lines
  NextLine,            \* sequences of tokens, some of which may stand on the next line
  StatementTree,       \* statements to be written and read back, with all statements in them
  FunctionTree,        \* functions to be written and read back
  WrittenStatement(_)  \* the tokens of a statement: WrittenStatementAs

ASSUME LineBreakAssumption ==
  /\ LineBreak \in Seq(Token) /\ LineBreak # <<>>
  /\ \A i \in DOMAIN LineBreak : LineBreak[i].kind \in CommentKind \cup {"NewLine"}
ASSUME NextLineAssumption == NextLine \subseteq Source

-----------------------------------------------------------------------------
(* Statements and functions.  A call, or an expression with a sign, is a   *)
(* statement; a variable alone is a declaration.                           *)

OptionalTree == {<<>>} \cup {<<e>> : e \in Tree}
CallTree     == {e \in Tree : e.kind \in {"UnaryExpression", "FunctionCall", "BuiltInCall"}}

Assignments ==
  [kind: {"VariableAssignment"}, name: STRING, scope: {"Auto", "Local", "Global"},
   initial: OptionalTree]
ExpressionStatements == [kind: {"ExpressionStatement"}, expression: CallTree]
ExitStatements       == [kind: {"ExitStatement"}, expression: OptionalTree]
WhileStatements      == [kind: {"WhileStatement"}, condition: Tree, body: Seq(StatementTree)]
Cases                == [condition: Tree, body: Seq(StatementTree)]
IfStatements ==
  [kind: {"IfStatement"}, cases: Seq(Cases) \ {<<>>}, elseCase: Seq(StatementTree)]

ASSUME StatementTreeAssumption ==
  StatementTree \subseteq
    Assignments \cup ExpressionStatements \cup ExitStatements \cup WhileStatements
      \cup IfStatements

\* A default value is an assignment to the parameter.
IsDefault(init, name) ==
  init = <<>> \/ \E e \in Tree : init = <<VariableAssignment(name, "Auto", <<e>>)>>

ASSUME FunctionTreeAssumption ==
  \A f \in FunctionTree :
    /\ f = [name |-> f.name, parameters |-> f.parameters, body |-> f.body]
    /\ f.name \in STRING /\ f.body \in Seq(StatementTree)
    /\ f.parameters = [i \in 1 .. Len(f.parameters) |->
                         [name |-> f.parameters[i].name,
                          defaultInit |-> f.parameters[i].defaultInit]]
    /\ Len(f.parameters) \in Nat
    /\ \A i \in 1 .. Len(f.parameters) :
         LET p == f.parameters[i]
         IN  p.name \in STRING \ {""} /\ IsDefault(p.defaultInit, p.name)

-----------------------------------------------------------------------------
(* How they are written.                                                   *)

\* The last k of the parts one behind the other, for each k.
LastParts(parts) ==
  LET last[k \in 0 .. Len(parts)] ==
        IF k = 0 THEN <<>> ELSE parts[Len(parts) - k + 1] \o last[k - 1]
  IN  last
Joined(parts) == LastParts(parts)[Len(parts)]

\* The WEnd of a While is on the line of its last statement.
Lines(body)     == Joined([i \in DOMAIN body |-> WrittenStatement(body[i]) \o LineBreak])
LoopLines(body) == Joined([i \in DOMAIN body |-> LineBreak \o WrittenStatement(body[i])])

VariableToken(name)  == Tok("VariableIdentifier", name)
Initialised(initial) ==
  IF initial = <<>> THEN <<>> ELSE <<Sign("OP_Equals")>> \o Written(initial[1])
SpecifiersOf(scope) ==
  CASE scope = "Auto" -> <<>>
    [] scope = "Local" -> <<Sign("KW_Local")>>
    [] scope = "Global" -> <<Sign("KW_Const"), Sign("KW_Global")>>

WrittenCase(word, c) ==
  <<Sign(word)>> \o Written(c.condition) \o <<Sign("KW_Then")>> \o LineBreak \o Lines(c.body)
WrittenCases(cases) ==
  Joined([i \in DOMAIN cases |->
            WrittenCase(IF i = 1 THEN "KW_If" ELSE "KW_ElseIf", cases[i])])
WrittenElse(body) ==
  IF body = <<>> THEN <<>> ELSE <<Sign("KW_Else")>> \o LineBreak \o Lines(body)

WrittenStatementAs(t) ==
  CASE t.kind = "VariableAssignment" ->
         SpecifiersOf(t.scope) \o <<VariableToken(t.name)>> \o Initialised(t.initial)
    [] t.kind = "ExpressionStatement" -> Written(t.expression)
    [] t.kind = "ExitStatement" ->
         <<Sign("KW_Exit")>> \o (IF t.expression = <<>> THEN <<>> ELSE Written(t.expression[1]))
    [] t.kind = "WhileStatement" ->
         <<Sign("KW_While")>> \o Written(t.condition) \o LoopLines(t.body) \o <<Sign("KW_WEnd")>>
    [] t.kind = "IfStatement" ->
         WrittenCases(t.cases) \o WrittenElse(t.elseCase) \o <<Sign("KW_EndIf")>>

\* A statement is finite, so it can be written.
ASSUME WrittenStatementAssumption ==
  \A t \in StatementTree :
    WrittenStatement(t) = WrittenStatementAs(t) /\ WrittenStatement(t) \in Seq(Token)

\* A parameter without default is ByRef.
WrittenParameter(p) ==
  IF p.defaultInit = <<>>
    THEN <<Sign("KW_ByRef"), VariableToken(p.name)>>
    ELSE <<VariableToken(p.name)>> \o Initialised(p.defaultInit[1].initial)
WrittenParameters(ps) ==
  Joined([i \in DOMAIN ps |->
            WrittenParameter(ps[i]) \o (IF i = Len(ps) THEN <<>> ELSE <<Sign("Comma")>>)])

WrittenFunction(f) ==
  <<Tok("FunctionIdentifier", f.name), Sign("LParen")>> \o WrittenParameters(f.parameters)
    \o <<Sign("RParen"), Sign("NewLine")>> \o Lines(f.body) \o <<Sign("KW_EndFunc")>>

-----------------------------------------------------------------------------

IsFunction    == called = "ParseFunctionDefinition"
WrittenOrigin == IF IsFunction THEN WrittenFunction(origin[1]) ELSE WrittenStatement(origin[1])

\* Nothing, or another line.
NextLines == {<<>>} \cup {LineBreak \o tokens : tokens \in NextLine}

StatementInit ==
  /\ \/ /\ origin = <<>>
        /\ called \in {"ParseStatement", "ParseFunctionDefinition"}
        /\ \E tokens \in NextLine : stream = Stream(tokens)
     \/ \E behind \in NextLines :
          /\ \/ called = "ParseStatement" /\ \E t \in StatementTree : origin = <<t>>
             \/ called = "ParseFunctionDefinition" /\ \E f \in FunctionTree : origin = <<f>>
          /\ stream = Stream(WrittenOrigin \o behind)
  /\ trees = <<>>
  /\ parsed = FALSE

ParseOneStatement == called = "ParseStatement" /\ Returns(ParseStatement(stream))
ParseOneFunction  == IsFunction /\ Returns(ParseFunctionDefinition(stream))

StatementNext == ParseOneStatement \/ ParseOneFunction
StatementSpec == StatementInit /\ [][StatementNext]_vars

\* One call of any of the three.
GrammarInit == Init \/ StatementInit
GrammarNext == Parse \/ StatementNext
GrammarSpec == GrammarInit /\ [][GrammarNext]_vars

-----------------------------------------------------------------------------

StatementParsed == called # "ParseExpression" /\ parsed

\* A statement or function is read back as it was written, with everything in it,
\* and nothing behind it is touched.
StatementsReadBack ==
  StatementParsed /\ origin # <<>> =>
    /\ trees = origin
    /\ stream.index = Len(WrittenOrigin) /\ stream.errors = 0
=============================================================================
