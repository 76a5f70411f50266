----------------------------- MODULE Statements -----------------------------
(***************************************************************************)
(* The parser's statements and function definitions (Parser.cpp).  The     *)
(* loops, and the functions that call each other, are constants as those   *)
(* of Expressions are.                                                     *)
(***************************************************************************)
EXTENDS Expressions

CONSTANTS
  ParseStatement(_),
  ParseBody(_, _, _),
  ParseWhileBody(_, _),
  ParseElseIfCases(_, _),
  ParseSpecifiers(_, _),
  ParseParameterPart(_, _),
  ParseParameters(_, _)

ExpressionStatement(e)   == [kind |-> "ExpressionStatement", expression |-> e]
VariableAssignment(name, scope, initial) ==
  [kind |-> "VariableAssignment", name |-> name, scope |-> scope, initial |-> initial]
IfCase(condition, body)  == [condition |-> condition, body |-> body]
IfStatement(cases, else) == [kind |-> "IfStatement", cases |-> cases, elseCase |-> else]
WhileStatement(condition, body) ==
  [kind |-> "WhileStatement", condition |-> condition, body |-> body]
ExitStatement(e)         == [kind |-> "ExitStatement", expression |-> e]

-----------------------------------------------------------------------------
(* Assignments, expressions, Exit.                                         *)

Specifier  == {"KW_Const", "KW_Static", "KW_Global", "KW_Local"}
ScopeOf(specifiers) ==
  CASE "KW_Global" \in specifiers -> "Global"
    [] "KW_Local" \in specifiers -> "Local"
    [] OTHER -> "Auto"

\* A specifier twice, or both scopes, is a failure.
Repeated(kind, specifiers) ==
  \/ kind \in specifiers
  \/ kind \in {"KW_Global", "KW_Local"} /\ specifiers \cap {"KW_Global", "KW_Local"} # {}

\* Everything up to the variable is consumed, also what does not belong there.
SpecifiersAt(specifiers, s) ==
  LET kind == CurrentKind(s)
      rest == ConsumeCurrent(s)
  IN  CASE kind = "none" -> Failed(s)
        [] kind = "VariableIdentifier" ->
             Parsed([name |-> CurrentToken(s).text, scope |-> ScopeOf(specifiers)], rest)
        [] kind \in Specifier /\ ~Repeated(kind, specifiers) ->
             ParseSpecifiers(specifiers \cup {kind}, rest)
        [] OTHER -> Failed(rest)

ParseVariableAssignment(s) ==
  Then(ParseSpecifiers({}, s), LAMBDA v, t :
    IF CurrentKind(t) # "OP_Equals"
      THEN Parsed(VariableAssignment(v.name, v.scope, <<>>), t)
      ELSE Then(ParseExpression(ConsumeCurrent(t)), LAMBDA e, u :
             Parsed(VariableAssignment(v.name, v.scope, <<e>>), u)))

IsValidAsStatement(e) ==
  e.kind \in {"BuiltInCall", "FunctionCall", "UnaryExpression", "VariableExpression"}

ParseExpressionStatement(s) ==
  Then(ParseExpression(s), LAMBDA e, t :
    IF IsValidAsStatement(e) THEN Parsed(ExpressionStatement(e), t) ELSE Failed(t))

\* The expression is optional: one that fails is none.
ParseExitStatement(s) ==
  LET r == ParseExpression(s) IN Parsed(ExitStatement(r.tree), r.stream)

-----------------------------------------------------------------------------
(* Blocks.                                                                 *)

\* Slip: a statement that fails ends the body, which keeps those before it.
BodyPartAt(ends, statements, s) ==
  LET r == ParseStatement(s)
  IN  IF CurrentKind(s) \in ends \cup {"none"} \/ r.tree = <<>>
        THEN Parsed(statements, IF CurrentKind(s) \in ends THEN s ELSE r.stream)
        ELSE ParseBody(ends, Append(statements, r.tree[1]), ConsumeNewLineAndComments(r.stream))

\* Statements up to one of the kinds in ends, with the new lines behind each.
BodyAt(ends, statements, s) ==
  IF CurrentKind(s) \in ends \cup {"none"}
    THEN Parsed(statements, s)
    ELSE Then(ParseStatement(s), LAMBDA statement, t :
           ParseBody(ends, Append(statements, statement), ConsumeNewLineAndComments(t)))

\* The new lines behind a statement belong to the next one.
WhileBodyAt(statements, s) ==
  IF CurrentKind(s) \in {"KW_WEnd", "none"}
    THEN Parsed(statements, s)
    ELSE Then(ParseStatement(s), LAMBDA statement, t :
           ParseWhileBody(Append(statements, statement), t))

ParseWhileStatement(s) ==
  Then(ParseExpression(s), LAMBDA condition, t :
    Then(ParseWhileBody(<<>>, t), LAMBDA body, u :
      MustParse("KW_WEnd", u, LAMBDA v : Parsed(WhileStatement(condition, body), v))))

IfEnd == {"KW_EndIf", "KW_Else", "KW_ElseIf"}

\* A statement that fails empties the case, and is no failure of the If.
ParseIfCaseStatements(s) ==
  LET r == ParseBody(IfEnd, <<>>, s)
  IN  Parsed(IF r.tree = <<>> THEN <<>> ELSE r.tree[1], r.stream)

\* A missing Then is no failure either.
AfterThen(s) ==
  ConsumeNewLineAndComments(IF CurrentKind(s) = "KW_Then" THEN ConsumeCurrent(s) ELSE s)

ElseIfCasesAt(cases, s) ==
  IF CurrentKind(s) # "KW_ElseIf"
    THEN Parsed(cases, s)
    ELSE Then(ParseExpression(ConsumeCurrent(s)), LAMBDA condition, t :
           Then(ParseIfCaseStatements(AfterThen(t)), LAMBDA body, u :
             ParseElseIfCases(Append(cases, IfCase(condition, body)), u)))

\* Slip: an If without Else takes the rest of its line for one.
ParseElseCaseAlways(s) ==
  ParseIfCaseStatements(ConsumeNewLineAndComments(ConsumeCurrent(s)))

ParseElseCase(s) ==
  IF CurrentKind(s) = "KW_Else"
    THEN ParseIfCaseStatements(ConsumeNewLineAndComments(ConsumeCurrent(s)))
    ELSE Parsed(<<>>, s)

ParseIfEnd(cases, s) ==
  Then(ParseElseCase(s), LAMBDA elseCase, t :
    MustParse("KW_EndIf", t, LAMBDA u : Parsed(IfStatement(cases, elseCase), u)))

ParseIfCases(condition, s) ==
  Then(ParseBody(IfEnd, <<>>, s), LAMBDA body, t :
    Then(ParseElseIfCases(<<IfCase(condition, body)>>, t), ParseIfEnd))

ParseIfStatement(s) ==
  Then(ParseExpression(s), LAMBDA condition, t :
    MustParse("KW_Then", t, LAMBDA u : ParseIfCases(condition, ConsumeNewLineAndComments(u))))

StatementOfKindAt(s) ==
  LET t    == ConsumeNewLineAndComments(s)
      kind == CurrentKind(t)
      rest == ConsumeCurrent(t)
  IN  CASE kind = "none" -> Failed(t)
        [] kind \in Specifier \cup {"VariableIdentifier"} -> ParseVariableAssignment(t)
        [] kind = "KW_If" -> ParseIfStatement(rest)
        [] kind = "KW_While" -> ParseWhileStatement(rest)
        [] kind = "KW_Exit" -> ParseExitStatement(rest)
        [] OTHER -> ParseExpressionStatement(t)

-----------------------------------------------------------------------------
(* Function definitions, behind Func.                                      *)

\* Up to the comma or parenthesis behind the parameter.  A default value is an
\* assignment to the parameter.
ParameterPartAt(parameter, s) ==
  LET kind == CurrentKind(s)
      rest == ConsumeCurrent(s)
  IN  CASE kind = "VariableIdentifier" ->
             ParseParameterPart([parameter EXCEPT !.name = CurrentToken(s).text], rest)
        [] kind \in {"KW_Const", "KW_ByRef"} -> ParseParameterPart(parameter, rest)
        [] kind = "OP_Equals" /\ parameter.name # "" ->
             Then(ParseExpression(rest), LAMBDA e, t :
               ParseParameterPart(
                 [parameter EXCEPT !.defaultInit =
                    Append(@, VariableAssignment(parameter.name, "Auto", <<e>>))], t))
        [] kind \in {"Comma", "RParen"} -> Parsed(parameter, s)
        [] OTHER -> Failed(s)

ParametersAt(parameters, s) ==
  IF CurrentKind(s) \in {"RParen", "none"}
    THEN Parsed(parameters, s)
    ELSE Then(ParseParameterPart([name |-> "", defaultInit |-> <<>>], s), LAMBDA p, t :
           ParseParameters(Append(parameters, p),
                           IF CurrentKind(t) = "Comma" THEN ConsumeCurrent(t) ELSE t))

ParseFunctionBody(name, parameters, s) ==
  Then(ParseBody({"KW_EndFunc"}, <<>>, s), LAMBDA body, t :
    MustParse("KW_EndFunc", t, LAMBDA u :
      Parsed([name |-> name, parameters |-> parameters, body |-> body], u)))

ParseFunctionDefinition(s) ==
  MustParse("FunctionIdentifier", s, LAMBDA t :
    MustParse("LParen", t, LAMBDA u :
      Then(ParseParameters(<<>>, u), LAMBDA parameters, v :
        MustParse("RParen", v, LAMBDA w :
          MustParse("NewLine", w, LAMBDA x :
            ParseFunctionBody(CurrentToken(s).text, parameters, x))))))

StatementDescent ==
  \A s \in AnyStream :
    /\ ParseStatement(s) = StatementOfKindAt(s)
    /\ \A ends, statements : ParseBody(ends, statements, s) = BodyAt(ends, statements, s)
    /\ \A statements : ParseWhileBody(statements, s) = WhileBodyAt(statements, s)
    /\ \A cases : ParseElseIfCases(cases, s) = ElseIfCasesAt(cases, s)
    /\ \A specifiers : ParseSpecifiers(specifiers, s) = SpecifiersAt(specifiers, s)
    /\ \A parameter : ParseParameterPart(parameter, s) = ParameterPartAt(parameter, s)
    /\ \A parameters : ParseParameters(parameters, s) = ParametersAt(parameters, s)
=============================================================================
