--------------------------- MODULE MCInterpreter ---------------------------
(***************************************************************************)
(* Programs for TLC to run the interpreter on.                             *)
(***************************************************************************)
EXTENDS Reference

MCName == {"x", "g", "p", "q"}
MCFunctionName == {"f", "h", "r"}
MCChar == {DigitChar[i] : i \in 1 .. 10} \cup {"-", "+", "."} \cup Blank
            \cup Letters \cup TypeLetters

-----------------------------------------------------------------------------
(* Program text.                                                           *)

Lit(v)       == [kind |-> "Literal", value |-> v]
Num(n)       == Lit(MakeInt(n))
Str(c)       == Lit(MakeString(<<c>>))
True         == Lit(MakeBoolean(TRUE))
Var(n)       == [kind |-> "VariableExpression", name |-> n]
Bin(l, o, r) == [kind |-> "BinaryExpression", operator |-> o, lhs |-> l, rhs |-> r]
Un(o, e)     == [kind |-> "UnaryExpression", operator |-> o, expression |-> e]
Tern(c, t, f) == [kind |-> "TernaryIfExpression", condition |-> c,
                  ifTrue |-> t, ifFalse |-> f]
BI(f, args)  == [kind |-> "BuiltInCall", function |-> f, arguments |-> args]
Call(f, args) == [kind |-> "FunctionCall", function |-> f, arguments |-> args]
Mac(m)       == [kind |-> "MacroExpression", macro |-> m]

Do(e)       == [kind |-> "ExpressionStatement", expression |-> e]
Write(e)    == Do(BI("ConsoleWrite", <<e>>))
Set(n, e)   == [kind |-> "VariableAssignment", name |-> n, scope |-> "Auto",
                initial |-> <<e>>]
SetLocal(n, e) == [kind |-> "VariableAssignment", name |-> n, scope |-> "Local",
                   initial |-> <<e>>]
Declaration(n) == [kind |-> "VariableAssignment", name |-> n, scope |-> "Local",
                   initial |-> <<>>]
If(c, b, e) == [kind |-> "IfStatement", cases |-> <<[condition |-> c, body |-> b]>>,
                elseCase |-> e]
If2(c, b, c2, b2, e) ==
  [kind |-> "IfStatement",
   cases |-> <<[condition |-> c, body |-> b], [condition |-> c2, body |-> b2]>>,
   elseCase |-> e]
While(c, b) == [kind |-> "WhileStatement", condition |-> c, body |-> b]
ExitWith(e) == [kind |-> "ExitStatement", expression |-> <<e>>]
JustExit    == [kind |-> "ExitStatement", expression |-> <<>>]

Par(n)        == [name |-> n, defaultInit |-> <<>>]
ParDef(n, e)  == [name |-> n, defaultInit |-> <<Set(n, e)>>]
Func(f, ps, b) == [name |-> f, parameters |-> ps, body |-> b]

-----------------------------------------------------------------------------
(* Programs that the reference interpreter runs: user functions are called *)
(* in statements of their own, use their parameters and the global $g.     *)

DecX == Bin(Var("x"), "-", Num(1))

Countdown == While(Var("x"), <<Write(Var("x")), Set("x", DecX)>>)

PlainFunctions ==
  << Func("f", <<Par("p")>>,
       <<If(Var("p"), <<Set("g", Var("p")), Write(Var("g"))>>, <<Write(Str("l"))>>),
         Set("p", Str("t")), Write(Var("p"))>>),
     Func("h", <<Par("p"), ParDef("q", Bin(Num(2), "*", Num(3)))>>,
       <<Write(Var("q")), Do(Call("f", <<Var("q")>>)), Write(Var("q"))>>),
     Func("r", <<Par("p")>>,
       <<Set("x", Var("p")),
         If(Var("p"), <<Do(Call("r", <<Bin(Var("p"), "-", Num(1))>>)),
                        Write(Bin(Var("p"), "&", Var("x")))>>,
            <<>>)>>),
     Func("f", <<>>, <<>>) >>

PlainStatement ==
  { Set("x", Num(2)),
    Set("g", Bin(Num(1), "+", Num(1))),
    Declaration("x"),
    Write(Bin(Var("x"), "&", Mac("CRLF"))),
    Countdown,
    If2(Var("x"), <<Set("x", Num(0)), Write(Str("a"))>>,
        Var("g"), <<Declaration("x"), Set("x", Num(1)), Write(Var("x"))>>,
        <<Set("q", Str("e")), Write(Var("q"))>>),
    If2(Num(0), <<>>, Num(0), <<Write(Str("u"))>>, <<Write(Str("n"))>>),
    While(Var("g"), <<If(Var("x"), <<Set("g", Num(0))>>, <<Set("x", Num(1))>>)>>),
    Do(Call("f", <<Var("g")>>)),
    Do(Call("h", <<Var("x")>>)),
    Do(Call("h", <<>>)),
    Do(Call("r", <<Num(2), Num(1)>>)),
    ExitWith(Bin(Var("x"), "-", Num(3))),
    JustExit }

Plain2 == {<<a, b>> : a \in PlainStatement, b \in PlainStatement}
Plain3 == {<<Set("x", Num(2)), a, b>> : a \in PlainStatement, b \in PlainStatement}

Program(statements, functions) ==
  [statements |-> statements, functions |-> functions]

PlainDocument == {Program(s, PlainFunctions) : s \in Plain2 \cup Plain3}

-----------------------------------------------------------------------------
(* Programs without that restriction: calls in the middle of expressions,  *)
(* conditions and arguments, several defaults, failing statements, values  *)
(* at the edges of their type.                                             *)

WildFunctions ==
  << Func("f", <<Par("p"), ParDef("q", Str("d")), ParDef("x", Call("h", <<Num(1), Num(2)>>))>>,
       <<Write(Var("q")), Set("g", Var("x")), Write(Var("p"))>>),
     Func("h", <<ParDef("p", Num(1)), Par("p")>>,
       <<Set("g", Var("p")), SetLocal("q", Num(0))>>),
     Func("r", <<Par("x")>>,
       <<If(Var("x"), <<Set("x", Bin(Var("x"), "-", Call("r", <<Bin(Var("x"), "-", Num(1))>>)))>>,
            <<Do(Call("h", <<Num(4), Num(5)>>))>>)>>) >>

MinInt == Bin(Un("-", Num(IntMax)), "-", Num(1))

WildExpression ==
  { Num(3), Str("s"), Var("x"), True, Lit(MakeKeyword("Default")),
    Lit(MakeDouble([class |-> "finite", negative |-> FALSE, halves |-> 5])),
    Mac("LF"), Mac("MK_Other"),
    Call("f", <<Num(1), Num(2), Num(3), Num(4)>>),
    Call("f", <<Call("h", <<Num(6), Num(7)>>)>>),
    Call("f", <<>>), Call("h", <<>>), Call("r", <<Num(2)>>),
    Tern(Var("x"), Call("h", <<Num(1), Num(2)>>), Num(0)),
    BI("BI_Other", <<>>), BI("Abs", <<Bin(Num(4), "&", Str("."))>>),
    BI("ConsoleWriteError", <<Var("g")>>), BI("VarGetType", <<Var("x")>>),
    BI("ConsoleWriteLine", <<>>), BI("ConsoleWriteErrorLine", <<Num(1)>>),
    Bin(Num(1), "/", Num(0)), Bin(MinInt, "/", Un("-", Num(1))),
    Bin(Num(IntMax), "*", Num(IntMax)), Bin(Num(1), "=", Num(1)),
    Un("Not", True), Un("+", MinInt), BI("Abs", <<MinInt>>),
    [kind |-> "ArraySubscriptExpression"], [kind |-> "FunctionReferenceExpression"] }

WildStatements(e) ==
  { <<Do(e)>>,
    <<Write(e), Write(Num(1))>>,
    <<Set("q", Num(8)), Do(e), Write(Var("q"))>>,
    <<Set("x", e), Write(Var("x"))>>,
    <<Set("x", Num(1)), If2(Var("x"), <<Set("q", Num(5)), Do(e)>>, e, <<>>, <<>>)>>,
    <<If2(e, <<Write(Var("g"))>>, e, <<Write(Str("b"))>>, <<Write(Str("e"))>>)>>,
    <<While(Bin(Var("g"), "&", e), <<JustExit>>), Write(Num(2))>>,
    <<ExitWith(e)>> }

WildDocument ==
  {Program(s, WildFunctions) : s \in UNION {WildStatements(e) : e \in WildExpression}}

\* A function called in a block reads a variable of that block.
CallInBlock ==
  Program(<<If(True, <<Set("q", Num(5)), Do(Call("f", <<>>))>>, <<>>)>>,
          <<Func("f", <<>>, <<Write(Var("q"))>>)>>)

\* Fails in a condition that is true, before a loop.
FailingLoop ==
  Program(<<If(Bin(Mac("MK_Other"), "&", True), <<While(True, <<>>)>>, <<>>)>>, <<>>)

\* Calls a function that is not there.
UnknownFunction ==
  Program(<<Write(Bin(Call("f", <<Num(1)>>), "&", Num(2))), Write(Num(3))>>, <<>>)

\* Runs for ever.
LoopDocument == {Program(<<While(True, <<>>)>>, <<>>)}

MCDocument == PlainDocument \cup WildDocument \cup LoopDocument \cup
              {CallInBlock, FailingLoop, UnknownFunction}

-----------------------------------------------------------------------------
(* All the statements and expressions of the programs.                     *)

RECURSIVE InExpression(_), InStatement1(_)

InExpression(e) ==
  {e} \cup
    CASE e.kind = "BinaryExpression" -> InExpression(e.lhs) \cup InExpression(e.rhs)
      [] e.kind = "UnaryExpression" -> InExpression(e.expression)
      [] e.kind = "TernaryIfExpression" ->
           InExpression(e.condition) \cup InExpression(e.ifTrue) \cup InExpression(e.ifFalse)
      [] e.kind \in {"BuiltInCall", "FunctionCall"} ->
           UNION {InExpression(e.arguments[i]) : i \in DOMAIN e.arguments}
      [] OTHER -> {}

Inner(s) ==
  CASE s.kind = "IfStatement" ->
         UNION {ToSet(s.cases[i].body) : i \in DOMAIN s.cases} \cup ToSet(s.elseCase)
    [] s.kind = "WhileStatement" -> ToSet(s.body)
    [] OTHER -> {}
InStatement1(s) == {s} \cup UNION {InStatement1(t) : t \in Inner(s)}

TopStatements(d) ==
  ToSet(d.statements) \cup
    UNION {ToSet(f.body) \cup UNION {ToSet(f.parameters[i].defaultInit) :
                                       i \in DOMAIN f.parameters} :
             f \in ToSet(d.functions)}

MCStatement ==
  UNION {InStatement1(s) : s \in UNION {TopStatements(d) : d \in MCDocument}}

MCExpression ==
  UNION {InExpression(e) :
           e \in UNION {ToSet(StatementOperands(s)) : s \in MCStatement}}

-----------------------------------------------------------------------------
(* What running a program writes is what the program means.                *)

MeaningOf == [d \in PlainDocument |-> Meaning(d)]

\* After every step, what was written is the beginning of what the reference
\* interpreter writes: no statement is skipped, repeated or run out of order,
\* no branch is taken that should not, and every variable has its value.
WritesAsReference ==
  [][(document \in PlainDocument) =>
       IsPrefix(WrittenSoFar', MeaningOf[document].out)]_vars

\* The step with which Run's loop ends leaves everything written, and the exit
\* code and the failure of the reference.
EndsAsReference ==
  [][(document \in PlainDocument) /\ Stopped' =>
       /\ WrittenSoFar' = MeaningOf[document].out
       /\ exitCode' = MeaningOf[document].code
       /\ aborting' = MeaningOf[document].failed]_vars

\* Run returns, but for a program that loops.
ScriptsEnd == document \notin LoopDocument => <>(Stopped \/ trapped)
=============================================================================
