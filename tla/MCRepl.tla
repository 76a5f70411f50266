------------------------------- MODULE MCRepl -------------------------------
(***************************************************************************)
(* Lines for the REPL.                                                     *)
(***************************************************************************)
EXTENDS Repl

MCName == {"x"}
MCFunctionName == {"f"}
MCChar == {DigitChar[i] : i \in 1 .. 10} \cup {"-", "+", "."} \cup Blank
            \cup Letters \cup TypeLetters

Num(n) == [kind |-> "Literal", value |-> MakeInt(n)]
X      == [kind |-> "VariableExpression", name |-> "x"]
Bin(l, o, r) == [kind |-> "BinaryExpression", operator |-> o, lhs |-> l, rhs |-> r]
Neg(e)       == [kind |-> "UnaryExpression", operator |-> "-", expression |-> e]
BI(f, args)  == [kind |-> "BuiltInCall", function |-> f, arguments |-> args]
MinInt == Bin(Neg(Num(IntMax)), "-", Num(1))

\* What is typed on a line.
Typed ==
  {Num(1), X, Bin(Num(IntMax), "+", Num(1)), Bin(X, "+", Num(1)), Bin(Num(1), "&", X), BI("BI_Other", <<>>),
   BI("ConsoleWrite", <<Num(2)>>), BI("ConsoleWriteError", <<X>>),
   Bin(MinInt, "/", Neg(Num(1))),
   [kind |-> "FunctionCall", function |-> "f", arguments |-> <<>>],
   [kind |-> "MacroExpression", macro |-> "CR"],
   [kind |-> "MacroExpression", macro |-> "MK_Other"]}

Wrapped(e) ==
  [kind |-> "ExpressionStatement", expression |-> BI("ConsoleWrite", <<e>>)]
SetX  == [kind |-> "VariableAssignment", name |-> "x", scope |-> "Auto",
          initial |-> <<Num(1)>>]
Exit2 == [kind |-> "ExitStatement", expression |-> <<Num(2)>>]

\* A line that closes the call itself, 1) ) $x = 1 ; say, has more statements:
\* the parser reports what is between them and goes on.
Line ==
  {<<>>} \cup {<<Wrapped(e)>> : e \in Typed} \cup
  {<<Wrapped(Num(1)), SetX>>, <<Wrapped(Num(1)), SetX, Wrapped(X)>>,
   <<Wrapped(Num(1)), Exit2>>, <<Wrapped(X), Exit2>>, <<Wrapped(Num(1)), Exit2, Wrapped(X)>>}

MCDocument == {[statements |-> line, functions |-> <<>>] : line \in Line}

MCStatement == UNION {{line[i] : i \in DOMAIN line} : line \in Line}

MCExpression ==
  Typed \cup {Wrapped(e).expression : e \in Typed} \cup
  {Num(2), Num(IntMax), Neg(Num(IntMax)), MinInt, Neg(Num(1))}
=============================================================================
