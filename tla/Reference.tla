----------------------------- MODULE Reference -----------------------------
(***************************************************************************)
(* What a program means, without scopes lists, statement indexes and       *)
(* deferred bodies: a definitional interpreter that runs a program by      *)
(* recursion over its text and gives everything it writes, its exit code   *)
(* and whether it failed.  A function sees its own variables and the       *)
(* global ones; a block's variables end with it; a call runs the body.     *)
(*                                                                         *)
(* It is defined for programs that call user functions in statements of    *)
(* their own only (Interpreter!CallFunction does not run the body, so      *)
(* there is nothing a nested call could be compared with).  For TLC: it is *)
(* recursive.                                                              *)
(***************************************************************************)
EXTENDS Interpreter

\* The machine: the variables of the function that is running and of the blocks
\* it is in, innermost last (none at the top level), the global variables, what
\* was written, whether the script failed or exited, and its exit code.
NewMachine ==
  [blocks |-> <<>>, globals |-> NoVariables, out |-> <<>>,
   failed |-> FALSE, exited |-> FALSE, code |-> 0]

Live(m)         == ~m.failed /\ ~m.exited
Fails(m, what)  == [m EXCEPT !.failed = TRUE,
                             !.out = Append(@, [stream |-> "error", message |-> what])]
Result(v, m)    == [value |-> v, m |-> m]

Has(bindings, name) == bindings[name].type # "Unbound"
Blocks(m, name)     == {i \in DOMAIN m.blocks : Has(m.blocks[i], name)}

ReadVariable(name, m) ==
  CASE Blocks(m, name) # {}  -> Result(m.blocks[Max(Blocks(m, name))][name], m)
    [] Blocks(m, name) = {} /\ Has(m.globals, name) -> Result(m.globals[name], m)
    [] OTHER -> Result(Undefined, Fails(m, "no variable"))

\* Where a name is declared when there is none to assign.
Declare(name, v, m) ==
  IF m.blocks = <<>> THEN [m EXCEPT !.globals[name] = v]
                     ELSE [m EXCEPT !.blocks[Len(m.blocks)][name] = v]

WriteVariable(name, v, m) ==
  CASE Blocks(m, name) # {} -> [m EXCEPT !.blocks[Max(Blocks(m, name))][name] = v]
    [] Blocks(m, name) = {} /\ Has(m.globals, name) -> [m EXCEPT !.globals[name] = v]
    [] OTHER -> Declare(name, v, m)

Declared(name, m) ==
  IF m.blocks = <<>> THEN Has(m.globals, name) ELSE Has(m.blocks[Len(m.blocks)], name)

RECURSIVE Eval(_, _), EvalAll(_, _)

\* Operands from left to right; the values are collected in order.
EvalAll(es, m) ==
  IF es = <<>>
    THEN Result(<<>>, m)
    ELSE LET first == Eval(Head(es), m)
             rest  == EvalAll(Tail(es), first.m)
         IN  Result(<<first.value>> \o rest.value, rest.m)

ApplyBuiltIn(function, vs, m) ==
  CASE function \in OtherBuiltIn -> Result(Undefined, Fails(m, "builtin not implemented"))
    [] function \in BuiltIn /\ Len(vs) # 1 -> Result(Undefined, m)
    [] function = "Abs" /\ Len(vs) = 1 -> Result(Abs(vs[1]), m)
    [] function = "VarGetType" /\ Len(vs) = 1 -> Result(GetTypeName(vs[1]), m)
    [] OTHER -> LET text == CastToString(vs[1]).string
                IN  Result(MakeInt(Wrap(Len(text))),
                           [m EXCEPT !.out = Append(@,
                              [stream |-> WriteStream(function), text |-> text])])

Eval(e, m) ==
  CASE e.kind = "Literal" -> Result(e.value, m)
    [] e.kind = "VariableExpression" -> ReadVariable(e.name, m)
    [] e.kind = "MacroExpression" ->
         IF e.macro \in Macro THEN Result(MakeString(MacroText(e.macro)), m)
                              ELSE Result(Undefined, Fails(m, "macro not implemented"))
    [] e.kind = "UnaryExpression" ->
         LET r == Eval(e.expression, m)
         IN  Result(EvaluateUnaryExpression(r.value, e.operator), r.m)
    [] e.kind = "BinaryExpression" ->
         LET r == EvalAll(<<e.lhs, e.rhs>>, m)
         IN  Result(EvaluateBinaryExpression(r.value[1], r.value[2], e.operator), r.m)
    [] e.kind = "TernaryIfExpression" ->
         LET r == Eval(e.condition, m)
         IN  Eval(IF IsTrue(r.value) THEN e.ifTrue ELSE e.ifFalse, r.m)
    [] e.kind = "BuiltInCall" ->
         LET r == EvalAll(e.arguments, m) IN ApplyBuiltIn(e.function, r.value, r.m)
    [] OTHER -> Result(Undefined, m)

RECURSIVE Execute(_, _, _), ExecuteAll(_, _, _), ExecuteIf(_, _, _, _), ExecuteCall(_, _, _)

\* d is the document; a statement runs only while the machine is live.
ExecuteAll(statements, d, m) ==
  IF statements = <<>> \/ ~Live(m)
    THEN m
    ELSE ExecuteAll(Tail(statements), d, Execute(Head(statements), d, m))

ExecuteBlock(statements, d, m) ==
  LET after == ExecuteAll(statements, d, [m EXCEPT !.blocks = Append(@, NoVariables)])
  IN  [after EXCEPT !.blocks = SubSeq(@, 1, Len(m.blocks))]

ExecuteIf(cases, elseCase, d, m) ==
  IF cases = <<>>
    THEN ExecuteBlock(elseCase, d, m)
    ELSE LET r == Eval(Head(cases).condition, m)
         IN  IF IsTrue(r.value) THEN ExecuteBlock(Head(cases).body, d, r.m)
                                ELSE ExecuteIf(Tail(cases), elseCase, d, r.m)

\* Parameters, then the defaults of those not given, then the body.
ExecuteCall(e, d, m) ==
  LET r       == EvalAll(e.arguments, m)
      named   == {i \in DOMAIN d.functions : d.functions[i].name = e.function}
      f       == d.functions[Min(named)]
      Given(n) == {i \in DOMAIN f.parameters \cap DOMAIN r.value : f.parameters[i].name = n}
      missing == {i \in DOMAIN f.parameters : i > Len(r.value)}
      own     == [n \in Name |->
                    IF Given(n) # {} THEN r.value[Min(Given(n))]
                    ELSE IF \E i \in missing : f.parameters[i].name = n THEN Undefined
                    ELSE Unbound]
      inits   == FlattenSeq([k \in 1 .. Cardinality(missing) |->
                               f.parameters[Len(r.value) + k].defaultInit])
      after   == ExecuteAll(inits \o f.body, d, [r.m EXCEPT !.blocks = <<own>>])
  IN  CASE named = {} -> Fails(r.m, "function not found")
        [] named # {} /\ \E i \in missing : f.parameters[i].defaultInit = <<>> ->
             Fails(r.m, "missing argument")
        [] OTHER -> [after EXCEPT !.blocks = r.m.blocks]

Execute(s, d, m) ==
  CASE s.kind = "ExpressionStatement" ->
         IF s.expression.kind = "FunctionCall" THEN ExecuteCall(s.expression, d, m)
                                               ELSE Eval(s.expression, m).m
    [] s.kind = "IfStatement" -> ExecuteIf(s.cases, s.elseCase, d, m)
    [] s.kind = "WhileStatement" ->
         LET r == Eval(s.condition, m)
         IN  IF ~IsTrue(r.value) \/ ~Live(r.m)
               THEN r.m
               ELSE Execute(s, d, ExecuteBlock(s.body, d, r.m))
    [] s.kind = "VariableAssignment" ->
         IF s.initial = <<>>
           THEN IF Declared(s.name, m) THEN m ELSE Declare(s.name, Undefined, m)
           ELSE LET r == Eval(s.initial[1], m) IN WriteVariable(s.name, r.value, r.m)
    [] s.kind = "ExitStatement" ->
         LET r == EvalAll(s.expression, m)
         IN  [r.m EXCEPT !.exited = TRUE,
                         !.code = IF s.expression = <<>> THEN 0
                                  ELSE (CHOOSE n \in CastToInt64(r.value[1]) : TRUE)
                                         % ExitRange]

\* The meaning of a program.
Meaning(d) == ExecuteAll(d.statements, d, NewMachine)

\* What the running interpreter has written, errors without their stack traces.
Plain(entry) ==
  IF entry.stream = "error" THEN [stream |-> "error", message |-> entry.message]
                            ELSE entry
WrittenSoFar == [i \in DOMAIN output |-> Plain(output[i])]
=============================================================================
