---------------------------- MODULE Interpreter ----------------------------
(***************************************************************************)
(* The interpreter: runtime/src/Interpreter.cpp, over the virtual machine. *)
(*                                                                         *)
(* A program is a document: statements and function definitions, trees of  *)
(* records whose "kind" is the ASTNodeType.  Interpreter::Run calls Step   *)
(* while the machine can run.  A Step interprets one statement, and for    *)
(* that evaluates expressions recursively; user functions are not run by   *)
(* the call, which only pushes their scope for later Steps.                *)
(*                                                                         *)
(* The C++ stack of a Step is explicit: `activation` is the call of        *)
(* InterpretStatement, with the scope that Step holds a reference to, and  *)
(* `pending` the calls of InterpretExpression in progress.  `done` holds   *)
(* the values of the operands evaluated so far.                            *)
(***************************************************************************)
EXTENDS VirtualMachine

CONSTANTS
  Expression,   \* the expressions of the programs
  Document      \* the programs

VARIABLES
  document,     \* m_Document
  activation,   \* the statement being interpreted, or NoActivation
  pending,      \* the expressions being evaluated, innermost last
  trapped       \* has a division trap killed the process?

vars == <<scopes, aborting, exitCode, output, document, activation, pending, trapped>>

-----------------------------------------------------------------------------
(* Programs.                                                               *)

BuiltIn == {"Abs", "ConsoleWrite", "ConsoleWriteError", "ConsoleWriteLine",
            "ConsoleWriteErrorLine", "VarGetType"}
OtherBuiltIn == {"BI_Other"}
Macro == {"CR", "CRLF", "LF"}
OtherMacro == {"MK_Other"}

Literals == [kind: {"Literal"}, value: Variant]
\* Array subscripts and function references are not implemented.
Unimplemented ==
  [kind: {"ArraySubscriptExpression", "FunctionReferenceExpression"}]
Binaries  == [kind: {"BinaryExpression"}, operator: BinaryOp,
              lhs: Expression, rhs: Expression]
Unaries   == [kind: {"UnaryExpression"}, operator: UnaryOp, expression: Expression]
Ternaries == [kind: {"TernaryIfExpression"}, condition: Expression,
              ifTrue: Expression, ifFalse: Expression]
Variables == [kind: {"VariableExpression"}, name: Name]
Macros    == [kind: {"MacroExpression"}, macro: Macro \cup OtherMacro]
BuiltInCalls == [kind: {"BuiltInCall"}, function: BuiltIn \cup OtherBuiltIn,
                 arguments: Seq(Expression)]
FunctionCalls == [kind: {"FunctionCall"}, function: FunctionName,
                  arguments: Seq(Expression)]

ASSUME ExpressionAssumption ==
  Expression \subseteq Literals \cup Unimplemented \cup Binaries \cup Unaries
                \cup Ternaries \cup Variables \cup Macros
                \cup BuiltInCalls \cup FunctionCalls

\* An optional expression is a sequence of at most one.
Optional(S) == {<<>>} \cup {<<x>> : x \in S}

ExpressionStatements == [kind: {"ExpressionStatement"}, expression: Expression]
\* cases: the If case, then the ElseIf cases.
IfCase       == [condition: Expression, body: Seq(Statement)]
IfStatements == [kind: {"IfStatement"}, cases: Seq(IfCase) \ {<<>>},
                 elseCase: Seq(Statement)]
WhileStatements == [kind: {"WhileStatement"}, condition: Expression,
                    body: Seq(Statement)]
VariableScope == {"Auto", "Global", "Local", "Static"}
VariableAssignments == [kind: {"VariableAssignment"}, name: Name,
                        scope: VariableScope, initial: Optional(Expression)]
ExitStatements == [kind: {"ExitStatement"}, expression: Optional(Expression)]

ASSUME StatementAssumption ==
  Statement \subseteq ExpressionStatements \cup IfStatements \cup WhileStatements
               \cup VariableAssignments \cup ExitStatements

\* The initialisation of a default is empty when the parameter has none.
Parameter == [name: Name, defaultInit: Seq(Statement)]
FunctionDefinition == [name: FunctionName, parameters: Seq(Parameter),
                       body: Seq(Statement)]

ASSUME DocumentAssumption ==
  Document \subseteq [statements: Seq(Statement), functions: Seq(FunctionDefinition)]

-----------------------------------------------------------------------------
(* The state of a Step.                                                    *)

NoActivation == [statement |-> "none"]
Activation ==
  {NoActivation} \cup [statement: Statement, scope: Nat, done: Seq(Variant)]
Evaluation == [expression: Expression, done: Seq(Variant)]

TypeOK ==
  /\ VMTypeOK
  /\ document \in Document
  /\ activation \in Activation
  /\ pending \in Seq(Evaluation)
  /\ trapped \in BOOLEAN

\* main.cpp: SetDocument, then Run.
Init ==
  /\ VMInit
  /\ document \in Document
  /\ scopes = PushGlobalScope(<<>>, document.statements)
  /\ activation = NoActivation
  /\ pending = <<>>
  /\ trapped = FALSE

\* No step of the process is in progress, and Run would take one.
Running == CanRun(scopes, aborting) /\ ~trapped
Idle    == activation = NoActivation

\* Run has returned, or the process is gone.
Stopped == Idle /\ ~Running

-----------------------------------------------------------------------------
(* Step.                                                                   *)

\* The scope ran out of statements.
PopFinishedScope ==
  /\ Idle /\ Running
  /\ CurrentScope(scopes).index >= Len(CurrentScope(scopes).statements)
  /\ scopes' = PopScope(scopes)
  /\ UNCHANGED <<aborting, exitCode, output, document, activation, pending, trapped>>

GetCurrentStatement(scope) == scope.statements[scope.index + 1]

\* Slip: the index advanced before the statement instead of after it.
BeginStatementAdvanced ==
  /\ Idle /\ Running
  /\ CurrentScope(scopes).index < Len(CurrentScope(scopes).statements)
  /\ activation' = [statement |-> GetCurrentStatement(CurrentScope(scopes)),
                    scope     |-> Len(scopes),
                    done      |-> <<>>]
  /\ scopes' = [scopes EXCEPT ![Len(scopes)].index = @ + 1]
  /\ UNCHANGED <<aborting, exitCode, output, document, pending, trapped>>

BeginStatement ==
  /\ Idle /\ Running
  /\ CurrentScope(scopes).index < Len(CurrentScope(scopes).statements)
  /\ activation' = [statement |-> GetCurrentStatement(CurrentScope(scopes)),
                    scope     |-> Len(scopes),
                    done      |-> <<>>]
  /\ UNCHANGED <<scopes, aborting, exitCode, output, document, pending, trapped>>

NextStatement(scope) == [scope EXCEPT !.index = @ + 1]

\* Slip: the scope looked up anew after the statement.
AdvanceCurrent(s, position) ==
  IF CanRun(s, aborting) THEN [s EXCEPT ![Len(s)] = NextStatement(@)] ELSE s

\* Slip: the scope stays at its statement.
AdvanceNothing(s, position) == s

\* InterpretStatement returned Yes and left the scopes s: Step advances the
\* scope it started in, whatever was pushed above it.
Advance(s, position) ==
  IF CanRun(s, aborting) THEN [s EXCEPT ![position] = NextStatement(@)] ELSE s

FinishStatement(s) ==
  /\ scopes' = Advance(s, activation.scope)
  /\ activation' = NoActivation

-----------------------------------------------------------------------------
(* InterpretStatement.                                                     *)

InStatement(kind) ==
  /\ ~Idle /\ pending = <<>> /\ ~trapped
  /\ activation.statement.kind = kind

IsTrue(v) == CastToBoolean(v).boolean

\* The expressions a statement evaluates, in order, as far as it goes.
StatementOperands(statement) ==
  CASE statement.kind = "ExpressionStatement" -> <<statement.expression>>
    [] statement.kind = "IfStatement" ->
         [i \in DOMAIN statement.cases |-> statement.cases[i].condition]
    [] statement.kind = "WhileStatement"     -> <<statement.condition>>
    [] statement.kind = "VariableAssignment" -> statement.initial
    [] statement.kind = "ExitStatement"      -> statement.expression

\* The number of the last condition evaluated, and whether it was true.
Tried(a)      == Len(a.done)
LastIsTrue(a) == a.done # <<>> /\ IsTrue(a.done[Len(a.done)])

Evaluating(e) == [expression |-> e, done |-> <<>>]

\* An ElseIf condition is evaluated only when those before it were false.
EvaluateStatementOperand ==
  /\ ~Idle /\ pending = <<>> /\ ~trapped
  /\ Len(activation.done) < Len(StatementOperands(activation.statement))
  /\ activation.statement.kind = "IfStatement" => ~LastIsTrue(activation)
  /\ pending' = <<Evaluating(
                    StatementOperands(activation.statement)[Len(activation.done) + 1])>>
  /\ UNCHANGED <<scopes, aborting, exitCode, output, document, activation, trapped>>

FinishExpressionStatement ==
  /\ InStatement("ExpressionStatement")
  /\ activation.done # <<>>
  /\ FinishStatement(scopes)
  /\ UNCHANGED <<aborting, exitCode, output, document, pending, trapped>>

TakeIfCase ==
  /\ InStatement("IfStatement")
  /\ LastIsTrue(activation)
  /\ FinishStatement(
       PushBlockScope(scopes, activation.statement.cases[Tried(activation)].body))
  /\ UNCHANGED <<aborting, exitCode, output, document, pending, trapped>>

\* Slip: unfinished, as a While is.
TakeElseCaseAgain ==
  /\ InStatement("IfStatement")
  /\ Tried(activation) = Len(activation.statement.cases)
  /\ ~LastIsTrue(activation)
  /\ scopes' = PushBlockScope(scopes, activation.statement.elseCase)
  /\ activation' = NoActivation
  /\ UNCHANGED <<aborting, exitCode, output, document, pending, trapped>>

\* The scope of the Else case is pushed even when there is no Else.
TakeElseCase ==
  /\ InStatement("IfStatement")
  /\ Tried(activation) = Len(activation.statement.cases)
  /\ ~LastIsTrue(activation)
  /\ FinishStatement(PushBlockScope(scopes, activation.statement.elseCase))
  /\ UNCHANGED <<aborting, exitCode, output, document, pending, trapped>>

\* The value goes to the current scope, which is a called function's if the
\* expression called one.  The scope keyword is not looked at.
AssignVariable ==
  /\ InStatement("VariableAssignment")
  /\ activation.done # <<>>
  /\ FinishStatement(
       PushOrAssignVariable(scopes, activation.statement.name, activation.done[1]))
  /\ UNCHANGED <<aborting, exitCode, output, document, pending, trapped>>

DeclareVariable ==
  /\ InStatement("VariableAssignment")
  /\ activation.statement.initial = <<>>
  /\ FinishStatement(PushVariable(scopes, activation.statement.name, Undefined))
  /\ UNCHANGED <<aborting, exitCode, output, document, pending, trapped>>

\* Slip: finished, as an If is.
EnterWhileOnce ==
  /\ InStatement("WhileStatement")
  /\ LastIsTrue(activation)
  /\ FinishStatement(PushBlockScope(scopes, activation.statement.body))
  /\ UNCHANGED <<aborting, exitCode, output, document, pending, trapped>>

\* Unfinished: the scope stays at the While, which is interpreted again when
\* the block is done.
EnterWhile ==
  /\ InStatement("WhileStatement")
  /\ LastIsTrue(activation)
  /\ scopes' = PushBlockScope(scopes, activation.statement.body)
  /\ activation' = NoActivation
  /\ UNCHANGED <<aborting, exitCode, output, document, pending, trapped>>

LeaveWhile ==
  /\ InStatement("WhileStatement")
  /\ activation.done # <<>> /\ ~LastIsTrue(activation)
  /\ FinishStatement(scopes)
  /\ UNCHANGED <<aborting, exitCode, output, document, pending, trapped>>

\* The exit code is the low half of the integer.
ExitCodes ==
  IF activation.statement.expression = <<>>
    THEN {0}
    ELSE {n % ExitRange : n \in CastToInt64(activation.done[1])}

InterpretExit ==
  /\ InStatement("ExitStatement")
  /\ Len(activation.done) = Len(activation.statement.expression)
  /\ \E code \in ExitCodes : Exit(code)
  /\ activation' = NoActivation
  /\ UNCHANGED <<aborting, output, document, pending, trapped>>

-----------------------------------------------------------------------------
(* InterpretExpression.                                                    *)

Top == pending[Len(pending)]

\* The expression being evaluated has all its operands.
Applying(kind) ==
  /\ pending # <<>> /\ ~trapped
  /\ Top.expression.kind = kind

\* The operands an expression evaluates before it is applied, in order.
Operands(e) ==
  CASE e.kind = "BinaryExpression"    -> <<e.lhs, e.rhs>>
    [] e.kind = "UnaryExpression"     -> <<e.expression>>
    [] e.kind = "TernaryIfExpression" -> <<e.condition>>
    [] e.kind \in {"BuiltInCall", "FunctionCall"} -> e.arguments
    [] OTHER -> <<>>

AllOperandsDone == Len(Top.done) = Len(Operands(Top.expression))

EvaluateOperand ==
  /\ pending # <<>> /\ ~trapped
  /\ Len(Top.done) < Len(Operands(Top.expression))
  /\ pending' = Append(pending, Evaluating(Operands(Top.expression)[Len(Top.done) + 1]))
  /\ UNCHANGED <<scopes, aborting, exitCode, output, document, activation, trapped>>

WithValue(caller, v) == [caller EXCEPT !.done = Append(@, v)]

\* The innermost evaluation returns v to the one that called it.
Return(v) ==
  LET callers == SubSeq(pending, 1, Len(pending) - 1)
  IN  IF callers = <<>>
        THEN /\ pending' = <<>>
             /\ activation' = WithValue(activation, v)
        ELSE /\ pending' = [callers EXCEPT ![Len(callers)] = WithValue(@, v)]
             /\ UNCHANGED activation

\* Evaluation goes on after a runtime error, with the empty string.
Fail(s, message) ==
  /\ RuntimeError(s, message)
  /\ Return(Undefined)

ReturnPurely(v) ==
  /\ Return(v)
  /\ UNCHANGED <<scopes, aborting, exitCode, output, document, trapped>>

EvaluateLiteral == Applying("Literal") /\ ReturnPurely(Top.expression.value)

EvaluateUnimplemented ==
  /\ Applying("ArraySubscriptExpression") \/ Applying("FunctionReferenceExpression")
  /\ ReturnPurely(Undefined)

EvaluateVariable ==
  /\ Applying("VariableExpression")
  /\ LET name == Top.expression.name
         i    == LookupVariable(scopes, name)
     IN  IF i # 0
           THEN /\ Return(scopes[i].variables[name])
                /\ UNCHANGED <<aborting, output>>
           ELSE Fail(scopes, "no variable")
  /\ UNCHANGED <<scopes, exitCode, document, trapped>>

MacroText(macro) ==
  CASE macro = "CR"   -> <<"\r">>
    [] macro = "LF"   -> <<"\n">>
    [] macro = "CRLF" -> <<"\r", "\n">>

EvaluateMacro ==
  /\ Applying("MacroExpression")
  /\ IF Top.expression.macro \in Macro
       THEN /\ Return(MakeString(MacroText(Top.expression.macro)))
            /\ UNCHANGED <<aborting, output>>
       ELSE Fail(scopes, "macro not implemented")
  /\ UNCHANGED <<scopes, exitCode, document, trapped>>

EvaluateUnary ==
  /\ Applying("UnaryExpression") /\ AllOperandsDone
  /\ ReturnPurely(EvaluateUnaryExpression(Top.done[1], Top.expression.operator))

EvaluateBinary ==
  /\ Applying("BinaryExpression") /\ AllOperandsDone
  /\ ReturnPurely(
       EvaluateBinaryExpression(Top.done[1], Top.done[2], Top.expression.operator))

\* The quotient overflows: on x86 the process is killed in the middle of the
\* statement (elsewhere EvaluateBinary gives what the division yields).
DivisionTrap ==
  /\ Applying("BinaryExpression") /\ AllOperandsDone
  /\ Top.expression.operator = "/"
  /\ Top.done[1].type = "Int64" /\ Top.done[2].type = "Int64"
  /\ DivideOverflows(Top.done[1].int64, Top.done[2].int64)
  /\ trapped' = TRUE
  /\ UNCHANGED <<scopes, aborting, exitCode, output, document, activation, pending>>

\* Slip: the whole expression instead of its branch.
SelectTernaryAgain ==
  /\ Applying("TernaryIfExpression") /\ AllOperandsDone
  /\ pending' = [pending EXCEPT ![Len(pending)] = Evaluating(Top.expression)]
  /\ UNCHANGED <<scopes, aborting, exitCode, output, document, activation, trapped>>

\* Only the chosen branch is evaluated.
SelectTernary ==
  /\ Applying("TernaryIfExpression") /\ AllOperandsDone
  /\ LET e == Top.expression
     IN  pending' = [pending EXCEPT ![Len(pending)] =
                       Evaluating(IF IsTrue(Top.done[1]) THEN e.ifTrue ELSE e.ifFalse)]
  /\ UNCHANGED <<scopes, aborting, exitCode, output, document, activation, trapped>>

-----------------------------------------------------------------------------
(* Function calls.                                                         *)

WriteStream(function) ==
  IF function \in {"ConsoleWrite", "ConsoleWriteLine"} THEN "stdout" ELSE "stderr"

\* A call with the wrong number of arguments does nothing.
CallBuiltIn ==
  /\ Applying("BuiltInCall") /\ AllOperandsDone
  /\ Top.expression.function \in BuiltIn
  /\ LET function == Top.expression.function
         argument == Top.done[1]
         text     == CastToString(argument).string
     IN  IF Len(Top.done) # 1
           THEN Return(Undefined) /\ UNCHANGED output
           ELSE CASE function = "Abs" -> Return(Abs(argument)) /\ UNCHANGED output
                  [] function = "VarGetType" ->
                       Return(GetTypeName(argument)) /\ UNCHANGED output
                  [] OTHER -> /\ WriteTo(WriteStream(function), text)
                              /\ Return(MakeInt(Wrap(Len(text))))
  /\ UNCHANGED <<scopes, aborting, exitCode, document, trapped>>

CallOtherBuiltIn ==
  /\ Applying("BuiltInCall") /\ AllOperandsDone
  /\ Top.expression.function \in OtherBuiltIn
  /\ Fail(scopes, "builtin not implemented")
  /\ UNCHANGED <<scopes, exitCode, document, trapped>>

\* The first definition with the name; none is 0.
LookupFunctionDefinition(name) ==
  LET named == {i \in DOMAIN document.functions : document.functions[i].name = name}
  IN  IF named = {} THEN 0 ELSE Min(named)

\* The parameters that have an argument.
GivenCount(parameters, arguments) ==
  IF Len(arguments) < Len(parameters) THEN Len(arguments) ELSE Len(parameters)

\* The parameters are bound in turn until one has neither an argument nor a
\* default: the number of those bound.
BoundCount(parameters, arguments) ==
  LET unbound == {i \in DOMAIN parameters :
                    i > Len(arguments) /\ parameters[i].defaultInit = <<>>}
  IN  IF unbound = {} THEN Len(parameters) ELSE Min(unbound) - 1

\* What parameter i of a call is first bound to.
ArgumentValue(arguments, i) ==
  IF i <= Len(arguments) THEN arguments[i] ELSE Undefined

\* Variables of a scope in which PushVariable bound the parameters `range`:
\* of two with one name the first stays.
BindParameters(parameters, arguments, range) ==
  [n \in Name |->
     LET same == {i \in range : parameters[i].name = n}
     IN  IF same = {} THEN Unbound ELSE ArgumentValue(arguments, Min(same))]

\* Each default pushes a block that initialises it, and the next parameter is
\* then bound in that block: only the arguments and the first default are
\* bound in the function's own scope.
CalledScope(definition, arguments) ==
  LET parameters == definition.parameters
      given      == GivenCount(parameters, arguments)
      own        == 1 .. (IF given < BoundCount(parameters, arguments) THEN given + 1
                                                                       ELSE given)
  IN  ScopeWith(BindParameters(parameters, arguments, own),
                "Function", definition.name, definition.body)

DefaultScope(definition, arguments, i) ==
  LET parameters == definition.parameters
      next       == {i + 1} \cap 1 .. BoundCount(parameters, arguments)
  IN  ScopeWith(BindParameters(parameters, arguments, next),
                "Block", BlockName, parameters[i].defaultInit)

\* Slip: emplace_back for emplace_front.
PushCallAtBack(s, definition, arguments) == <<CalledScope(definition, arguments)>> \o s

\* The scopes a call pushes.
PushCall(s, definition, arguments) ==
  LET given == GivenCount(definition.parameters, arguments)
      bound == BoundCount(definition.parameters, arguments)
  IN  s \o <<CalledScope(definition, arguments)>>
        \o [k \in 1 .. bound - given |-> DefaultScope(definition, arguments, given + k)]

\* The call itself gives the empty string: the body is for later Steps.
CallFunction ==
  /\ Applying("FunctionCall") /\ AllOperandsDone
  /\ LET i == LookupFunctionDefinition(Top.expression.function)
     IN  /\ i # 0
         /\ LET definition == document.functions[i]
                parameters == definition.parameters
                arguments  == Top.done
                after      == PushCall(scopes, definition, arguments)
            IN  /\ scopes' = after
                /\ IF BoundCount(parameters, arguments) < Len(parameters)
                     THEN Fail(after, "missing argument")
                     ELSE Return(Undefined) /\ UNCHANGED <<aborting, output>>
  /\ UNCHANGED <<exitCode, document, trapped>>

CallUnknownFunction ==
  /\ Applying("FunctionCall") /\ AllOperandsDone
  /\ LookupFunctionDefinition(Top.expression.function) = 0
  /\ Fail(scopes, "function not found")
  /\ UNCHANGED <<scopes, exitCode, document, trapped>>

-----------------------------------------------------------------------------

StepScope == PopFinishedScope \/ BeginStatement

InterpretStatement ==
  \/ EvaluateStatementOperand
  \/ FinishExpressionStatement
  \/ TakeIfCase
  \/ TakeElseCase
  \/ AssignVariable
  \/ DeclareVariable
  \/ EnterWhile
  \/ LeaveWhile
  \/ InterpretExit

InterpretExpression ==
  \/ EvaluateOperand
  \/ EvaluateLiteral
  \/ EvaluateUnimplemented
  \/ EvaluateVariable
  \/ EvaluateMacro
  \/ EvaluateUnary
  \/ EvaluateBinary
  \/ DivisionTrap
  \/ SelectTernary
  \/ CallBuiltIn
  \/ CallOtherBuiltIn
  \/ CallFunction
  \/ CallUnknownFunction

Next == StepScope \/ InterpretStatement \/ InterpretExpression

\* One thread runs the program, and only ends with Run's loop: the next step
\* is always taken.
Spec == Init /\ [][Next]_vars /\ WF_vars(Next)

-----------------------------------------------------------------------------
(* Safety.                                                                 *)

\* Step keeps a reference to the scope it started in while the statement
\* pushes scopes above it (VirtualMachine is a std::list for that).  While the
\* statement is interpreted that scope is there, and it is still at it: the
\* index that Step advances at the end is the statement's.
ActivationScopeLives ==
  ~Idle => /\ activation.scope \in DOMAIN scopes
           /\ LET scope == scopes[activation.scope]
              IN  /\ scope.index < Len(scope.statements)
                  /\ GetCurrentStatement(scope) = activation.statement

\* The back of the scope list is the program's own scope, which lookups take
\* for the global one, and no other scope is: m_Scopes.back() is never a
\* function's or a block's, however many were pushed and popped.
GlobalScopeAtBottom ==
  scopes # <<>> =>
    /\ scopes[1].kind = "Function" /\ scopes[1].name = GlobalName
    /\ scopes[1].statements = document.statements
    /\ \A i \in DOMAIN scopes \ {1} : scopes[i].name # GlobalName

\* Every stack trace RuntimeError prints names the global scope, last and only
\* there, so a reader can follow it from the function that failed to the script.
TracesEndAtGlobal ==
  \A k \in DOMAIN output :
    output[k].stream = "error" =>
      LET trace == output[k].trace
      IN  /\ trace # <<>> /\ trace[Len(trace)] = GlobalName
          /\ \A j \in 1 .. Len(trace) - 1 : trace[j] \in FunctionName

\* A step moves the index of no scope but the one whose statement it finishes,
\* and moves that one by one: a caller, or the owner of a block, that waits
\* below stays where it is until its statement is over.
SuspendedScopesStay ==
  [][\A i \in DOMAIN scopes \cap DOMAIN scopes' :
       scopes'[i].index # scopes[i].index =>
         /\ ~Idle /\ i = activation.scope
         /\ scopes'[i].index = scopes[i].index + 1]_vars

\* The variables of a function that waits for one it called are its own: no
\* step of the callee changes them, unless the function is the script itself.
\* (The same does not hold of the blocks the caller is in.)
SuspendedFunctionsPrivate ==
  [][\A i \in DOMAIN scopes \cap DOMAIN scopes' :
       scopes'[i].variables # scopes[i].variables =>
         \/ i = 1
         \/ scopes[i].kind = "Block"
         \/ \A j \in FunctionScopes(scopes) : j <= i]_vars

-----------------------------------------------------------------------------
(* Liveness.                                                               *)

\* Every statement is over after finitely many steps, whatever it calls: a
\* call to a user function, even a recursive one, does not run the body.
StatementsFinish == ~Idle ~> (Idle \/ trapped)

\* A runtime error ends the script: Run returns.
FailureStopsTheScript == aborting ~> (Stopped \/ trapped)

-----------------------------------------------------------------------------
(* What a script's run promises.                                           *)

Phase ==
  CASE trapped -> "killed"
    [] ~trapped /\ scopes = <<>> -> "ended"
    [] ~trapped /\ scopes # <<>> /\ ~aborting -> "running"
    [] ~trapped /\ scopes # <<>> /\ aborting /\ ~Idle -> "failing"
    [] ~trapped /\ scopes # <<>> /\ aborting /\ Idle -> "failed"

Script == INSTANCE ScriptRun WITH
  Written  <- WriteEntry,
  Reported <- ErrorEntry,
  Code     <- 0 .. ExitRange - 1,
  phase    <- Phase,
  code     <- exitCode,
  log      <- output

\* The interpreter and its machine keep ScriptRun's promise.
ImplementsScriptRun == Script!Spec

-----------------------------------------------------------------------------
(* What comments of the code say, and the code does not do.                *)

\* VirtualMachine.cpp:168 has a function look up names in its own scope, the
\* blocks it is in and the global scope: not in its caller's blocks.
CalleeSeesOnlyGlobals ==
  pending # <<>> /\ Top.expression.kind = "VariableExpression" =>
    LET i == LookupVariable(scopes, Top.expression.name)
    IN  i > 1 => \A j \in FunctionScopes(scopes) : j <= i

\* Interpreter.cpp:447 and :469 have a call bind every parameter in the new
\* function's scope: when the body starts, they are all there.  The code binds
\* a parameter in the current scope, which after a parameter that takes its
\* default value is the block that computes it.
BodyStartsWithParameters ==
  Idle /\ Running =>
    LET scope == CurrentScope(scopes)
        i     == LookupFunctionDefinition(scope.name)
    IN  scope.kind = "Function" /\ scope.index = 0 /\ i # 0 =>
          \A k \in DOMAIN document.functions[i].parameters :
            Holds(scope, document.functions[i].parameters[k].name)

\* VariableScope.hpp:13 calls Local explicitly local: an assignment with that
\* keyword in a function or a block does not touch the global variables.
LocalStaysLocal ==
  [][InStatement("VariableAssignment") /\ activation.statement.scope = "Local" =>
       activation.scope = 1 \/ scopes'[1].variables = scopes[1].variables]_vars
=============================================================================
