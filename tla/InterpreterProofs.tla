------------------------- MODULE InterpreterProofs -------------------------
(***************************************************************************)
(* The interpreter keeps its types, the scope a statement was started in   *)
(* lives until the statement is over, and the global scope is the one at   *)
(* the back of the list, for all programs, values and sizes.               *)
(***************************************************************************)
EXTENDS Interpreter, VirtualMachineProofs

-----------------------------------------------------------------------------
(* Programs.                                                               *)

LEMMA ExpressionKinds ==
  ASSUME NEW e \in Expression
  PROVE  /\ e.kind = "Literal" => e.value \in Variant
         /\ e.kind = "BinaryExpression" =>
              e.operator \in BinaryOp /\ e.lhs \in Expression /\ e.rhs \in Expression
         /\ e.kind = "UnaryExpression" => e.expression \in Expression
         /\ e.kind = "TernaryIfExpression" =>
              e.condition \in Expression /\ e.ifTrue \in Expression /\ e.ifFalse \in Expression
         /\ e.kind = "VariableExpression" => e.name \in Name
         /\ e.kind = "MacroExpression" => e.macro \in Macro \cup OtherMacro
         /\ e.kind = "BuiltInCall" => e.arguments \in Seq(Expression)
         /\ e.kind = "FunctionCall" => e.arguments \in Seq(Expression)
BY ExpressionAssumption
   DEF Literals, Unimplemented, Binaries, Unaries, Ternaries, Variables, Macros,
       BuiltInCalls, FunctionCalls

\* The operands of an expression are expressions.
LEMMA OperandsType ==
  ASSUME NEW e \in Expression
  PROVE  /\ Operands(e) \in Seq(Expression)
         /\ e.kind = "BinaryExpression" => Len(Operands(e)) = 2
         /\ e.kind = "UnaryExpression" => Len(Operands(e)) = 1
         /\ e.kind = "TernaryIfExpression" => Len(Operands(e)) = 1
<1>1. CASE e.kind = "BinaryExpression"
  <2>1. Operands(e) = <<e.lhs, e.rhs>>
    BY <1>1, Zenon DEF Operands
  <2> QED BY <1>1, <2>1, ExpressionKinds
<1>2. CASE e.kind = "UnaryExpression"
  <2>1. Operands(e) = <<e.expression>>
    BY <1>2, Zenon DEF Operands
  <2> QED BY <1>2, <2>1, ExpressionKinds
<1>3. CASE e.kind = "TernaryIfExpression"
  <2>1. Operands(e) = <<e.condition>>
    BY <1>3, Zenon DEF Operands
  <2> QED BY <1>3, <2>1, ExpressionKinds
<1>4. CASE e.kind \in {"BuiltInCall", "FunctionCall"}
  <2>1. Operands(e) = e.arguments
    BY <1>4, Zenon DEF Operands
  <2> QED BY <1>4, <2>1, ExpressionKinds
<1>5. CASE e.kind \notin {"BinaryExpression", "UnaryExpression", "TernaryIfExpression",
                          "BuiltInCall", "FunctionCall"}
  <2>1. Operands(e) = <<>>
    BY <1>5, Zenon DEF Operands
  <2> QED BY <1>5, <2>1
<1> QED BY <1>1, <1>2, <1>3, <1>4, <1>5

LEMMA StatementKinds ==
  ASSUME NEW s \in Statement
  PROVE  /\ s.kind \in {"ExpressionStatement", "IfStatement", "WhileStatement",
                        "VariableAssignment", "ExitStatement"}
         /\ s.kind = "ExpressionStatement" => s.expression \in Expression
         /\ s.kind = "IfStatement" =>
              /\ s.cases \in Seq(IfCase) /\ s.elseCase \in Seq(Statement)
         /\ s.kind = "WhileStatement" =>
              s.condition \in Expression /\ s.body \in Seq(Statement)
         /\ s.kind = "VariableAssignment" =>
              s.name \in Name /\ s.initial \in Optional(Expression)
         /\ s.kind = "ExitStatement" => s.expression \in Optional(Expression)
<1>1. \/ s \in ExpressionStatements \/ s \in IfStatements \/ s \in WhileStatements
      \/ s \in VariableAssignments \/ s \in ExitStatements
  BY StatementAssumption
<1>2. s \in ExpressionStatements =>
        s.kind = "ExpressionStatement" /\ s.expression \in Expression
  BY DEF ExpressionStatements
<1>3. s \in IfStatements =>
        /\ s.kind = "IfStatement" /\ s.cases \in Seq(IfCase) /\ s.elseCase \in Seq(Statement)
  BY DEF IfStatements
<1>4. s \in WhileStatements =>
        /\ s.kind = "WhileStatement" /\ s.condition \in Expression /\ s.body \in Seq(Statement)
  BY DEF WhileStatements
<1>5. s \in VariableAssignments =>
        /\ s.kind = "VariableAssignment" /\ s.name \in Name /\ s.initial \in Optional(Expression)
  BY DEF VariableAssignments
<1>6. s \in ExitStatements =>
        s.kind = "ExitStatement" /\ s.expression \in Optional(Expression)
  BY DEF ExitStatements
<1> QED BY <1>1, <1>2, <1>3, <1>4, <1>5, <1>6

LEMMA OptionalType ==
  ASSUME NEW x \in Optional(Expression)
  PROVE  x \in Seq(Expression) /\ (x # <<>> => Len(x) = 1)
<1>1. CASE x = <<>>
  BY <1>1
<1>2. CASE x # <<>>
  <2>1. PICK e \in Expression : x = <<e>>
    BY <1>2 DEF Optional
  <2> QED BY <2>1
<1> QED BY <1>1, <1>2

\* The expressions a statement evaluates are expressions.
LEMMA StatementOperandsType ==
  ASSUME NEW s \in Statement
  PROVE  /\ StatementOperands(s) \in Seq(Expression)
         /\ s.kind = "IfStatement" => Len(StatementOperands(s)) = Len(s.cases)
         /\ s.kind = "VariableAssignment" => StatementOperands(s) = s.initial
         /\ s.kind = "ExitStatement" => StatementOperands(s) = s.expression
<1>1. CASE s.kind = "ExpressionStatement"
  <2>1. StatementOperands(s) = <<s.expression>>
    BY <1>1, Zenon DEF StatementOperands
  <2> QED BY <1>1, <2>1, StatementKinds
<1>2. CASE s.kind = "IfStatement"
  <2>1. StatementOperands(s) = [i \in DOMAIN s.cases |-> s.cases[i].condition]
    BY <1>2, Zenon DEF StatementOperands
  <2>2. s.cases \in Seq(IfCase)
    BY <1>2, StatementKinds
  <2>3. ASSUME NEW i \in DOMAIN s.cases PROVE s.cases[i].condition \in Expression
    <3>1. s.cases[i] \in IfCase
      BY <2>2
    <3> QED BY <3>1 DEF IfCase
  <2>4. DOMAIN s.cases = 1 .. Len(s.cases) /\ Len(s.cases) \in Nat
    BY <2>2
  <2> QED BY <1>2, <2>1, <2>3, <2>4
<1>3. CASE s.kind = "WhileStatement"
  <2>1. StatementOperands(s) = <<s.condition>>
    BY <1>3, Zenon DEF StatementOperands
  <2> QED BY <1>3, <2>1, StatementKinds
<1>4. CASE s.kind = "VariableAssignment"
  <2>1. StatementOperands(s) = s.initial
    BY <1>4, Zenon DEF StatementOperands
  <2> QED BY <1>4, <2>1, StatementKinds, OptionalType
<1>5. CASE s.kind = "ExitStatement"
  <2>1. StatementOperands(s) = s.expression
    BY <1>5, Zenon DEF StatementOperands
  <2> QED BY <1>5, <2>1, StatementKinds, OptionalType
<1> QED BY <1>1, <1>2, <1>3, <1>4, <1>5, StatementKinds

-----------------------------------------------------------------------------
(* The inductive invariant.                                                *)

\* The calls in progress: each still lacks operands, but the innermost, which
\* may have them all; and so does the statement while it evaluates one.
EvaluationOK ==
  /\ ~Idle => Len(activation.done) <= Len(StatementOperands(activation.statement))
  /\ pending # <<>> =>
       /\ ~Idle
       /\ Len(activation.done) < Len(StatementOperands(activation.statement))
  /\ \A k \in 1 .. Len(pending) :
       /\ Len(pending[k].done) <= Len(Operands(pending[k].expression))
       /\ k # Len(pending) => Len(pending[k].done) < Len(Operands(pending[k].expression))

IInv ==
  /\ TypeOK
  /\ EvaluationOK
  /\ ActivationScopeLives
  /\ WellFormed(scopes, document.statements)

\* What the interpreter works on while it evaluates.
LEMMA InProgress ==
  ASSUME IInv, ~Idle
  PROVE  /\ activation.statement \in Statement
         /\ activation.done \in Seq(Variant)
         /\ activation.scope \in 1 .. Len(scopes)
         /\ scopes # <<>> /\ Len(scopes) \in Nat
         /\ StatementOperands(activation.statement) \in Seq(Expression)
<1>1. activation \in [statement: Statement, scope: Nat, done: Seq(Variant)]
  BY DEF IInv, TypeOK, Activation, Idle
<1>2. activation.scope \in DOMAIN scopes
  BY DEF IInv, ActivationScopeLives
<1>3. scopes \in Seq(Scope)
  BY DEF IInv, TypeOK, VMTypeOK
<1> QED BY <1>1, <1>2, <1>3, StatementOperandsType

\* The innermost evaluation.
LEMMA TopType ==
  ASSUME IInv, pending # <<>>
  PROVE  /\ ~Idle
         /\ Top \in Evaluation
         /\ Top.expression \in Expression
         /\ Top.done \in Seq(Variant)
         /\ Len(pending) \in Nat \ {0}
         /\ Operands(Top.expression) \in Seq(Expression)
<1>1. pending \in Seq(Evaluation) /\ ~Idle
  BY DEF IInv, TypeOK, EvaluationOK
<1>2. Top \in Evaluation /\ Len(pending) \in Nat \ {0}
  BY <1>1 DEF Top
<1> QED BY <1>1, <1>2, OperandsType DEF Evaluation

LEMMA WithValueType ==
  ASSUME NEW v \in Variant
  PROVE  /\ \A e \in Evaluation :
              /\ WithValue(e, v) \in Evaluation
              /\ WithValue(e, v).expression = e.expression
              /\ Len(WithValue(e, v).done) = Len(e.done) + 1
         /\ \A a \in [statement: Statement, scope: Nat, done: Seq(Variant)] :
              /\ WithValue(a, v) \in [statement: Statement, scope: Nat, done: Seq(Variant)]
              /\ WithValue(a, v).statement = a.statement
              /\ WithValue(a, v).scope = a.scope
              /\ Len(WithValue(a, v).done) = Len(a.done) + 1
<1>1. ASSUME NEW e \in Evaluation
      PROVE  /\ WithValue(e, v) \in Evaluation
             /\ WithValue(e, v).expression = e.expression
             /\ Len(WithValue(e, v).done) = Len(e.done) + 1
  <2> DEFINE d == Append(e.done, v)
  <2>1. d \in Seq(Variant) /\ Len(d) = Len(e.done) + 1
    BY <1>1 DEF Evaluation
  <2>2. WithValue(e, v) = [e EXCEPT !.done = d]
    BY DEF WithValue
  <2> HIDE DEF d
  <2>3. WithValue(e, v) \in Evaluation /\ WithValue(e, v).expression = e.expression
        /\ WithValue(e, v).done = d
    BY <1>1, <2>1, <2>2, Zenon DEF Evaluation
  <2> QED BY <2>1, <2>3
<1>2. ASSUME NEW a \in [statement: Statement, scope: Nat, done: Seq(Variant)]
      PROVE  /\ WithValue(a, v) \in [statement: Statement, scope: Nat, done: Seq(Variant)]
             /\ WithValue(a, v).statement = a.statement
             /\ WithValue(a, v).scope = a.scope
             /\ Len(WithValue(a, v).done) = Len(a.done) + 1
  <2> DEFINE d == Append(a.done, v)
  <2>1. d \in Seq(Variant) /\ Len(d) = Len(a.done) + 1
    BY <1>2
  <2>2. WithValue(a, v) = [a EXCEPT !.done = d]
    BY DEF WithValue
  <2> HIDE DEF d
  <2>3. /\ WithValue(a, v) \in [statement: Statement, scope: Nat, done: Seq(Variant)]
        /\ WithValue(a, v).statement = a.statement
        /\ WithValue(a, v).scope = a.scope /\ WithValue(a, v).done = d
    BY <1>2, <2>1, <2>2, Zenon
  <2> QED BY <2>1, <2>3
<1> QED BY <1>1, <1>2

\* What a step leaves of the activation, and of the calls in progress, is as it
\* has to be.
Evaluates ==
  /\ activation' \in Activation
  /\ activation'.statement = activation.statement
  /\ activation'.scope = activation.scope
  /\ pending' \in Seq(Evaluation)
  /\ EvaluationOK'

\* The operands of an expression that is applied are all there: whoever waits
\* for its value gets one it lacks.
LEMMA ReturnEvaluates ==
  ASSUME IInv, pending # <<>>, NEW v \in Variant, Return(v)
  PROVE  Evaluates
<1> DEFINE callers == SubSeq(pending, 1, Len(pending) - 1)
           n == Len(pending) - 1
<1>1. pending \in Seq(Evaluation) /\ Len(pending) \in Nat \ {0} /\ ~Idle
  BY TopType DEF IInv, TypeOK
<1>2. /\ callers \in Seq(Evaluation) /\ Len(callers) = n /\ n \in Nat
      /\ \A i \in 1 .. n : callers[i] = pending[i]
  BY <1>1, FrontType
<1>3. activation \in [statement: Statement, scope: Nat, done: Seq(Variant)]
  BY <1>1 DEF IInv, TypeOK, Activation, Idle
<1>4. /\ Len(activation.done) < Len(StatementOperands(activation.statement))
      /\ Len(StatementOperands(activation.statement)) \in Nat
      /\ Len(activation.done) \in Nat
  BY <1>1, <1>3, InProgress DEF IInv, EvaluationOK
<1>5. CASE callers = <<>>
  <2>1. pending' = <<>> /\ activation' = WithValue(activation, v)
    BY <1>5 DEF Return
  <2>2. /\ WithValue(activation, v) \in [statement: Statement, scope: Nat, done: Seq(Variant)]
        /\ WithValue(activation, v).statement = activation.statement
        /\ WithValue(activation, v).scope = activation.scope
        /\ Len(WithValue(activation, v).done) = Len(activation.done) + 1
    BY <1>3, WithValueType
  <2>3. EvaluationOK'
    BY <1>4, <2>1, <2>2 DEF EvaluationOK
  <2> QED BY <2>1, <2>2, <2>3 DEF Evaluates, Activation
<1>6. CASE callers # <<>>
  <2> DEFINE caller == pending[n]
             resumed == WithValue(caller, v)
  <2>1. n \in 1 .. n /\ n \in 1 .. Len(pending) /\ n # Len(pending) /\ callers[n] = caller
    BY <1>1, <1>2, <1>6
  <2>2. caller \in Evaluation
    BY <1>1, <2>1
  <2>3. /\ resumed \in Evaluation /\ resumed.expression = caller.expression
        /\ Len(resumed.done) = Len(caller.done) + 1
    BY <2>2, WithValueType
  <2>4. pending' = [callers EXCEPT ![n] = resumed] /\ activation' = activation
    BY <1>2, <1>6, <2>1 DEF Return
  <2>5. /\ Len(caller.done) < Len(Operands(caller.expression))
        /\ Len(caller.done) \in Nat /\ Len(Operands(caller.expression)) \in Nat
    BY <2>1, <2>2, OperandsType DEF IInv, EvaluationOK, Evaluation
  <2> HIDE DEF resumed, callers
  <2>6. /\ pending' \in Seq(Evaluation) /\ Len(pending') = n
        /\ \A i \in 1 .. n : pending'[i] = IF i = n THEN resumed ELSE callers[i]
    <3> HIDE DEF n
    <3>1. DOMAIN callers = 1 .. n
      BY <1>2
    <3> QED BY <1>2, <2>1, <2>3, <2>4, <3>1
  <2>7. ASSUME NEW k \in 1 .. n
        PROVE  /\ Len(pending'[k].done) <= Len(Operands(pending'[k].expression))
               /\ k # n => Len(pending'[k].done) < Len(Operands(pending'[k].expression))
    <3>1. CASE k = n
      BY <2>3, <2>5, <2>6, <3>1
    <3>2. CASE k # n
      <4>1. k \in 1 .. Len(pending) /\ k # Len(pending) /\ pending'[k] = pending[k]
        BY <1>1, <1>2, <2>6, <3>2
      <4> QED BY <4>1 DEF IInv, EvaluationOK
    <3> QED BY <3>1, <3>2
  <2>8. EvaluationOK'
    BY <1>1, <1>4, <2>4, <2>6, <2>7 DEF EvaluationOK, Idle
  <2> QED BY <1>3, <2>4, <2>6, <2>8 DEF Evaluates, Activation
<1> QED BY <1>5, <1>6

\* Evaluating an expression of the program.
LEMMA EvaluatingType ==
  ASSUME NEW e \in Expression
  PROVE  /\ Evaluating(e) \in Evaluation /\ Evaluating(e).expression = e
         /\ Len(Evaluating(e).done) = 0 /\ Len(Operands(e)) \in Nat
BY OperandsType DEF Evaluating, Evaluation

\* A statement that has the scopes above it pushed is still the one its scope
\* is at.
LEMMA ActivationStays ==
  ASSUME IInv, ~Idle, Evaluates, Extends(scopes, scopes'), Len(scopes') \in Nat
  PROVE  ActivationScopeLives'
<1>1. activation.scope \in 1 .. Len(scopes) /\ Len(scopes) \in Nat
  BY InProgress
<1>2. activation.scope \in 1 .. Len(scopes') /\ Len(scopes) <= Len(scopes')
  BY <1>1 DEF Extends
<1>3. /\ scopes'[activation.scope].statements = scopes[activation.scope].statements
      /\ scopes'[activation.scope].index = scopes[activation.scope].index
  BY <1>1 DEF Extends
<1>4. scopes' \in Seq(Scope) => DOMAIN scopes' = 1 .. Len(scopes')
  OBVIOUS
<1> QED BY <1>1, <1>2, <1>3, <1>4 DEF IInv, ActivationScopeLives, Evaluates, GetCurrentStatement

-----------------------------------------------------------------------------
(* What the actions have in common.                                        *)

MachineOK ==
  /\ aborting \in BOOLEAN
  /\ exitCode \in 0 .. ExitRange - 1
  /\ output \in Seq(Output)
  /\ trapped \in BOOLEAN

\* No statement is being interpreted after the step.
LEMMA IdleAfter ==
  ASSUME IInv, WellFormed(scopes', document.statements), document' = document,
         activation' = NoActivation, pending' = <<>>, MachineOK'
  PROVE  IInv'
<1>1. TypeOK'
  BY DEF IInv, TypeOK, VMTypeOK, MachineOK, WellFormed, Scopes, Activation
<1>2. EvaluationOK' /\ ActivationScopeLives'
  BY DEF EvaluationOK, ActivationScopeLives, Idle
<1> QED BY <1>1, <1>2 DEF IInv

\* The statement goes on after the step.
LEMMA EvaluatingAfter ==
  ASSUME IInv, ~Idle, WellFormed(scopes', document.statements), document' = document,
         Extends(scopes, scopes'), Evaluates, MachineOK'
  PROVE  IInv'
<1>1. scopes' \in Seq(Scope) /\ Len(scopes') \in Nat
  BY DEF WellFormed, Scopes
<1>2. TypeOK'
  BY <1>1 DEF IInv, TypeOK, VMTypeOK, MachineOK, Evaluates
<1>3. ActivationScopeLives'
  BY <1>1, ActivationStays
<1> QED BY <1>2, <1>3 DEF IInv, Evaluates

\* The statement goes on after a step that does nothing to the scopes.
LEMMA EvaluatingAfterNoPush ==
  ASSUME IInv, ~Idle, UNCHANGED <<scopes, document>>, Evaluates, MachineOK'
  PROVE  IInv'
<1>1. Extends(scopes, scopes')
  BY DEF IInv, TypeOK, VMTypeOK, Extends
<1>2. WellFormed(scopes', document.statements)
  BY DEF IInv
<1> QED BY <1>1, <1>2, EvaluatingAfter

LEMMA RuntimeErrorType ==
  ASSUME IInv, NEW s \in Scopes, NEW message \in RuntimeErrorKind, RuntimeError(s, message)
  PROVE  aborting' = TRUE /\ output' \in Seq(Output)
<1> DEFINE entry == [stream |-> "error", message |-> message, trace |-> GetStackTrace(s)]
<1>1. entry \in Output
  BY GetStackTraceType DEF Output, ErrorEntry
<1>2. output \in Seq(Output)
  BY DEF IInv, TypeOK, VMTypeOK
<1>3. output' = Append(output, entry) /\ aborting' = TRUE
  BY DEF RuntimeError
<1> HIDE DEF entry
<1> QED BY <1>1, <1>2, <1>3

LEMMA NextStatementType ==
  ASSUME NEW scope \in Scope
  PROVE  /\ NextStatement(scope) \in Scope
         /\ NextStatement(scope).kind = scope.kind
         /\ NextStatement(scope).name = scope.name
         /\ NextStatement(scope).statements = scope.statements
         /\ NextStatement(scope).index = scope.index + 1
<1> DEFINE next == scope.index + 1
<1>1. next \in Nat
  BY ScopeFields
<1>2. NextStatement(scope) = [scope EXCEPT !.index = next]
  BY Zenon DEF NextStatement
<1> HIDE DEF next
<1>3. /\ NextStatement(scope) \in Scope /\ NextStatement(scope).kind = scope.kind
      /\ NextStatement(scope).name = scope.name
      /\ NextStatement(scope).statements = scope.statements
      /\ NextStatement(scope).index = next
  BY <1>1, <1>2, Zenon DEF Scope
<1> QED BY <1>3 DEF next

\* A scope that has a statement left may go on to the next.
LEMMA AdvanceWellFormed ==
  ASSUME NEW s, NEW body, WellFormed(s, body), NEW i \in 1 .. Len(s),
         s[i].index < Len(s[i].statements)
  PROVE  WellFormed(Advance(s, i), body)
<1> DEFINE q == NextStatement(s[i])
           t == [s EXCEPT ![i] = q]
<1>1. s \in Seq(Scope) /\ s[i] \in Scope /\ Len(s) \in Nat
  BY DEF WellFormed, Scopes
<1>2. /\ q \in Scope /\ q.kind = s[i].kind /\ q.name = s[i].name
      /\ q.statements = s[i].statements /\ q.index = s[i].index + 1
  BY <1>1, NextStatementType
<1>3. q.index <= Len(q.statements)
  <2>1. s[i].index \in Nat /\ Len(s[i].statements) \in Nat
    BY <1>1, ScopeFields
  <2> QED BY <1>2, <2>1
<1>4. WellFormed(t, body)
  <2> HIDE DEF q
  <2>1. t \in Seq(Scope) /\ Len(t) = Len(s)
    BY <1>1, <1>2
  <2>2. \A j \in 1 .. Len(s) : t[j] = IF j = i THEN q ELSE s[j]
    BY <1>1
  <2> HIDE DEF t
  <2> QED BY <1>2, <1>3, <2>1, <2>2 DEF WellFormed, Pushable, Scopes
<1>5. Advance(s, i) = t \/ Advance(s, i) = s
  BY DEF Advance
<1> QED BY <1>4, <1>5

LEMMA FinishStatementKeeps ==
  ASSUME IInv, ~Idle, pending = <<>>,
         NEW s, WellFormed(s, document.statements), Extends(scopes, s),
         FinishStatement(s),
         UNCHANGED <<aborting, exitCode, output, document, pending, trapped>>
  PROVE  IInv'
<1> DEFINE i == activation.scope
<1>1. i \in 1 .. Len(scopes) /\ Len(scopes) \in Nat
  BY InProgress
<1>2. scopes[i].index < Len(scopes[i].statements)
  BY DEF IInv, ActivationScopeLives
<1>3. Len(s) \in Nat
  BY DEF WellFormed, Scopes
<1>4. i \in 1 .. Len(s) /\ s[i].index < Len(s[i].statements)
  BY <1>1, <1>2, <1>3 DEF Extends
<1>5. WellFormed(Advance(s, i), document.statements)
  BY <1>4, AdvanceWellFormed
<1>6. MachineOK'
  BY DEF IInv, TypeOK, VMTypeOK, MachineOK
<1> QED BY <1>5, <1>6, IdleAfter DEF FinishStatement

-----------------------------------------------------------------------------
(* Calls.                                                                  *)

LEMMA BindParametersType ==
  ASSUME NEW parameters, NEW arguments \in Seq(Variant), NEW range \in SUBSET (Nat \ {0})
  PROVE  BindParameters(parameters, arguments, range) \in [Name -> Binding]
<1>1. ASSUME NEW i \in Nat \ {0} PROVE ArgumentValue(arguments, i) \in Variant
  BY MakeType DEF ArgumentValue
<1>2. ASSUME NEW n \in Name
      PROVE  LET same == {i \in range : parameters[i].name = n}
             IN  (IF same = {} THEN Unbound ELSE ArgumentValue(arguments, Min(same))) \in Binding
  <2> DEFINE same == {i \in range : parameters[i].name = n}
  <2>1. CASE same = {}
    BY <2>1 DEF Binding
  <2>2. CASE same # {}
    <3>1. same \in SUBSET Nat /\ same \subseteq range
      OBVIOUS
    <3>2. Min(same) \in Nat \ {0}
      <4> HIDE DEF same
      <4> QED BY <2>2, <3>1, MinLeast
    <3>3. ArgumentValue(arguments, Min(same)) \in Variant
      BY <1>1, <3>2
    <3> QED BY <2>2, <3>3, Zenon DEF Binding
  <2> QED BY <2>1, <2>2
<1> QED BY <1>2 DEF BindParameters

\* Arguments are bound before defaults, and no more parameters than there are.
LEMMA BoundCountType ==
  ASSUME NEW parameters \in Seq(Parameter), NEW arguments \in Seq(Variant)
  PROVE  /\ GivenCount(parameters, arguments) \in Nat
         /\ BoundCount(parameters, arguments) \in Nat
         /\ GivenCount(parameters, arguments) <= BoundCount(parameters, arguments)
         /\ BoundCount(parameters, arguments) <= Len(parameters)
<1> DEFINE unbound == {i \in DOMAIN parameters :
                         i > Len(arguments) /\ parameters[i].defaultInit = <<>>}
<1>1. Len(parameters) \in Nat /\ Len(arguments) \in Nat
  OBVIOUS
<1>2. CASE unbound = {}
  BY <1>1, <1>2 DEF GivenCount, BoundCount
<1>3. CASE unbound # {}
  <2>1. unbound \in SUBSET Nat /\ \A i \in unbound : i > Len(arguments) /\ i <= Len(parameters)
    OBVIOUS
  <2>2. BoundCount(parameters, arguments) = Min(unbound) - 1
    BY <1>3 DEF BoundCount
  <2> HIDE DEF unbound
  <2>3. Min(unbound) \in Nat /\ Min(unbound) > Len(arguments)
        /\ Min(unbound) <= Len(parameters)
    BY <1>3, <2>1, MinLeast
  <2> QED BY <1>1, <2>2, <2>3 DEF GivenCount
<1> QED BY <1>2, <1>3

LEMMA CalledScopeType ==
  ASSUME NEW definition \in FunctionDefinition, NEW arguments \in Seq(Variant)
  PROVE  LET scope == CalledScope(definition, arguments)
         IN  scope \in Scope /\ scope.index = 0 /\ Pushable(scope)
<1> DEFINE parameters == definition.parameters
           given == GivenCount(parameters, arguments)
           own == 1 .. (IF given < BoundCount(parameters, arguments) THEN given + 1
                                                                    ELSE given)
           variables == BindParameters(parameters, arguments, own)
<1>1. /\ parameters \in Seq(Parameter) /\ definition.name \in FunctionName
      /\ definition.body \in Seq(Statement)
  BY DEF FunctionDefinition
<1>2. own \in SUBSET (Nat \ {0})
  BY <1>1, BoundCountType
<1>3. variables \in [Name -> Binding]
  BY <1>2, BindParametersType
<1>4. CalledScope(definition, arguments)
        = ScopeWith(variables, "Function", definition.name, definition.body)
  BY DEF CalledScope
<1>5. definition.name \in ScopeName /\ "Function" \in {"Function", "Block"}
  BY <1>1 DEF ScopeName
<1> HIDE DEF variables
<1> QED BY <1>1, <1>3, <1>4, <1>5, ScopeWithType DEF Pushable

LEMMA DefaultScopeType ==
  ASSUME NEW definition \in FunctionDefinition, NEW arguments \in Seq(Variant),
         NEW i \in 1 .. Len(definition.parameters)
  PROVE  LET scope == DefaultScope(definition, arguments, i)
         IN  scope \in Scope /\ scope.index = 0 /\ Pushable(scope)
<1> DEFINE parameters == definition.parameters
           next == {i + 1} \cap 1 .. BoundCount(parameters, arguments)
           variables == BindParameters(parameters, arguments, next)
<1>1. parameters \in Seq(Parameter)
  BY DEF FunctionDefinition
<1>2. next \in SUBSET (Nat \ {0})
  BY <1>1, BoundCountType
<1>3. variables \in [Name -> Binding]
  BY <1>2, BindParametersType
<1>4. parameters[i] \in Parameter
  BY <1>1
<1>5. parameters[i].defaultInit \in Seq(Statement)
  BY <1>4 DEF Parameter
<1>6. DefaultScope(definition, arguments, i)
        = ScopeWith(variables, "Block", BlockName, parameters[i].defaultInit)
  BY DEF DefaultScope
<1>7. BlockName \in ScopeName /\ "Block" \in {"Function", "Block"}
  BY DEF ScopeName
<1> HIDE DEF variables
<1> QED BY <1>3, <1>5, <1>6, <1>7, ScopeWithType DEF Pushable

\* A call pushes a function's scope and blocks, and nothing else changes.
LEMMA PushCallWellFormed ==
  ASSUME NEW s, NEW body, WellFormed(s, body), s # <<>>,
         NEW definition \in FunctionDefinition, NEW arguments \in Seq(Variant)
  PROVE  LET t == PushCall(s, definition, arguments)
         IN  WellFormed(t, body) /\ Extends(s, t)
<1> DEFINE given == GivenCount(definition.parameters, arguments)
           bound == BoundCount(definition.parameters, arguments)
           called == CalledScope(definition, arguments)
           defaults == [k \in 1 .. bound - given |->
                          DefaultScope(definition, arguments, given + k)]
<1>1. definition.parameters \in Seq(Parameter)
  BY DEF FunctionDefinition
<1>2. /\ given \in Nat /\ bound \in Nat /\ given <= bound
      /\ bound <= Len(definition.parameters) /\ Len(definition.parameters) \in Nat
  BY <1>1, BoundCountType
<1>3. called \in Scope /\ called.index = 0 /\ Pushable(called)
  BY CalledScopeType
<1>4. ASSUME NEW k \in 1 .. bound - given
      PROVE  LET scope == DefaultScope(definition, arguments, given + k)
             IN  scope \in Scope /\ scope.index = 0 /\ Pushable(scope)
  <2>1. given + k \in 1 .. Len(definition.parameters)
    BY <1>2
  <2> QED BY <2>1, DefaultScopeType
<1>5. PushCall(s, definition, arguments) = (s \o <<called>>) \o defaults
  BY DEF PushCall
<1>6. /\ WellFormed(s \o <<called>>, body) /\ Extends(s, s \o <<called>>)
      /\ s \o <<called>> # <<>>
  <2>1. <<called>> \in Scopes /\ \A i \in 1 .. Len(<<called>>) : <<called>>[i] = called
    BY <1>3 DEF Scopes
  <2> HIDE DEF called
  <2> QED BY <1>3, <2>1, ConcatWellFormed
<1>7. /\ WellFormed((s \o <<called>>) \o defaults, body)
      /\ Extends(s \o <<called>>, (s \o <<called>>) \o defaults)
  <2>1. bound - given \in Nat
    BY <1>2
  <2>2. /\ defaults \in Scopes /\ Len(defaults) = bound - given
        /\ \A k \in 1 .. Len(defaults) : defaults[k].index = 0 /\ Pushable(defaults[k])
    <3> HIDE DEF bound, given
    <3> QED BY <1>4, <2>1 DEF Scopes
  <2> HIDE DEF called, defaults
  <2> QED BY <1>6, <2>2, ConcatWellFormed
<1>8. Len(s) \in Nat /\ Len(s) <= Len(s \o <<called>>)
  BY <1>6 DEF Extends, WellFormed, Scopes
<1>9. Len(s \o <<called>>) \in Nat /\ Len((s \o <<called>>) \o defaults) \in Nat
  <2> HIDE DEF called, defaults
  <2> QED BY <1>6, <1>7 DEF WellFormed, Scopes
<1> HIDE DEF called, defaults
<1> QED BY <1>5, <1>6, <1>7, <1>8, <1>9 DEF Extends

LEMMA WriteToType ==
  ASSUME IInv, NEW stream \in {"stdout", "stderr"}, NEW text \in Text, WriteTo(stream, text)
  PROVE  output' \in Seq(Output)
<1> DEFINE entry == [stream |-> stream, text |-> text]
<1>1. entry \in Output
  BY DEF Output, WriteEntry
<1>2. output \in Seq(Output)
  BY DEF IInv, TypeOK, VMTypeOK
<1>3. output' = IF HasOutputHandler THEN Append(output, entry) ELSE output
  BY DEF WriteTo
<1> HIDE DEF entry
<1> QED BY <1>1, <1>2, <1>3

LEMMA ReturnKeeps ==
  ASSUME IInv, pending # <<>>, NEW v \in Variant, Return(v),
         UNCHANGED <<scopes, document>>, MachineOK'
  PROVE  IInv'
BY ReturnEvaluates, TopType, EvaluatingAfterNoPush

LEMMA ReturnPurelyKeeps ==
  ASSUME IInv, pending # <<>>, NEW v \in Variant, ReturnPurely(v)
  PROVE  IInv'
<1>1. MachineOK'
  BY DEF IInv, TypeOK, VMTypeOK, MachineOK, ReturnPurely
<1> QED BY <1>1, ReturnKeeps DEF ReturnPurely

LEMMA FailKeeps ==
  ASSUME IInv, pending # <<>>, NEW message \in RuntimeErrorKind, Fail(scopes, message),
         UNCHANGED <<scopes, exitCode, document, trapped>>
  PROVE  IInv'
<1>1. scopes \in Scopes
  BY DEF IInv, WellFormed
<1>2. aborting' = TRUE /\ output' \in Seq(Output)
  BY <1>1, RuntimeErrorType DEF Fail
<1>3. MachineOK'
  BY <1>2 DEF IInv, TypeOK, VMTypeOK, MachineOK
<1> QED BY <1>3, ReturnKeeps, MakeType DEF Fail

-----------------------------------------------------------------------------
(* Every step keeps the invariant: Step and InterpretStatement.            *)

LEMMA StepScopeKeeps ==
  ASSUME IInv, StepScope
  PROVE  IInv'
<1>1. Idle /\ scopes # <<>> /\ scopes \in Scopes
  BY DEF StepScope, PopFinishedScope, BeginStatement, Running, CanRun, IInv, WellFormed
<1>2. pending = <<>>
  BY <1>1 DEF IInv, EvaluationOK
<1>3. CASE PopFinishedScope
  <2>1. WellFormed(PopScope(scopes), document.statements)
    BY <1>1, PopScopeWellFormed DEF IInv
  <2>2. MachineOK'
    BY <1>3 DEF IInv, TypeOK, VMTypeOK, MachineOK, PopFinishedScope
  <2> QED BY <1>1, <1>2, <1>3, <2>1, <2>2, IdleAfter DEF PopFinishedScope, Idle
<1>4. CASE BeginStatement
  <2> DEFINE scope == CurrentScope(scopes)
             statement == GetCurrentStatement(scope)
             begun == [statement |-> statement, scope |-> Len(scopes), done |-> <<>>]
  <2>1. scope \in Scope /\ Len(scopes) \in 1 .. Len(scopes) /\ Len(scopes) \in Nat
    BY <1>1, CurrentScopeType
  <2>2. scope.index \in Nat /\ scope.statements \in Seq(Statement)
    BY <2>1, ScopeFields
  <2>3. scope.index < Len(scope.statements)
    BY <1>4 DEF BeginStatement
  <2>4. statement \in Statement
    <3> HIDE DEF scope
    <3> QED BY <2>2, <2>3 DEF GetCurrentStatement
  <2>5. activation' = begun /\ UNCHANGED <<scopes, aborting, exitCode, output, document,
                                            pending, trapped>>
    BY <1>4 DEF BeginStatement
  <2>6. begun \in Activation /\ begun.statement = statement
        /\ begun.scope = Len(scopes) /\ Len(begun.done) = 0
    <3> HIDE DEF statement
    <3> QED BY <2>1, <2>4 DEF Activation
  <2>7. Len(StatementOperands(statement)) \in Nat
    BY <2>4, StatementOperandsType
  <2> HIDE DEF begun, statement
  <2>8. TypeOK'
    BY <2>5, <2>6 DEF IInv, TypeOK, VMTypeOK
  <2>9. EvaluationOK'
    BY <1>2, <2>5, <2>6, <2>7 DEF EvaluationOK
  <2>10. ActivationScopeLives'
    <3>1. scopes[Len(scopes)] = scope /\ Len(scopes) \in DOMAIN scopes
      BY <1>1, <2>1 DEF CurrentScope, Scopes
    <3> QED BY <2>3, <2>5, <2>6, <3>1 DEF ActivationScopeLives, statement
  <2> QED BY <2>5, <2>8, <2>9, <2>10 DEF IInv
<1> QED BY <1>3, <1>4 DEF StepScope

LEMMA InterpretStatementKeeps ==
  ASSUME IInv, InterpretStatement
  PROVE  IInv'
<1> DEFINE statement == activation.statement
<1>1. ~Idle /\ pending = <<>> /\ pending \in Seq(Evaluation)
  BY DEF InterpretStatement, EvaluateStatementOperand, FinishExpressionStatement,
         TakeIfCase, TakeElseCase, AssignVariable, DeclareVariable, EnterWhile,
         LeaveWhile, InterpretExit, InStatement, IInv, TypeOK
<1>2. /\ statement \in Statement /\ activation.done \in Seq(Variant)
      /\ scopes # <<>> /\ Len(scopes) \in Nat
      /\ StatementOperands(statement) \in Seq(Expression)
  BY <1>1, InProgress
<1>3. WellFormed(scopes, document.statements) /\ scopes \in Scopes
  BY DEF IInv, WellFormed
<1>4. Extends(scopes, scopes)
  BY <1>2 DEF Extends
<1>5. Len(activation.done) <= Len(StatementOperands(statement))
  BY <1>1 DEF IInv, EvaluationOK
<1>6. CASE EvaluateStatementOperand
  <2> DEFINE e == StatementOperands(statement)[Len(activation.done) + 1]
  <2>1. Len(activation.done) < Len(StatementOperands(statement))
        /\ pending' = <<Evaluating(e)>>
        /\ UNCHANGED <<scopes, aborting, exitCode, output, document, activation, trapped>>
    BY <1>6 DEF EvaluateStatementOperand
  <2>2. e \in Expression
    BY <1>2, <2>1
  <2> HIDE DEF e
  <2>3. /\ Evaluating(e) \in Evaluation /\ Evaluating(e).expression = e
        /\ Len(Evaluating(e).done) = 0 /\ Len(Operands(e)) \in Nat
    BY <2>2, EvaluatingType
  <2>4. pending' \in Seq(Evaluation) /\ Len(pending') = 1 /\ pending'[1] = Evaluating(e)
    BY <2>1, <2>3
  <2>5. EvaluationOK'
    BY <1>1, <1>5, <2>1, <2>3, <2>4 DEF EvaluationOK, Idle
  <2>6. MachineOK' /\ Evaluates
    BY <2>1, <2>4, <2>5 DEF IInv, TypeOK, VMTypeOK, MachineOK, Evaluates
  <2> QED BY <1>1, <2>1, <2>6, EvaluatingAfterNoPush
<1>7. CASE FinishExpressionStatement
  BY <1>1, <1>3, <1>4, <1>7, FinishStatementKeeps DEF FinishExpressionStatement
<1>8. CASE TakeIfCase
  <2> DEFINE body == statement.cases[Tried(activation)].body
  <2>1. statement.kind = "IfStatement" /\ activation.done # <<>>
    BY <1>8 DEF TakeIfCase, InStatement, LastIsTrue
  <2>2. statement.cases \in Seq(IfCase)
        /\ Len(StatementOperands(statement)) = Len(statement.cases)
    BY <1>2, <2>1, StatementKinds, StatementOperandsType
  <2>3. Tried(activation) \in 1 .. Len(statement.cases)
    BY <1>2, <1>5, <2>1, <2>2 DEF Tried
  <2>4. statement.cases[Tried(activation)] \in IfCase
    BY <2>2, <2>3
  <2>5. body \in Seq(Statement)
    BY <2>4 DEF IfCase
  <2>6. FinishStatement(PushBlockScope(scopes, body))
        /\ UNCHANGED <<aborting, exitCode, output, document, pending, trapped>>
    BY <1>8 DEF TakeIfCase
  <2> HIDE DEF body
  <2> QED BY <1>1, <1>2, <1>3, <2>5, <2>6, PushBlockScopeWellFormed, FinishStatementKeeps
<1>9. CASE TakeElseCase
  <2> DEFINE body == statement.elseCase
  <2>1. body \in Seq(Statement)
    BY <1>2, <1>9, StatementKinds DEF TakeElseCase, InStatement
  <2>2. FinishStatement(PushBlockScope(scopes, body))
        /\ UNCHANGED <<aborting, exitCode, output, document, pending, trapped>>
    BY <1>9 DEF TakeElseCase
  <2> HIDE DEF body
  <2> QED BY <1>1, <1>2, <1>3, <2>1, <2>2, PushBlockScopeWellFormed, FinishStatementKeeps
<1>10. CASE AssignVariable
  <2> DEFINE s == PushOrAssignVariable(scopes, statement.name, activation.done[1])
  <2>1. statement.name \in Name /\ activation.done[1] \in Variant
    BY <1>2, <1>10, StatementKinds DEF AssignVariable, InStatement
  <2>2. FinishStatement(s)
        /\ UNCHANGED <<aborting, exitCode, output, document, pending, trapped>>
    BY <1>10 DEF AssignVariable
  <2>3. WellFormed(s, document.statements) /\ Extends(scopes, s)
    BY <1>2, <1>3, <2>1, PushOrAssignVariableType, SameButVariablesWellFormed
  <2> HIDE DEF s
  <2> QED BY <1>1, <2>2, <2>3, FinishStatementKeeps
<1>11. CASE DeclareVariable
  <2> DEFINE s == PushVariable(scopes, statement.name, Undefined)
  <2>1. statement.name \in Name /\ Undefined \in Variant
    BY <1>2, <1>11, StatementKinds, MakeType DEF DeclareVariable, InStatement
  <2>2. FinishStatement(s)
        /\ UNCHANGED <<aborting, exitCode, output, document, pending, trapped>>
    BY <1>11 DEF DeclareVariable
  <2>3. WellFormed(s, document.statements) /\ Extends(scopes, s)
    BY <1>2, <1>3, <2>1, PushVariableType, SameButVariablesWellFormed
  <2> HIDE DEF s
  <2> QED BY <1>1, <2>2, <2>3, FinishStatementKeeps
<1>12. CASE EnterWhile
  <2> DEFINE body == statement.body
  <2>1. body \in Seq(Statement)
    BY <1>2, <1>12, StatementKinds DEF EnterWhile, InStatement
  <2>2. /\ scopes' = PushBlockScope(scopes, body) /\ activation' = NoActivation
        /\ UNCHANGED <<aborting, exitCode, output, document, pending, trapped>>
    BY <1>12 DEF EnterWhile
  <2> HIDE DEF body
  <2>3. WellFormed(scopes', document.statements)
    BY <1>2, <1>3, <2>1, <2>2, PushBlockScopeWellFormed
  <2>4. MachineOK'
    BY <2>2 DEF IInv, TypeOK, VMTypeOK, MachineOK
  <2> QED BY <1>1, <2>2, <2>3, <2>4, IdleAfter
<1>13. CASE LeaveWhile
  BY <1>1, <1>3, <1>4, <1>13, FinishStatementKeeps DEF LeaveWhile
<1>14. CASE InterpretExit
  <2>1. ExitCodes \subseteq 0 .. ExitRange - 1
    <3>1. CASE statement.expression = <<>>
      BY <3>1, ExitRangeAssumption DEF ExitCodes
    <3>2. CASE statement.expression # <<>>
      <4>1. Len(activation.done) = 1
        BY <1>2, <1>14, <3>2, StatementKinds, OptionalType DEF InterpretExit, InStatement
      <4>2. CastToInt64(activation.done[1]) \subseteq Int
        <5>1. activation.done[1] \in Variant
          BY <1>2, <4>1
        <5> QED BY <5>1, CastToInt64Type, Int64Ints
      <4>3. \A n \in Int : n % ExitRange \in 0 .. ExitRange - 1
        BY ExitRangeAssumption
      <4> QED BY <3>2, <4>2, <4>3 DEF ExitCodes
    <3> QED BY <3>1, <3>2
  <2>2. /\ scopes' = <<>> /\ activation' = NoActivation
        /\ exitCode' \in 0 .. ExitRange - 1
        /\ UNCHANGED <<aborting, output, document, pending, trapped>>
    BY <1>14, <2>1 DEF InterpretExit, Exit
  <2>3. WellFormed(<<>>, document.statements)
    BY DEF WellFormed, Scopes
  <2>4. MachineOK'
    BY <2>2 DEF IInv, TypeOK, VMTypeOK, MachineOK
  <2> QED BY <1>1, <2>2, <2>3, <2>4, IdleAfter
<1> QED BY <1>6, <1>7, <1>8, <1>9, <1>10, <1>11, <1>12, <1>13, <1>14
        DEF InterpretStatement

-----------------------------------------------------------------------------
(* Every step keeps the invariant: InterpretExpression.                    *)

LEMMA EvaluateOperandKeeps ==
  ASSUME IInv, EvaluateOperand
  PROVE  IInv'
<1> DEFINE n == Len(pending)
           e == Operands(Top.expression)[Len(Top.done) + 1]
<1>1. /\ pending # <<>> /\ Len(Top.done) < Len(Operands(Top.expression))
      /\ pending' = Append(pending, Evaluating(e))
      /\ UNCHANGED <<scopes, aborting, exitCode, output, document, activation, trapped>>
  BY DEF EvaluateOperand
<1>2. ~Idle /\ Top.done \in Seq(Variant) /\ Operands(Top.expression) \in Seq(Expression)
  BY <1>1, TopType
<1>3. pending \in Seq(Evaluation) /\ n \in Nat \ {0} /\ Top = pending[n]
  BY <1>1 DEF IInv, TypeOK, Top
<1>4. e \in Expression
  BY <1>1, <1>2
<1> HIDE DEF e
<1>5. /\ Evaluating(e) \in Evaluation /\ Evaluating(e).expression = e
      /\ Len(Evaluating(e).done) = 0 /\ Len(Operands(e)) \in Nat
  BY <1>4, EvaluatingType
<1>6. /\ pending' \in Seq(Evaluation) /\ Len(pending') = n + 1
      /\ pending'[n + 1] = Evaluating(e) /\ \A i \in 1 .. n : pending'[i] = pending[i]
  BY <1>1, <1>3, <1>5
<1>7. ASSUME NEW k \in 1 .. n + 1
      PROVE  /\ Len(pending'[k].done) <= Len(Operands(pending'[k].expression))
             /\ k # n + 1 => Len(pending'[k].done) < Len(Operands(pending'[k].expression))
  <2>1. CASE k = n + 1
    BY <1>5, <1>6, <2>1
  <2>2. CASE k # n + 1
    <3>1. k \in 1 .. n /\ pending'[k] = pending[k]
      BY <1>3, <1>6, <2>2
    <3>2. k = n => Len(pending[k].done) < Len(Operands(pending[k].expression))
      BY <1>1, <1>3
    <3> QED BY <2>2, <3>1, <3>2 DEF IInv, EvaluationOK
  <2> QED BY <2>1, <2>2
<1>8. EvaluationOK'
  <2>1. /\ Len(activation.done) < Len(StatementOperands(activation.statement))
        /\ Len(activation.done) <= Len(StatementOperands(activation.statement))
    BY <1>1, <1>2 DEF IInv, EvaluationOK
  <2> QED BY <1>1, <1>2, <1>6, <1>7, <2>1 DEF EvaluationOK, Idle
<1>9. MachineOK' /\ Evaluates
  BY <1>1, <1>6, <1>8 DEF IInv, TypeOK, VMTypeOK, MachineOK, Evaluates
<1> QED BY <1>1, <1>2, <1>9, EvaluatingAfterNoPush

LEMMA SelectTernaryKeeps ==
  ASSUME IInv, SelectTernary
  PROVE  IInv'
<1> DEFINE n == Len(pending)
           e == IF IsTrue(Top.done[1]) THEN Top.expression.ifTrue ELSE Top.expression.ifFalse
<1>1. /\ pending # <<>> /\ Top.expression.kind = "TernaryIfExpression"
      /\ pending' = [pending EXCEPT ![n] = Evaluating(e)]
      /\ UNCHANGED <<scopes, aborting, exitCode, output, document, activation, trapped>>
  BY DEF SelectTernary, Applying
<1>2. ~Idle /\ Top.expression \in Expression
  BY <1>1, TopType
<1>3. pending \in Seq(Evaluation) /\ n \in Nat \ {0}
  BY <1>1 DEF IInv, TypeOK
<1>4. e \in Expression
  BY <1>1, <1>2, ExpressionKinds
<1> HIDE DEF e
<1>5. /\ Evaluating(e) \in Evaluation /\ Evaluating(e).expression = e
      /\ Len(Evaluating(e).done) = 0 /\ Len(Operands(e)) \in Nat
  BY <1>4, EvaluatingType
<1>6. /\ pending' \in Seq(Evaluation) /\ Len(pending') = n
      /\ \A i \in 1 .. n : pending'[i] = IF i = n THEN Evaluating(e) ELSE pending[i]
  BY <1>1, <1>3, <1>5
<1>7. ASSUME NEW k \in 1 .. n
      PROVE  /\ Len(pending'[k].done) <= Len(Operands(pending'[k].expression))
             /\ k # n => Len(pending'[k].done) < Len(Operands(pending'[k].expression))
  BY <1>5, <1>6 DEF IInv, EvaluationOK
<1>8. EvaluationOK'
  <2>1. /\ Len(activation.done) < Len(StatementOperands(activation.statement))
        /\ Len(activation.done) <= Len(StatementOperands(activation.statement))
    BY <1>1, <1>2 DEF IInv, EvaluationOK
  <2> QED BY <1>1, <1>2, <1>6, <1>7, <2>1 DEF EvaluationOK, Idle
<1>9. MachineOK' /\ Evaluates
  BY <1>1, <1>6, <1>8 DEF IInv, TypeOK, VMTypeOK, MachineOK, Evaluates
<1> QED BY <1>1, <1>2, <1>9, EvaluatingAfterNoPush

LEMMA EvaluateVariableKeeps ==
  ASSUME IInv, EvaluateVariable
  PROVE  IInv'
<1> DEFINE name == Top.expression.name
           i == LookupVariable(scopes, name)
<1>1. /\ pending # <<>> /\ Top.expression.kind = "VariableExpression"
      /\ UNCHANGED <<scopes, exitCode, document, trapped>>
  BY DEF EvaluateVariable, Applying
<1>2. name \in Name
  BY <1>1, TopType, ExpressionKinds
<1>3. CASE i # 0
  <2> DEFINE v == scopes[i].variables[name]
  <2>1. scopes \in Scopes
    BY DEF IInv, WellFormed
  <2>2. i \in DOMAIN scopes /\ Holds(scopes[i], name)
    BY <1>3, <2>1, LookupFound
  <2>3. scopes[i] \in Scope
    BY <2>1, <2>2 DEF Scopes
  <2>4. v \in Variant
    BY <1>2, <2>2, <2>3, HeldIsVariant
  <2>5. Return(v) /\ UNCHANGED <<aborting, output>>
    BY <1>3 DEF EvaluateVariable
  <2> HIDE DEF v
  <2>6. MachineOK'
    BY <1>1, <2>5 DEF IInv, TypeOK, VMTypeOK, MachineOK
  <2> QED BY <1>1, <2>4, <2>5, <2>6, ReturnKeeps
<1>4. CASE i = 0
  <2>1. Fail(scopes, "no variable") /\ "no variable" \in RuntimeErrorKind
    BY <1>4 DEF EvaluateVariable, RuntimeErrorKind
  <2> QED BY <1>1, <2>1, FailKeeps
<1> QED BY <1>3, <1>4

LEMMA EvaluateMacroKeeps ==
  ASSUME IInv, EvaluateMacro
  PROVE  IInv'
<1> DEFINE macro == Top.expression.macro
           v == MakeString(MacroText(macro))
<1>1. /\ pending # <<>> /\ UNCHANGED <<scopes, exitCode, document, trapped>>
  BY DEF EvaluateMacro, Applying
<1>2. CASE macro \in Macro
  <2>1. MacroText(macro) \in Text
    <3>1. <<"\r">> \in Text /\ <<"\n">> \in Text /\ <<"\r", "\n">> \in Text
      <4>1. "\r" \in Char /\ "\n" \in Char
        <5>1. Blank \subseteq Char
          BY CharAssumption
        <5>2. "\r" \in Blank /\ "\n" \in Blank
          BY Zenon DEF Blank
        <5> QED BY <5>1, <5>2, Zenon
      <4> QED BY <4>1 DEF Text
    <3>2. macro = "CR" \/ macro = "LF" \/ macro = "CRLF"
      BY <1>2 DEF Macro
    <3> QED BY <3>1, <3>2, Zenon DEF MacroText
  <2>2. v \in Variant
    BY <2>1, MakeType
  <2>3. Return(v) /\ UNCHANGED <<aborting, output>>
    BY <1>2 DEF EvaluateMacro
  <2> HIDE DEF v
  <2>4. MachineOK'
    BY <1>1, <2>3 DEF IInv, TypeOK, VMTypeOK, MachineOK
  <2> QED BY <1>1, <2>2, <2>3, <2>4, ReturnKeeps
<1>3. CASE macro \notin Macro
  <2>1. Fail(scopes, "macro not implemented") /\ "macro not implemented" \in RuntimeErrorKind
    BY <1>3 DEF EvaluateMacro, RuntimeErrorKind
  <2> QED BY <1>1, <2>1, FailKeeps
<1> QED BY <1>2, <1>3

LEMMA EvaluateOperatorKeeps ==
  ASSUME IInv, EvaluateUnary \/ EvaluateBinary
  PROVE  IInv'
<1>1. pending # <<>> /\ Len(Top.done) = Len(Operands(Top.expression))
  BY DEF EvaluateUnary, EvaluateBinary, Applying, AllOperandsDone
<1>2. Top.expression \in Expression /\ Top.done \in Seq(Variant)
  BY <1>1, TopType
<1>3. CASE EvaluateUnary
  <2> DEFINE v == EvaluateUnaryExpression(Top.done[1], Top.expression.operator)
  <2>1. Len(Top.done) = 1
    BY <1>1, <1>2, <1>3, OperandsType DEF EvaluateUnary, Applying
  <2>2. Top.done[1] \in Variant
    BY <1>2, <2>1
  <2>3. v \in Variant /\ ReturnPurely(v)
    BY <1>3, <2>2, UnaryType DEF EvaluateUnary
  <2> HIDE DEF v
  <2> QED BY <1>1, <2>3, ReturnPurelyKeeps
<1>4. CASE EvaluateBinary
  <2> DEFINE v == EvaluateBinaryExpression(Top.done[1], Top.done[2], Top.expression.operator)
  <2>1. Len(Top.done) = 2 /\ Top.expression.operator \in BinaryOp
    BY <1>1, <1>2, <1>4, OperandsType, ExpressionKinds DEF EvaluateBinary, Applying
  <2>2. Top.done[1] \in Variant /\ Top.done[2] \in Variant
    BY <1>2, <2>1
  <2>3. v \in Variant /\ ReturnPurely(v)
    BY <1>4, <2>1, <2>2, BinaryType DEF EvaluateBinary
  <2> HIDE DEF v
  <2> QED BY <1>1, <2>3, ReturnPurelyKeeps
<1> QED BY <1>3, <1>4

LEMMA CallBuiltInKeeps ==
  ASSUME IInv, CallBuiltIn
  PROVE  IInv'
<1> DEFINE function == Top.expression.function
           argument == Top.done[1]
           text == CastToString(argument).string
<1>1. pending # <<>> /\ UNCHANGED <<scopes, aborting, exitCode, document, trapped>>
  BY DEF CallBuiltIn, Applying
<1>2. CASE Len(Top.done) # 1
  <2>1. Return(Undefined) /\ UNCHANGED output
    BY <1>2, Zenon DEF CallBuiltIn
  <2>2. MachineOK'
    BY <1>1, <2>1 DEF IInv, TypeOK, VMTypeOK, MachineOK
  <2> QED BY <1>1, <2>1, <2>2, MakeType, ReturnKeeps
<1>3. CASE Len(Top.done) = 1
  <2>1. argument \in Variant
    BY <1>1, <1>3, TopType
  <2>2. \/ Return(Abs(argument)) /\ UNCHANGED output
        \/ Return(GetTypeName(argument)) /\ UNCHANGED output
        \/ WriteTo(WriteStream(function), text) /\ Return(MakeInt(Wrap(Len(text))))
    BY <1>3, Zenon DEF CallBuiltIn
  <2>3. text \in Text /\ Len(text) \in Int /\ WriteStream(function) \in {"stdout", "stderr"}
    BY <2>1, CastToStringType DEF Text, WriteStream
  <2>4. /\ Abs(argument) \in Variant /\ GetTypeName(argument) \in Variant
        /\ MakeInt(Wrap(Len(text))) \in Variant
    BY <2>1, <2>3, AbsType, GetTypeNameType, WrapType, MakeType
  <2> HIDE DEF argument, text
  <2>5. output' \in Seq(Output)
    BY <2>2, <2>3, WriteToType DEF IInv, TypeOK, VMTypeOK
  <2>6. MachineOK'
    BY <1>1, <2>5 DEF IInv, TypeOK, VMTypeOK, MachineOK
  <2> QED BY <1>1, <2>2, <2>4, <2>6, ReturnKeeps
<1> QED BY <1>2, <1>3

\* The scopes a call pushes go on top of those there are.
LEMMA CallPushes ==
  ASSUME IInv, CallFunction
  PROVE  LET definition == document.functions[LookupFunctionDefinition(Top.expression.function)]
             after      == PushCall(scopes, definition, Top.done)
         IN  /\ definition \in FunctionDefinition
             /\ WellFormed(after, document.statements) /\ Extends(scopes, after)
             /\ after # <<>>
<1> DEFINE i == LookupFunctionDefinition(Top.expression.function)
           definition == document.functions[i]
           arguments == Top.done
           after == PushCall(scopes, definition, arguments)
<1>1. pending # <<>> /\ i # 0
  BY DEF CallFunction, Applying
<1>2. arguments \in Seq(Variant) /\ scopes # <<>> /\ Len(scopes) \in Nat
  BY <1>1, TopType, InProgress
<1>3. definition \in FunctionDefinition
  <2> DEFINE named == {j \in DOMAIN document.functions :
                         document.functions[j].name = Top.expression.function}
  <2>1. document.functions \in Seq(FunctionDefinition)
    BY DocumentAssumption DEF IInv, TypeOK
  <2>2. named # {} /\ i = Min(named)
    BY <1>1 DEF LookupFunctionDefinition
  <2>3. named \in SUBSET Nat /\ named \subseteq DOMAIN document.functions
    BY <2>1
  <2> HIDE DEF named
  <2>4. Min(named) \in DOMAIN document.functions
    BY <2>2, <2>3, MinLeast
  <2> QED BY <2>1, <2>2, <2>4
<1>4. WellFormed(scopes, document.statements)
  BY DEF IInv
<1> HIDE DEF definition, arguments
<1>5. WellFormed(after, document.statements) /\ Extends(scopes, after)
  BY <1>2, <1>3, <1>4, PushCallWellFormed
<1>6. after # <<>>
  <2> HIDE DEF after
  <2>1. Len(scopes) # 0
    BY <1>2, <1>4 DEF WellFormed, Scopes
  <2> QED BY <1>2, <1>5, <2>1 DEF Extends
<1> QED BY <1>3, <1>5, <1>6 DEF definition, arguments

LEMMA CallFunctionKeeps ==
  ASSUME IInv, CallFunction
  PROVE  IInv'
<1> DEFINE after == PushCall(scopes, document.functions[LookupFunctionDefinition(
                               Top.expression.function)], Top.done)
<1>1. /\ pending # <<>> /\ scopes' = after
      /\ \/ Fail(after, "missing argument")
         \/ Return(Undefined) /\ UNCHANGED <<aborting, output>>
      /\ UNCHANGED <<exitCode, document, trapped>>
  BY DEF CallFunction, Applying
<1>2. ~Idle
  BY <1>1, TopType
<1>3. WellFormed(after, document.statements) /\ Extends(scopes, after)
  BY CallPushes
<1> HIDE DEF after
<1>4. Return(Undefined)
  BY <1>1 DEF Fail
<1>5. MachineOK'
  <2>1. after \in Scopes /\ "missing argument" \in RuntimeErrorKind
    BY <1>3 DEF WellFormed, RuntimeErrorKind
  <2>2. Fail(after, "missing argument") => aborting' = TRUE /\ output' \in Seq(Output)
    BY <2>1, RuntimeErrorType DEF Fail
  <2> QED BY <1>1, <2>2 DEF IInv, TypeOK, VMTypeOK, MachineOK
<1>6. Evaluates
  BY <1>1, <1>4, ReturnEvaluates, MakeType
<1> QED BY <1>1, <1>2, <1>3, <1>5, <1>6, EvaluatingAfter

LEMMA InterpretExpressionKeeps ==
  ASSUME IInv, InterpretExpression
  PROVE  IInv'
<1>1. CASE EvaluateOperand
  BY <1>1, EvaluateOperandKeeps
<1>2. CASE EvaluateLiteral
  <2>1. pending # <<>> /\ Top.expression.value \in Variant
    BY <1>2, TopType, ExpressionKinds DEF EvaluateLiteral, Applying
  <2> QED BY <1>2, <2>1, ReturnPurelyKeeps DEF EvaluateLiteral
<1>3. CASE EvaluateUnimplemented
  BY <1>3, MakeType, ReturnPurelyKeeps DEF EvaluateUnimplemented, Applying
<1>4. CASE EvaluateVariable
  BY <1>4, EvaluateVariableKeeps
<1>5. CASE EvaluateMacro
  BY <1>5, EvaluateMacroKeeps
<1>6. CASE EvaluateUnary \/ EvaluateBinary
  BY <1>6, EvaluateOperatorKeeps
<1>7. CASE DivisionTrap
  <2>1. pending # <<>> /\ trapped' = TRUE
        /\ UNCHANGED <<scopes, aborting, exitCode, output, document, activation, pending>>
    BY <1>7 DEF DivisionTrap, Applying
  <2>2. EvaluationOK' /\ MachineOK' /\ Evaluates
    BY <2>1 DEF IInv, TypeOK, VMTypeOK, MachineOK, EvaluationOK, Idle, Evaluates
  <2> QED BY <2>1, <2>2, TopType, EvaluatingAfterNoPush
<1>8. CASE SelectTernary
  BY <1>8, SelectTernaryKeeps
<1>9. CASE CallBuiltIn
  BY <1>9, CallBuiltInKeeps
<1>10. CASE CallOtherBuiltIn
  BY <1>10, FailKeeps DEF CallOtherBuiltIn, Applying, RuntimeErrorKind
<1>11. CASE CallFunction
  BY <1>11, CallFunctionKeeps
<1>12. CASE CallUnknownFunction
  BY <1>12, FailKeeps DEF CallUnknownFunction, Applying, RuntimeErrorKind
<1> QED BY <1>1, <1>2, <1>3, <1>4, <1>5, <1>6, <1>7, <1>8, <1>9, <1>10, <1>11, <1>12
        DEF InterpretExpression

-----------------------------------------------------------------------------
(* The theorems.                                                           *)

LEMMA InitOK == Init => IInv
<1> SUFFICES ASSUME Init PROVE IInv
  OBVIOUS
<1>1. /\ document \in Document /\ scopes = PushGlobalScope(<<>>, document.statements)
      /\ activation = NoActivation /\ pending = <<>> /\ trapped = FALSE
      /\ aborting = FALSE /\ exitCode = 0 /\ output = <<>>
  BY DEF Init, VMInit
<1>2. document.statements \in Seq(Statement)
  BY <1>1, DocumentAssumption
<1>3. WellFormed(scopes, document.statements)
  BY <1>1, <1>2, GlobalWellFormed
<1>4. TypeOK
  <2>1. scopes \in Seq(Scope)
    BY <1>3 DEF WellFormed, Scopes
  <2>2. exitCode \in 0 .. ExitRange - 1
    BY <1>1, ExitRangeAssumption
  <2>3. output \in Seq(Output) /\ pending \in Seq(Evaluation)
    BY <1>1
  <2>4. activation \in Activation
    BY <1>1 DEF Activation
  <2> QED BY <1>1, <2>1, <2>2, <2>3, <2>4 DEF TypeOK, VMTypeOK
<1>5. EvaluationOK /\ ActivationScopeLives
  BY <1>1 DEF EvaluationOK, ActivationScopeLives, Idle
<1> QED BY <1>3, <1>4, <1>5 DEF IInv

LEMMA NextKeeps == IInv /\ [Next]_vars => IInv'
<1> SUFFICES ASSUME IInv, [Next]_vars PROVE IInv'
  OBVIOUS
<1>1. CASE StepScope
  BY <1>1, StepScopeKeeps
<1>2. CASE InterpretStatement
  BY <1>2, InterpretStatementKeeps
<1>3. CASE InterpretExpression
  BY <1>3, InterpretExpressionKeeps
<1>4. CASE UNCHANGED vars
  BY <1>4 DEF vars, IInv, TypeOK, VMTypeOK, EvaluationOK, ActivationScopeLives, Idle
<1> QED BY <1>1, <1>2, <1>3, <1>4 DEF Next

\* The inductive invariant: the types, the calls in progress, the scope of the
\* statement and the shape of the scope list, together.
THEOREM Invariant == Spec => []IInv
BY InitOK, NextKeeps, PTL DEF Spec

\* For every program and every size of integers, doubles and exit codes, all of
\* Interpreter.cpp's and VirtualMachine.cpp's state keeps its type: every value
\* is one, integers stay in their width, every call in progress has expressions
\* of the program, and whatever is written or reported is what it should be.
THEOREM TypeCorrect == Spec => []TypeOK
<1>1. IInv => TypeOK
  BY DEF IInv
<1> QED BY <1>1, Invariant, PTL

\* For every program: the reference Step keeps to the scope a statement was
\* started in never dangles, whatever the statement pushes or assigns, and the
\* index Step advances at the end is that of the statement it interpreted.
THEOREM ActivationScope == Spec => []ActivationScopeLives
<1>1. IInv => ActivationScopeLives
  BY DEF IInv
<1> QED BY <1>1, Invariant, PTL

LEMMA GlobalScopeFromShape == IInv => GlobalScopeAtBottom
<1> SUFFICES ASSUME IInv PROVE GlobalScopeAtBottom
  OBVIOUS
<1>1. scopes \in Seq(Scope) /\ Len(scopes) \in Nat /\ DOMAIN scopes = 1 .. Len(scopes)
  BY DEF IInv, TypeOK, VMTypeOK
<1>2. scopes # <<>> => 1 \in 1 .. Len(scopes)
  BY <1>1
<1>3. GlobalName \notin FunctionName /\ GlobalName # BlockName
  BY FunctionNameAssumption DEF GlobalName, BlockName
<1>4. \A i \in DOMAIN scopes \ {1} : scopes[i].name # GlobalName
  BY <1>1, <1>3 DEF IInv, WellFormed, Pushable
<1> QED BY <1>1, <1>2, <1>4 DEF IInv, WellFormed, GlobalScopeAtBottom

\* For every program: the scope at the back of m_Scopes is the script's own
\* while there is any, and no other scope is taken for the global one.
THEOREM GlobalScope == Spec => []GlobalScopeAtBottom
BY GlobalScopeFromShape, Invariant, PTL

-----------------------------------------------------------------------------
(* Stack traces.                                                           *)

EndsAtGlobal(trace) ==
  /\ trace # <<>> /\ trace[Len(trace)] = GlobalName
  /\ \A j \in 1 .. Len(trace) - 1 : trace[j] \in FunctionName

\* The first function of the list is the global scope, and only that.
LEMMA TraceEndsAtGlobal ==
  ASSUME NEW s, NEW body, WellFormed(s, body), s # <<>>
  PROVE  EndsAtGlobal(GetStackTrace(s))
<1> DEFINE F == FunctionScopes(s)
           n == Cardinality(F)
<1>1. s \in Scopes /\ Len(s) \in Nat \ {0} /\ DOMAIN s = 1 .. Len(s)
  BY DEF WellFormed, Scopes
<1>2. F \subseteq 1 .. Len(s) /\ IsFiniteSet(F) /\ n \in Nat /\ 1 \in F
  <2>1. 1 \in DOMAIN s /\ s[1].kind = "Function"
    BY <1>1 DEF WellFormed
  <2>2. 1 \in F
    BY <2>1 DEF FunctionScopes
  <2> QED BY <1>1, <2>2, FunctionScopesBounded
<1>3. n # 0
  BY <1>2, FS_EmptySet
<1>4. FunctionAbove(s, 1) = F
  BY <1>1, <1>2 DEF FunctionAbove
<1>5. ASSUME NEW k \in 1 .. n
      PROVE  /\ NthFunction(s, k) \in F
             /\ Cardinality(FunctionAbove(s, NthFunction(s, k))) = k
  BY <1>1, NthFunctionExists
<1>6. NthFunction(s, n) = 1
  <2> DEFINE i == NthFunction(s, n)
  <2>1. n \in 1 .. n
    BY <1>2, <1>3
  <2>2. i \in F /\ Cardinality(FunctionAbove(s, i)) = n
    BY <1>5, <2>1
  <2> HIDE DEF i, n
  <2>3. FunctionAbove(s, i) \subseteq F
    BY DEF FunctionAbove
  <2>4. FunctionAbove(s, i) = F
    BY <1>2, <2>2, <2>3, FS_Subset DEF n
  <2>5. i \in 1 .. Len(s) /\ 1 >= i
    BY <1>2, <2>2, <2>4 DEF FunctionAbove
  <2> QED BY <1>1, <2>5 DEF i
<1>7. ASSUME NEW k \in 1 .. n - 1
      PROVE  s[NthFunction(s, k)].name \in FunctionName
  <2> DEFINE i == NthFunction(s, k)
  <2>1. k \in 1 .. n /\ k # n
    BY <1>2
  <2>2. i \in F /\ Cardinality(FunctionAbove(s, i)) = k
    BY <1>5, <2>1
  <2> HIDE DEF i
  <2>3. i # 1 /\ i \in 1 .. Len(s) /\ s[i].kind = "Function"
    BY <1>2, <1>4, <2>1, <2>2 DEF FunctionScopes
  <2>4. Pushable(s[i])
    BY <2>3 DEF WellFormed
  <2> QED BY <2>3, <2>4 DEF Pushable, i
<1>8. s[1].name = GlobalName
  BY <1>1 DEF WellFormed
<1>9. GetStackTrace(s) = [k \in 1 .. n |-> s[NthFunction(s, k)].name]
  BY DEF GetStackTrace
<1> HIDE DEF n, F
<1>10. GetStackTrace(s) \in Seq(ScopeName) /\ Len(GetStackTrace(s)) = n
       /\ \A k \in 1 .. n : GetStackTrace(s)[k] = s[NthFunction(s, k)].name
  BY <1>1, <1>2, <1>9, GetStackTraceType
<1>11. \A k \in 1 .. n - 1 : k \in 1 .. n
  BY <1>2
<1> QED BY <1>2, <1>3, <1>6, <1>7, <1>8, <1>10, <1>11 DEF EndsAtGlobal

\* What a step writes: nothing, a text, or an error with the trace of a list
\* that has the global scope at the bottom.
Says ==
  \/ UNCHANGED output
  \/ \E stream \in {"stdout", "stderr"} : \E text :
       output' = Append(output, [stream |-> stream, text |-> text])
  \/ \E s, message :
       /\ WellFormed(s, document.statements) /\ s # <<>>
       /\ output' = Append(output, [stream |-> "error", message |-> message,
                                    trace |-> GetStackTrace(s)])

LEMMA StepSays ==
  ASSUME IInv, Next
  PROVE  Says
<1>1. CASE StepScope
  BY <1>1 DEF StepScope, PopFinishedScope, BeginStatement, Says
<1>2. CASE InterpretStatement
  BY <1>2 DEF InterpretStatement, EvaluateStatementOperand, FinishExpressionStatement,
     TakeIfCase, TakeElseCase, AssignVariable, DeclareVariable, EnterWhile, LeaveWhile,
     InterpretExit, Says
<1>3. CASE InterpretExpression
  <2>1. pending # <<>> /\ WellFormed(scopes, document.statements) /\ scopes # <<>>
    <3>1. pending # <<>>
      BY <1>3 DEF InterpretExpression, EvaluateOperand, EvaluateLiteral, EvaluateUnimplemented,
         EvaluateVariable, EvaluateMacro, EvaluateUnary, EvaluateBinary, DivisionTrap,
         SelectTernary, CallBuiltIn, CallOtherBuiltIn, CallFunction, CallUnknownFunction, Applying
    <3> QED BY <3>1, TopType, InProgress DEF IInv
  <2>2. ASSUME NEW message, Fail(scopes, message) PROVE Says
    BY <2>1, <2>2 DEF Fail, RuntimeError, Says
  <2>3. CASE EvaluateVariable
    BY <2>2, <2>3 DEF EvaluateVariable, Says
  <2>4. CASE EvaluateMacro
    BY <2>2, <2>4 DEF EvaluateMacro, Says
  <2>5. CASE CallOtherBuiltIn \/ CallUnknownFunction
    BY <2>2, <2>5 DEF CallOtherBuiltIn, CallUnknownFunction
  <2>6. CASE CallBuiltIn
    <3> DEFINE text == CastToString(Top.done[1]).string
    <3>1. UNCHANGED output \/ WriteTo(WriteStream(Top.expression.function), text)
      BY <2>6, Zenon DEF CallBuiltIn
    <3> HIDE DEF text
    <3> QED BY <3>1 DEF WriteTo, WriteStream, Says
  <2>7. CASE CallFunction
    <3> DEFINE after == PushCall(scopes, document.functions[LookupFunctionDefinition(
                                   Top.expression.function)], Top.done)
    <3>1. /\ WellFormed(after, document.statements) /\ after # <<>>
          /\ UNCHANGED output \/ Fail(after, "missing argument")
      BY <2>7, CallPushes DEF CallFunction
    <3> HIDE DEF after
    <3> QED BY <3>1 DEF Fail, RuntimeError, Says
  <2>8. CASE EvaluateOperand \/ EvaluateLiteral \/ EvaluateUnimplemented \/ EvaluateUnary
             \/ EvaluateBinary \/ DivisionTrap \/ SelectTernary
    BY <2>8 DEF EvaluateOperand, EvaluateLiteral, EvaluateUnimplemented, EvaluateUnary,
       EvaluateBinary, DivisionTrap, SelectTernary, ReturnPurely, Says
  <2> QED BY <1>3, <2>3, <2>4, <2>5, <2>6, <2>7, <2>8 DEF InterpretExpression
<1> QED BY <1>1, <1>2, <1>3 DEF Next

LEMMA TracesKept ==
  ASSUME IInv, TracesEndAtGlobal, [Next]_vars
  PROVE  TracesEndAtGlobal'
<1> DEFINE n == Len(output)
<1>1. output \in Seq(Output) /\ n \in Nat /\ DOMAIN output = 1 .. n
  BY DEF IInv, TypeOK, VMTypeOK
<1>2. \A k \in 1 .. n : output[k].stream = "error" => EndsAtGlobal(output[k].trace)
  BY <1>1 DEF TracesEndAtGlobal, EndsAtGlobal
<1>3. CASE UNCHANGED output
  BY <1>3 DEF TracesEndAtGlobal
<1>4. ASSUME NEW entry, output' = Append(output, entry), output' \in Seq(Output),
             entry.stream = "error" => EndsAtGlobal(entry.trace)
      PROVE  TracesEndAtGlobal'
  <2>1. /\ DOMAIN output' = 1 .. n + 1 /\ output'[n + 1] = entry
        /\ \A k \in 1 .. n : output'[k] = output[k]
    BY <1>1, <1>4
  <2>2. ASSUME NEW k \in 1 .. n + 1, output'[k].stream = "error"
        PROVE  EndsAtGlobal(output'[k].trace)
    <3>1. k \in 1 .. n \/ k = n + 1
      BY <1>1
    <3> QED BY <1>2, <1>4, <2>1, <2>2, <3>1
  <2> QED BY <2>1, <2>2 DEF TracesEndAtGlobal, EndsAtGlobal
<1>5. output' \in Seq(Output)
  BY NextKeeps DEF IInv, TypeOK, VMTypeOK
<1>6. CASE Next
  <2>1. ASSUME NEW stream \in {"stdout", "stderr"}, NEW text,
               output' = Append(output, [stream |-> stream, text |-> text])
        PROVE  TracesEndAtGlobal'
    BY <1>4, <1>5, <2>1
  <2>2. ASSUME NEW s, NEW message, WellFormed(s, document.statements), s # <<>>,
               output' = Append(output, [stream |-> "error", message |-> message,
                                         trace |-> GetStackTrace(s)])
        PROVE  TracesEndAtGlobal'
    <3>1. EndsAtGlobal(GetStackTrace(s))
      BY <2>2, TraceEndsAtGlobal
    <3> QED BY <1>4, <1>5, <2>2, <3>1
  <2> QED BY <1>3, <1>6, <2>1, <2>2, StepSays DEF Says
<1> QED BY <1>3, <1>6 DEF vars, vmVars

\* For every program: every stack trace that is reported names the script's own
\* scope last and only there, whatever was pushed by the call that failed.
THEOREM StackTraces == Spec => []TracesEndAtGlobal
<1>1. Init => TracesEndAtGlobal
  BY DEF Init, VMInit, TracesEndAtGlobal
<1>2. IInv /\ TracesEndAtGlobal /\ [Next]_vars => TracesEndAtGlobal'
  BY TracesKept
<1> QED BY <1>1, <1>2, Invariant, PTL DEF Spec

-----------------------------------------------------------------------------
(* What a step does to the scopes that wait.                               *)

\* A scope whose variables the function on top may set: the script's, a block,
\* or one with no other function above it.
Own(i) ==
  i = 1 \/ scopes[i].kind = "Block" \/ \A j \in FunctionScopes(scopes) : j <= i

TouchesOwn(t) ==
  \A i \in 1 .. Len(scopes) : t[i].variables # scopes[i].variables => Own(i)

\* The scopes of s are left alone.
PushedOn(s, t) == Len(s) <= Len(t) /\ \A i \in 1 .. Len(s) : t[i] = s[i]

LEMMA ConcatPushedOn ==
  ASSUME NEW s \in Seq(Scope), NEW u \in Seq(Scope)
  PROVE  PushedOn(s, s \o u)
<1>1. /\ Len(s) \in Nat /\ Len(u) \in Nat /\ Len(s \o u) = Len(s) + Len(u)
      /\ \A i \in 1 .. Len(s) + Len(u) :
           (s \o u)[i] = IF i <= Len(s) THEN s[i] ELSE u[i - Len(s)]
  BY ConcatProperties
<1> QED BY <1>1 DEF PushedOn

LEMMA BlockPushedOn ==
  ASSUME NEW s \in Seq(Scope), NEW block \in Seq(Statement)
  PROVE  PushedOn(s, PushBlockScope(s, block))
<1> DEFINE scope == NewScope("Block", BlockName, block)
<1>1. scope \in Scope
  <2>1. BlockName \in ScopeName /\ "Block" \in {"Function", "Block"}
    BY DEF ScopeName
  <2> QED BY <2>1, NewScopeType
<1>2. PushBlockScope(s, block) = s \o <<scope>>
  BY <1>1, AppendIsConcat DEF PushBlockScope
<1>3. <<scope>> \in Seq(Scope)
  <2> HIDE DEF scope
  <2> QED BY <1>1
<1> HIDE DEF scope
<1> QED BY <1>2, <1>3, ConcatPushedOn

LEMMA CallPushedOn ==
  ASSUME NEW s \in Seq(Scope), NEW definition \in FunctionDefinition,
         NEW arguments \in Seq(Variant)
  PROVE  PushedOn(s, PushCall(s, definition, arguments))
<1> DEFINE given == GivenCount(definition.parameters, arguments)
           bound == BoundCount(definition.parameters, arguments)
           called == CalledScope(definition, arguments)
           defaults == [k \in 1 .. bound - given |->
                          DefaultScope(definition, arguments, given + k)]
<1>1. definition.parameters \in Seq(Parameter)
  BY DEF FunctionDefinition
<1>2. /\ given \in Nat /\ bound \in Nat /\ given <= bound
      /\ bound <= Len(definition.parameters) /\ Len(definition.parameters) \in Nat
  BY <1>1, BoundCountType
<1>3. called \in Scope
  BY CalledScopeType
<1>4. ASSUME NEW k \in 1 .. bound - given
      PROVE  DefaultScope(definition, arguments, given + k) \in Scope
  <2>1. given + k \in 1 .. Len(definition.parameters)
    BY <1>2
  <2> QED BY <2>1, DefaultScopeType
<1>5. defaults \in Seq(Scope)
  <2>1. bound - given \in Nat
    BY <1>2
  <2>2. defaults \in [1 .. bound - given -> Scope]
    BY <1>4
  <2> HIDE DEF bound, given, defaults
  <2> QED BY <2>1, <2>2
<1>6. PushCall(s, definition, arguments) = (s \o <<called>>) \o defaults
  BY DEF PushCall
<1> HIDE DEF called, defaults
<1>7. s \o <<called>> \in Seq(Scope) /\ PushedOn(s, s \o <<called>>)
  <2>1. <<called>> \in Seq(Scope)
    BY <1>3
  <2>2. s \o <<called>> \in Seq(Scope)
    BY <2>1
  <2> QED BY <2>1, <2>2, ConcatPushedOn
<1>8. PushedOn(s \o <<called>>, (s \o <<called>>) \o defaults)
  BY <1>5, <1>7, ConcatPushedOn
<1>9. /\ Len(s) \in Nat /\ Len(s \o <<called>>) \in Nat
      /\ Len((s \o <<called>>) \o defaults) \in Nat
  BY <1>5, <1>7
<1> QED BY <1>6, <1>7, <1>8, <1>9 DEF PushedOn

LEMMA PushedOnTouchesOwn ==
  ASSUME NEW t, PushedOn(scopes, t)
  PROVE  TouchesOwn(t)
BY DEF PushedOn, TouchesOwn

\* A declaration sets a variable of the scope on top.
LEMMA DeclarationTouchesOwn ==
  ASSUME scopes \in Scopes, scopes # <<>>, NEW name \in Name, NEW v \in Variant
  PROVE  TouchesOwn(PushVariable(scopes, name, v))
<1> DEFINE q == SetVariable(scopes[Len(scopes)], name, v)
<1>1. scopes \in Seq(Scope) /\ Len(scopes) \in 1 .. Len(scopes) /\ DOMAIN scopes = 1 .. Len(scopes)
  BY CurrentScopeType DEF Scopes
<1>2. Own(Len(scopes))
  BY <1>1 DEF Own, FunctionScopes
<1>3. PushVariable(scopes, name, v) = scopes
        \/ PushVariable(scopes, name, v) = [scopes EXCEPT ![Len(scopes)] = q]
  BY DEF PushVariable
<1> HIDE DEF q
<1> QED BY <1>1, <1>2, <1>3 DEF TouchesOwn

\* The only function that a function's scope has from it upwards is its own.
LEMMA SearchedIsOwn ==
  ASSUME scopes \in Scopes, NEW i \in 1 .. Len(scopes), Searched(scopes, i)
  PROVE  Own(i)
<1> DEFINE above == FunctionAbove(scopes, i)
<1>1. /\ Len(scopes) \in Nat /\ DOMAIN scopes = 1 .. Len(scopes)
      /\ IsFiniteSet(FunctionScopes(scopes)) /\ FunctionScopes(scopes) \subseteq 1 .. Len(scopes)
  BY FunctionScopesBounded DEF Scopes
<1> SUFFICES ASSUME i # 1, scopes[i].kind # "Block" PROVE \A j \in FunctionScopes(scopes) : j <= i
  BY DEF Own
<1>2. scopes[i] \in Scope
  BY <1>1 DEF Scopes
<1>3. i \in FunctionScopes(scopes)
  BY <1>1, <1>2, ScopeFields DEF FunctionScopes
<1>4. i \in above /\ above \subseteq FunctionScopes(scopes)
  BY <1>3 DEF FunctionAbove
<1>5. Cardinality(above) <= 1
  BY DEF Searched
<1> HIDE DEF above
<1>6. IsFiniteSet(above) /\ Cardinality(above) \in Nat
  BY <1>1, <1>4, FS_Subset, FS_CardinalityType
<1>7. Cardinality(above) = 1
  BY <1>4, <1>5, <1>6, FS_EmptySet
<1>8. above = {i}
  BY <1>4, <1>6, <1>7, FS_Singleton
<1> QED BY <1>1, <1>3, <1>8 DEF above, FunctionAbove

LEMMA AssignmentTouchesOwn ==
  ASSUME scopes \in Scopes, scopes # <<>>, NEW name \in Name, NEW v \in Variant
  PROVE  TouchesOwn(PushOrAssignVariable(scopes, name, v))
<1> DEFINE i  == LookupVariable(scopes, name)
           at == IF i = 0 THEN Len(scopes) ELSE i
           q  == SetVariable(scopes[at], name, v)
<1>1. scopes \in Seq(Scope) /\ Len(scopes) \in 1 .. Len(scopes) /\ DOMAIN scopes = 1 .. Len(scopes)
  BY CurrentScopeType DEF Scopes
<1>2. at \in 1 .. Len(scopes) /\ Own(at)
  <2>1. CASE i = 0
    BY <1>1, <2>1 DEF Own, FunctionScopes
  <2>2. CASE i # 0
    <3>1. i \in 1 .. Len(scopes) /\ Searched(scopes, i)
      BY <1>1, <2>2, LookupFound
    <3> HIDE DEF i
    <3> QED BY <2>2, <3>1, SearchedIsOwn
  <2> QED BY <2>1, <2>2
<1>3. PushOrAssignVariable(scopes, name, v) = [scopes EXCEPT ![at] = q]
  BY DEF PushOrAssignVariable
<1> HIDE DEF q, at
<1> QED BY <1>1, <1>2, <1>3 DEF TouchesOwn

\* The scopes behind a statement's or a call's work, before Step advances.
Changed(t) ==
  WellFormed(t, document.statements) /\ Extends(scopes, t) /\ TouchesOwn(t)

LEMMA StepChanges ==
  ASSUME IInv, Next
  PROVE  \/ UNCHANGED scopes
         \/ InterpretExit /\ scopes' = <<>>
         \/ PopFinishedScope /\ scopes # <<>> /\ scopes' = PopScope(scopes)
         \/ /\ ~Idle
            /\ \E t : Changed(t) /\ (scopes' = t \/ scopes' = Advance(t, activation.scope))
<1> DEFINE statement == activation.statement
<1>1. WellFormed(scopes, document.statements) /\ scopes \in Seq(Scope) /\ scopes \in Scopes
  BY DEF IInv, WellFormed, Scopes
<1>2. CASE StepScope
  BY <1>2 DEF StepScope, PopFinishedScope, BeginStatement, Running, CanRun
<1>3. CASE InterpretStatement
  <2>1. ~Idle
    BY <1>3 DEF InterpretStatement, EvaluateStatementOperand, FinishExpressionStatement,
       TakeIfCase, TakeElseCase, AssignVariable, DeclareVariable, EnterWhile,
       LeaveWhile, InterpretExit, InStatement
  <2>2. /\ statement \in Statement /\ activation.done \in Seq(Variant)
        /\ scopes # <<>> /\ Len(scopes) \in Nat
        /\ StatementOperands(statement) \in Seq(Expression)
        /\ Len(activation.done) <= Len(StatementOperands(statement))
    BY <2>1, InProgress DEF IInv, EvaluationOK
  <2>3. Changed(scopes)
    BY <1>1, <2>2 DEF Changed, Extends, TouchesOwn
  <2>4. ASSUME NEW block \in Seq(Statement) PROVE Changed(PushBlockScope(scopes, block))
    BY <1>1, <2>2, PushBlockScopeWellFormed, BlockPushedOn, PushedOnTouchesOwn DEF Changed
  <2>5. CASE EvaluateStatementOperand
    BY <2>5 DEF EvaluateStatementOperand
  <2>6. CASE FinishExpressionStatement \/ LeaveWhile
    BY <2>1, <2>3, <2>6 DEF FinishExpressionStatement, LeaveWhile, FinishStatement
  <2>7. CASE TakeIfCase
    <3>1. statement.kind = "IfStatement" /\ activation.done # <<>>
      BY <2>7 DEF TakeIfCase, InStatement, LastIsTrue
    <3>2. statement.cases \in Seq(IfCase)
          /\ Len(StatementOperands(statement)) = Len(statement.cases)
      BY <2>2, <3>1, StatementKinds, StatementOperandsType
    <3>3. Tried(activation) \in 1 .. Len(statement.cases)
      BY <2>2, <3>1, <3>2 DEF Tried
    <3>4. statement.cases[Tried(activation)] \in IfCase
      BY <3>2, <3>3
    <3>5. statement.cases[Tried(activation)].body \in Seq(Statement)
      BY <3>4 DEF IfCase
    <3> QED BY <2>1, <2>4, <2>7, <3>5 DEF TakeIfCase, FinishStatement
  <2>8. CASE TakeElseCase
    <3>1. statement.elseCase \in Seq(Statement)
      BY <2>2, <2>8, StatementKinds DEF TakeElseCase, InStatement
    <3> QED BY <2>1, <2>4, <2>8, <3>1 DEF TakeElseCase, FinishStatement
  <2>9. CASE EnterWhile
    <3>1. statement.body \in Seq(Statement)
      BY <2>2, <2>9, StatementKinds DEF EnterWhile, InStatement
    <3> QED BY <2>1, <2>4, <2>9, <3>1 DEF EnterWhile
  <2>10. CASE AssignVariable
    <3> DEFINE s == PushOrAssignVariable(scopes, statement.name, activation.done[1])
    <3>1. statement.name \in Name /\ activation.done[1] \in Variant
      BY <2>2, <2>10, StatementKinds DEF AssignVariable, InStatement
    <3>2. Changed(s)
      BY <1>1, <2>2, <3>1, PushOrAssignVariableType, SameButVariablesWellFormed,
         AssignmentTouchesOwn DEF Changed
    <3>3. scopes' = Advance(s, activation.scope)
      BY <2>10 DEF AssignVariable, FinishStatement
    <3> QED BY <2>1, <3>2, <3>3
  <2>11. CASE DeclareVariable
    <3> DEFINE s == PushVariable(scopes, statement.name, Undefined)
    <3>1. statement.name \in Name /\ Undefined \in Variant
      BY <2>2, <2>11, StatementKinds, MakeType DEF DeclareVariable, InStatement
    <3>2. Changed(s)
      BY <1>1, <2>2, <3>1, PushVariableType, SameButVariablesWellFormed,
         DeclarationTouchesOwn DEF Changed
    <3>3. scopes' = Advance(s, activation.scope)
      BY <2>11 DEF DeclareVariable, FinishStatement
    <3> QED BY <2>1, <3>2, <3>3
  <2>12. CASE InterpretExit
    BY <2>12 DEF InterpretExit, Exit
  <2> QED BY <1>3, <2>5, <2>6, <2>7, <2>8, <2>9, <2>10, <2>11, <2>12 DEF InterpretStatement
<1>4. CASE InterpretExpression
  <2>1. CASE CallFunction
    <3> DEFINE definition == document.functions[LookupFunctionDefinition(Top.expression.function)]
               after      == PushCall(scopes, definition, Top.done)
    <3>1. pending # <<>> /\ scopes' = after
      BY <2>1 DEF CallFunction, Applying
    <3>2. ~Idle /\ Top.done \in Seq(Variant)
      BY <3>1, TopType
    <3>3. definition \in FunctionDefinition
          /\ WellFormed(after, document.statements) /\ Extends(scopes, after)
      BY <2>1, CallPushes
    <3> HIDE DEF definition
    <3>4. PushedOn(scopes, after)
      BY <1>1, <3>2, <3>3, CallPushedOn
    <3> HIDE DEF after
    <3>5. Changed(after)
      BY <3>3, <3>4, PushedOnTouchesOwn DEF Changed
    <3> QED BY <3>1, <3>2, <3>5
  <2>2. CASE ~CallFunction
    BY <1>4, <2>2 DEF InterpretExpression, EvaluateOperand, EvaluateLiteral,
       EvaluateUnimplemented, EvaluateVariable, EvaluateMacro, EvaluateUnary, EvaluateBinary,
       DivisionTrap, SelectTernary, CallBuiltIn, CallOtherBuiltIn, CallUnknownFunction,
       ReturnPurely
  <2> QED BY <2>1, <2>2
<1> QED BY <1>2, <1>3, <1>4 DEF Next

\* Advancing moves one scope by one, and leaves the variables.
LEMMA AdvanceAt ==
  ASSUME NEW t \in Scopes, NEW at \in 1 .. Len(t), NEW i \in 1 .. Len(t)
  PROVE  /\ Advance(t, at)[i].variables = t[i].variables
         /\ \/ Advance(t, at)[i].index = t[i].index
            \/ i = at /\ Advance(t, at)[i].index = t[i].index + 1
<1>1. t \in Seq(Scope) /\ t[i] \in Scope /\ t[at] \in Scope /\ DOMAIN t = 1 .. Len(t)
  BY DEF Scopes
<1> DEFINE q == NextStatement(t[at])
<1>2. q.variables = t[at].variables /\ q.index = t[at].index + 1
  <2>1. q.index = t[at].index + 1
    BY <1>1, NextStatementType
  <2>2. q.variables = t[at].variables
    BY <1>1, Zenon DEF NextStatement, Scope
  <2> QED BY <2>1, <2>2
<1>3. Advance(t, at) = t \/ Advance(t, at) = [t EXCEPT ![at] = q]
  BY DEF Advance
<1> HIDE DEF q
<1> QED BY <1>1, <1>2, <1>3

\* What one step does to a scope that is there before and after it.
LEMMA ScopeStays ==
  ASSUME IInv, [Next]_vars, NEW i \in DOMAIN scopes, i \in DOMAIN scopes'
  PROVE  /\ scopes'[i].index # scopes[i].index =>
              /\ ~Idle /\ i = activation.scope
              /\ scopes'[i].index = scopes[i].index + 1
         /\ scopes'[i].variables # scopes[i].variables => Own(i)
<1>1. scopes \in Seq(Scope) /\ Len(scopes) \in Nat /\ i \in 1 .. Len(scopes)
  BY DEF IInv, WellFormed, Scopes
<1>2. CASE UNCHANGED scopes
  BY <1>2
<1>3. CASE scopes' = <<>>
  BY <1>3
<1>4. CASE scopes # <<>> /\ scopes' = PopScope(scopes)
  <2>1. /\ Len(PopScope(scopes)) = Len(scopes) - 1 /\ PopScope(scopes) \in Seq(Scope)
        /\ \A k \in 1 .. Len(scopes) - 1 : PopScope(scopes)[k] = scopes[k]
    BY <1>1, <1>4, FrontType DEF PopScope
  <2> QED BY <1>1, <1>4, <2>1
<1>5. ASSUME ~Idle, NEW t, Changed(t), scopes' = t \/ scopes' = Advance(t, activation.scope)
      PROVE  /\ scopes'[i].index # scopes[i].index =>
                  i = activation.scope /\ scopes'[i].index = scopes[i].index + 1
             /\ scopes'[i].variables # scopes[i].variables => Own(i)
  <2>1. t \in Scopes /\ Len(t) \in Nat /\ i \in 1 .. Len(t) /\ activation.scope \in 1 .. Len(t)
    <3>1. activation.scope \in 1 .. Len(scopes)
      BY <1>5, InProgress
    <3> QED BY <1>1, <1>5, <3>1 DEF Changed, Extends, WellFormed, Scopes
  <2>2. t[i].index = scopes[i].index /\ (t[i].variables # scopes[i].variables => Own(i))
    BY <1>1, <1>5 DEF Changed, Extends, TouchesOwn
  <2> QED BY <1>5, <2>1, <2>2, AdvanceAt
<1>6. CASE Next
  BY <1>2, <1>3, <1>4, <1>5, <1>6, StepChanges
<1> QED BY <1>2, <1>6 DEF vars, vmVars

\* For every program: no step moves the index of a scope that waits below.
THEOREM SuspendedScopes == Spec => SuspendedScopesStay
<1>1. IInv /\ [Next]_vars =>
        [\A i \in DOMAIN scopes \cap DOMAIN scopes' :
           scopes'[i].index # scopes[i].index =>
             /\ ~Idle /\ i = activation.scope
             /\ scopes'[i].index = scopes[i].index + 1]_vars
  BY ScopeStays
<1> QED BY <1>1, Invariant, PTL DEF Spec, SuspendedScopesStay

\* For every program: no step of a function changes the variables of a function
\* that waits for it, other than the script's own.
THEOREM SuspendedFunctions == Spec => SuspendedFunctionsPrivate
<1>1. IInv /\ [Next]_vars =>
        [\A i \in DOMAIN scopes \cap DOMAIN scopes' :
           scopes'[i].variables # scopes[i].variables =>
             \/ i = 1
             \/ scopes[i].kind = "Block"
             \/ \A j \in FunctionScopes(scopes) : j <= i]_vars
  BY ScopeStays DEF Own
<1> QED BY <1>1, Invariant, PTL DEF Spec, SuspendedFunctionsPrivate

-----------------------------------------------------------------------------
(* The interpreter implements ScriptRun.                                   *)

\* While a statement is interpreted the script is active.
LEMMA PhaseInStatement ==
  IInv /\ ~Idle /\ ~trapped =>
    scopes # <<>> /\ Phase = IF aborting THEN "failing" ELSE "running"
<1> SUFFICES ASSUME IInv, ~Idle, ~trapped
             PROVE  scopes # <<>> /\ Phase = IF aborting THEN "failing" ELSE "running"
  OBVIOUS
<1>1. scopes # <<>> /\ aborting \in BOOLEAN
  BY InProgress DEF IInv, TypeOK, VMTypeOK
<1> QED BY <1>1 DEF Phase

\* Who returns a value returns it to a statement that goes on.
LEMMA ReturnStays ==
  ASSUME IInv, ~Idle, NEW v, Return(v)
  PROVE  ~Idle'
<1>1. activation \in [statement: Statement, scope: Nat, done: Seq(Variant)]
  BY DEF IInv, TypeOK, Activation, Idle
<1>2. activation' = WithValue(activation, v) \/ activation' = activation
  BY DEF Return
<1>3. DOMAIN activation = {"statement", "scope", "done"}
  BY <1>1
<1>4. DOMAIN WithValue(activation, v) = DOMAIN activation
  BY DEF WithValue
<1>5. DOMAIN NoActivation = {"statement"}
  BY DEF NoActivation
<1>6. DOMAIN activation' # {"statement"}
  BY <1>2, <1>3, <1>4
<1> QED BY <1>5, <1>6 DEF Idle

\* What a step of an expression does to what a script's caller sees.
Speaks ==
  \/ UNCHANGED <<aborting, output>>
  \/ /\ UNCHANGED aborting
     /\ \E stream \in {"stdout", "stderr"} : \E text :
          output' = Append(output, [stream |-> stream, text |-> text])
  \/ /\ aborting' = TRUE
     /\ \E message, trace :
          output' = Append(output, [stream |-> "error", message |-> message, trace |-> trace])

LEMMA ExpressionSpeaks ==
  ASSUME IInv, InterpretExpression, ~DivisionTrap
  PROVE  /\ ~Idle /\ ~Idle' /\ ~trapped /\ UNCHANGED <<exitCode, trapped>>
         /\ Speaks
<1>1. pending # <<>> /\ ~trapped
  BY DEF InterpretExpression, EvaluateOperand, EvaluateLiteral, EvaluateUnimplemented,
     EvaluateVariable, EvaluateMacro, EvaluateUnary, EvaluateBinary,
     SelectTernary, CallBuiltIn, CallOtherBuiltIn, CallFunction, CallUnknownFunction, Applying
<1>2. ~Idle
  BY <1>1, TopType
<1>3. ASSUME NEW v, Return(v) PROVE ~Idle'
  BY <1>2, <1>3, ReturnStays
<1>4. ASSUME NEW s, NEW message, Fail(s, message) PROVE ~Idle' /\ Speaks
  BY <1>3, <1>4 DEF Fail, RuntimeError, Speaks
<1>5. CASE EvaluateOperand \/ SelectTernary
  BY <1>1, <1>2, <1>5 DEF EvaluateOperand, SelectTernary, Speaks, Idle
<1>6. CASE EvaluateLiteral \/ EvaluateUnimplemented \/ EvaluateUnary \/ EvaluateBinary
  BY <1>1, <1>2, <1>3, <1>6 DEF EvaluateLiteral, EvaluateUnimplemented, EvaluateUnary,
     EvaluateBinary, ReturnPurely, Speaks
<1>7. CASE EvaluateVariable
  BY <1>1, <1>2, <1>3, <1>4, <1>7 DEF EvaluateVariable, Speaks
<1>8. CASE EvaluateMacro
  BY <1>1, <1>2, <1>3, <1>4, <1>8 DEF EvaluateMacro, Speaks
<1>9. CASE CallOtherBuiltIn \/ CallUnknownFunction
  BY <1>1, <1>2, <1>4, <1>9 DEF CallOtherBuiltIn, CallUnknownFunction
<1>10. CASE CallFunction
  BY <1>1, <1>2, <1>3, <1>4, <1>10 DEF CallFunction, Speaks
<1>11. CASE CallBuiltIn
  <2> DEFINE text == CastToString(Top.done[1]).string
  <2>1. /\ \E v : Return(v)
        /\ UNCHANGED output \/ WriteTo(WriteStream(Top.expression.function), text)
        /\ UNCHANGED <<aborting, exitCode, trapped>>
    BY <1>11, Zenon DEF CallBuiltIn
  <2> HIDE DEF text
  <2>2. Speaks
    BY <2>1 DEF WriteTo, WriteStream, Speaks
  <2> QED BY <1>1, <1>2, <1>3, <2>1, <2>2
<1> QED BY <1>5, <1>6, <1>7, <1>8, <1>9, <1>10, <1>11 DEF InterpretExpression

\* An entry of the one kind or the other is added to the log.
LEMMA LogsEntry ==
  ASSUME IInv, IInv', NEW entry, output' = Append(output, entry)
  PROVE  /\ entry.stream \in {"stdout", "stderr"} => Script!Logs(WriteEntry)
         /\ entry.stream = "error" => Script!Logs(ErrorEntry)
<1> DEFINE n == Len(output)
<1>1. output \in Seq(Output) /\ output' \in Seq(Output) /\ n \in Nat
  BY DEF IInv, TypeOK, VMTypeOK
<1>2. Len(output') = n + 1 /\ output'[n + 1] = entry
  BY <1>1
<1>3. entry \in Output
  BY <1>1, <1>2
<1>4. /\ entry.stream \in {"stdout", "stderr"} => entry \in WriteEntry
      /\ entry.stream = "error" => entry \in ErrorEntry
  BY <1>3 DEF Output, WriteEntry, ErrorEntry
<1> QED BY <1>2, <1>4 DEF Script!Logs

\* A statement that is over leaves scopes, and one that exits none.
LEMMA StatementEnds ==
  ASSUME IInv, InterpretStatement
  PROVE  /\ ~Idle /\ ~trapped /\ UNCHANGED <<aborting, output, trapped>>
         /\ \/ InterpretExit /\ scopes' = <<>>
            \/ UNCHANGED <<exitCode, scopes, activation>>
            \/ UNCHANGED exitCode /\ Idle' /\ scopes' # <<>>
<1>1. ~Idle /\ ~trapped /\ UNCHANGED <<aborting, output, trapped>>
  BY DEF InterpretStatement, EvaluateStatementOperand, FinishExpressionStatement,
     TakeIfCase, TakeElseCase, AssignVariable, DeclareVariable, EnterWhile,
     LeaveWhile, InterpretExit, InStatement
<1>2. CASE InterpretExit
  BY <1>1, <1>2 DEF InterpretExit, Exit
<1>3. CASE EvaluateStatementOperand
  BY <1>1, <1>3 DEF EvaluateStatementOperand
<1>4. ASSUME ~InterpretExit, ~EvaluateStatementOperand
      PROVE  UNCHANGED exitCode /\ Idle' /\ scopes' # <<>>
  <2>1. UNCHANGED exitCode /\ Idle'
    BY <1>4 DEF InterpretStatement, FinishExpressionStatement, TakeIfCase, TakeElseCase,
       AssignVariable, DeclareVariable, EnterWhile, LeaveWhile, FinishStatement, Idle
  <2>2. scopes \in Seq(Scope) /\ scopes # <<>>
    BY <1>1, InProgress DEF IInv, WellFormed, Scopes
  <2>3. ASSUME NEW t, Changed(t) PROVE t # <<>> /\ Advance(t, activation.scope) # <<>>
    <3>1. t \in Seq(Scope) /\ Len(t) \in Nat /\ Len(scopes) \in Nat /\ Len(t) >= Len(scopes)
      BY <2>2, <2>3 DEF Changed, Extends, WellFormed, Scopes
    <3>2. 1 \in DOMAIN t
      BY <2>2, <3>1
    <3>3. DOMAIN Advance(t, activation.scope) = DOMAIN t
      BY DEF Advance
    <3> QED BY <3>2, <3>3
  <2>4. ~PopFinishedScope
    BY <1>1 DEF PopFinishedScope
  <2> QED BY <1>4, <2>1, <2>2, <2>3, <2>4, StepChanges DEF Next
<1> QED BY <1>1, <1>2, <1>3, <1>4

\* Every step of the interpreter is one of ScriptRun, or changes nothing that its
\* caller sees.
LEMMA StepImplementsScriptRun ==
  ASSUME IInv, IInv', Next
  PROVE  Script!Next \/ UNCHANGED <<Phase, exitCode, output>>
<1>1. aborting \in BOOLEAN /\ trapped \in BOOLEAN
  BY DEF IInv, TypeOK, VMTypeOK
<1>2. CASE StepScope
  <2>1. Idle /\ ~trapped /\ scopes # <<>> /\ ~aborting
        /\ UNCHANGED <<exitCode, output, aborting, trapped>>
    BY <1>2 DEF StepScope, PopFinishedScope, BeginStatement, Running, CanRun
  <2>2. Phase = "running"
    BY <2>1 DEF Phase
  <2>3. CASE scopes' = <<>>
    <3>1. Phase' = "ended"
      BY <2>1, <2>3 DEF Phase
    <3> QED BY <2>1, <2>2, <3>1 DEF Script!Next, Script!Finish
  <2>4. CASE scopes' # <<>>
    <3>1. Phase' = "running"
      BY <2>1, <2>4 DEF Phase
    <3> QED BY <2>1, <2>2, <3>1
  <2> QED BY <2>3, <2>4
<1>3. CASE InterpretStatement
  <2>1. /\ ~Idle /\ ~trapped /\ UNCHANGED <<aborting, output, trapped>>
        /\ \/ InterpretExit /\ scopes' = <<>>
           \/ UNCHANGED <<exitCode, scopes, activation>>
           \/ UNCHANGED exitCode /\ Idle' /\ scopes' # <<>>
    BY <1>3, StatementEnds
  <2>2. scopes # <<>> /\ Phase = IF aborting THEN "failing" ELSE "running"
    BY <2>1, PhaseInStatement
  <2>3. CASE InterpretExit /\ scopes' = <<>>
    <3>1. Phase' = "ended"
      BY <2>1, <2>3 DEF Phase
    <3>2. exitCode' \in 0 .. ExitRange - 1
      BY DEF IInv, TypeOK, VMTypeOK
    <3> QED BY <2>1, <2>2, <3>1, <3>2 DEF Script!Next, Script!ExitWith, Script!Active
  <2>4. CASE UNCHANGED <<exitCode, scopes, activation>>
    <3>1. UNCHANGED Phase
      BY <2>1, <2>4 DEF Phase, Idle
    <3> QED BY <2>1, <2>4, <3>1
  <2>5. CASE UNCHANGED exitCode /\ Idle' /\ scopes' # <<>>
    <3>1. Phase' = IF aborting THEN "failed" ELSE "running"
      BY <1>1, <2>1, <2>5 DEF Phase
    <3>2. CASE aborting
      BY <2>1, <2>2, <2>5, <3>1, <3>2 DEF Script!Next, Script!GiveUp
    <3>3. CASE ~aborting
      BY <2>1, <2>2, <2>5, <3>1, <3>3
    <3> QED BY <3>2, <3>3
  <2> QED BY <2>1, <2>3, <2>4, <2>5
<1>4. CASE DivisionTrap
  <2>1. ~Idle /\ ~trapped /\ trapped' = TRUE /\ UNCHANGED <<exitCode, output>>
    BY <1>4, TopType DEF DivisionTrap, Applying
  <2>2. Phase' = "killed" /\ Phase \in {"failing", "running"}
    BY <2>1, PhaseInStatement DEF Phase
  <2> QED BY <2>1, <2>2 DEF Script!Next, Script!Kill, Script!Active
<1>5. CASE InterpretExpression /\ ~DivisionTrap
  <2>1. ~Idle /\ ~Idle' /\ ~trapped /\ ~trapped' /\ UNCHANGED exitCode /\ Speaks
    BY <1>5, ExpressionSpeaks
  <2>2. Phase = IF aborting THEN "failing" ELSE "running"
    BY <2>1, PhaseInStatement
  <2>3. Phase' = IF aborting' THEN "failing" ELSE "running"
    <3>1. (IInv /\ ~Idle /\ ~trapped =>
             Phase = IF aborting THEN "failing" ELSE "running")'
      BY PhaseInStatement, PTL
    <3> QED BY <2>1, <3>1
  <2>4. CASE UNCHANGED <<aborting, output>>
    BY <2>1, <2>2, <2>3, <2>4
  <2>5. ASSUME UNCHANGED aborting, NEW stream \in {"stdout", "stderr"}, NEW text,
               output' = Append(output, [stream |-> stream, text |-> text])
        PROVE  Script!Next
    <3>1. Script!Logs(WriteEntry)
      BY <2>5, LogsEntry
    <3>2. UNCHANGED Phase /\ Script!Active
      BY <2>2, <2>3, <2>5 DEF Script!Active
    <3> QED BY <2>1, <3>1, <3>2 DEF Script!Next, Script!Write
  <2>6. ASSUME aborting' = TRUE, NEW message, NEW trace,
               output' = Append(output, [stream |-> "error", message |-> message,
                                         trace |-> trace])
        PROVE  Script!Next
    <3>1. Script!Logs(ErrorEntry)
      BY <2>6, LogsEntry
    <3>2. Phase' = "failing" /\ Script!Active
      BY <1>1, <2>2, <2>3, <2>6 DEF Script!Active
    <3> QED BY <2>1, <3>1, <3>2 DEF Script!Next, Script!Report
  <2> QED BY <2>1, <2>4, <2>5, <2>6 DEF Speaks
<1> QED BY <1>2, <1>3, <1>4, <1>5 DEF Next

\* For every program: a run keeps the promise of ScriptRun.  Nothing is written
\* and no code set by a statement that starts after the one that failed, an exit
\* is the end, and the end comes only by an exit or without a failure.
THEOREM ScriptRunImplemented == Spec => ImplementsScriptRun
<1>1. Init => Script!Init
  <2> SUFFICES ASSUME Init PROVE Script!Init
    OBVIOUS
  <2>1. scopes = <<NewScope("Function", GlobalName, document.statements)>> \o <<>>
        /\ aborting = FALSE /\ trapped = FALSE /\ exitCode = 0 /\ output = <<>>
    BY DEF Init, VMInit, PushGlobalScope
  <2>2. scopes # <<>>
    BY GlobalAlone DEF Init
  <2>3. Phase = "running"
    BY <2>1, <2>2 DEF Phase
  <2> QED BY <2>1, <2>3 DEF Script!Init
<1>2. IInv /\ IInv' /\ [Next]_vars => [Script!Next]_<<Phase, exitCode, output>>
  <2>1. IInv /\ IInv' /\ Next => [Script!Next]_<<Phase, exitCode, output>>
    BY StepImplementsScriptRun
  <2>2. UNCHANGED vars => UNCHANGED <<Phase, exitCode, output>>
    BY DEF vars, vmVars, Phase, Idle
  <2> QED BY <2>1, <2>2
<1> QED BY <1>1, <1>2, Invariant, PTL DEF Spec, ImplementsScriptRun, Script!Spec
=============================================================================
