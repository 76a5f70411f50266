----------------------------- MODULE ReplProofs -----------------------------
(***************************************************************************)
(* The REPL never runs a statement of a document that is gone, lines leave *)
(* nothing behind, and a session that failed stays silent, for all lines   *)
(* and sessions of any length.                                             *)
(*                                                                         *)
(* While a line runs that has not failed, the interpreter's own invariant  *)
(* holds, its scopes being the line's; once a line has failed no step is   *)
(* ever taken again, whatever the scopes are.                              *)
(***************************************************************************)
EXTENDS Repl, InterpreterProofs

\* The line at hand has not failed, or is still at the statement that failed.
Sound == live /\ (~aborting \/ ~Idle)

ReplInv ==
  /\ ReplTypeOK
  /\ Sound => IInv /\ \A i \in DOMAIN scopes : mine[i]
  /\ Idle => pending = <<>>
  /\ ~live => Idle /\ ~trapped /\ (~aborting => scopes = <<>>)

-----------------------------------------------------------------------------
(* The steps.                                                              *)

LEMMA ReplInitOK == ReplInit => ReplInv
<1> SUFFICES ASSUME ReplInit PROVE ReplInv
  OBVIOUS
<1>1. /\ document = EmptyDocument /\ scopes = <<>> /\ activation = NoActivation
      /\ pending = <<>> /\ trapped = FALSE /\ aborting = FALSE /\ exitCode = 0
      /\ output = <<>> /\ live = FALSE /\ mine = <<>>
  BY DEF ReplInit, VMInit
<1>2. TypeOK
  <2>1. document \in Document
    BY <1>1, EmptyDocumentAssumption
  <2>2. exitCode \in 0 .. ExitRange - 1
    BY <1>1, ExitRangeAssumption
  <2>3. scopes \in Seq(Scope) /\ output \in Seq(Output) /\ pending \in Seq(Evaluation)
    BY <1>1
  <2>4. activation \in Activation
    BY <1>1 DEF Activation
  <2> QED BY <1>1, <2>1, <2>2, <2>3, <2>4 DEF TypeOK, VMTypeOK
<1>3. mine \in [DOMAIN scopes -> BOOLEAN]
  BY <1>1
<1> QED BY <1>1, <1>2, <1>3 DEF ReplInv, ReplTypeOK, Sound, Idle

\* A line that is set on a machine that holds nothing starts as a script does.
LEMMA StartsAsScript ==
  ASSUME NEW d \in Document, scopes = <<>>, document' = d,
         scopes' = PushGlobalScope(scopes, d.statements),
         activation' = NoActivation, pending' = <<>>, MachineOK'
  PROVE  IInv'
<1>1. d.statements \in Seq(Statement)
  BY DocumentAssumption
<1>2. WellFormed(scopes', document'.statements)
  BY <1>1, GlobalWellFormed
<1>3. TypeOK'
  BY <1>2 DEF TypeOK, VMTypeOK, MachineOK, WellFormed, Scopes, Activation
<1>4. EvaluationOK' /\ ActivationScopeLives'
  BY DEF EvaluationOK, ActivationScopeLives, Idle
<1> QED BY <1>2, <1>3, <1>4 DEF IInv

LEMMA ReadLineKeeps ==
  ASSUME ReplInv, NEW d \in Document, ReadLine(d)
  PROVE  ReplInv'
<1>1. /\ ~live /\ ~trapped /\ live' = TRUE /\ document' = d
      /\ scopes' = PushGlobalScope(scopes, d.statements)
      /\ mine' = <<TRUE>> \o [i \in DOMAIN scopes |-> FALSE]
      /\ UNCHANGED <<aborting, exitCode, output, activation, pending, trapped>>
  BY DEF ReadLine, SetDocument
<1>2. /\ Idle /\ activation = NoActivation /\ pending = <<>>
      /\ ~aborting => scopes = <<>>
  BY <1>1 DEF ReplInv, Idle
<1>3. TypeOK /\ scopes \in Seq(Scope) /\ Len(scopes) \in Nat
  BY DEF ReplInv, ReplTypeOK, TypeOK, VMTypeOK
<1>4. MachineOK'
  BY <1>1, <1>3 DEF TypeOK, VMTypeOK, MachineOK
<1>5. d.statements \in Seq(Statement)
  BY DocumentAssumption
<1>6. scopes' \in Seq(Scope) /\ Len(scopes') = Len(scopes) + 1
  <2> DEFINE scope == NewScope("Function", GlobalName, d.statements)
  <2>1. scope \in Scope
    BY <1>5, NewScopeType DEF ScopeName
  <2>2. scopes' = <<scope>> \o scopes
    BY <1>1 DEF PushGlobalScope
  <2> HIDE DEF scope
  <2> QED BY <1>3, <2>1, <2>2
<1>7. TypeOK'
  BY <1>1, <1>3, <1>6 DEF TypeOK, VMTypeOK
<1>8. mine' \in [DOMAIN scopes' -> BOOLEAN] /\ mine'[1] = TRUE
  <2> DEFINE others == [i \in 1 .. Len(scopes) |-> FALSE]
  <2>1. others \in Seq(BOOLEAN) /\ Len(others) = Len(scopes)
    BY <1>3
  <2>2. mine' = <<TRUE>> \o others
    <3>1. DOMAIN scopes = 1 .. Len(scopes)
      BY <1>3
    <3> QED BY <1>1, <3>1
  <2> HIDE DEF others
  <2>3. mine' \in Seq(BOOLEAN) /\ Len(mine') = Len(scopes) + 1 /\ mine'[1] = TRUE
    BY <1>3, <2>1, <2>2
  <2> QED BY <1>3, <1>6, <2>3
<1>9. ASSUME ~aborting PROVE IInv' /\ \A i \in DOMAIN scopes' : mine'[i]
  <2>1. scopes = <<>>
    BY <1>2, <1>9
  <2>2. IInv'
    BY <1>1, <1>2, <1>4, <2>1, StartsAsScript
  <2>3. DOMAIN scopes' = {1}
    BY <1>6, <2>1
  <2> QED BY <1>8, <2>2, <2>3
<1> QED BY <1>1, <1>2, <1>7, <1>8, <1>9 DEF ReplInv, ReplTypeOK, Sound, Idle

\* A machine that is idle and aborting takes no step.
LEMMA AbortedIsOver ==
  ASSUME ReplInv, aborting, Idle, Next
  PROVE  FALSE
<1>1. pending = <<>>
  BY DEF ReplInv
<1>2. ~Running
  BY DEF Running, CanRun
<1>3. ~StepScope
  BY <1>2 DEF StepScope, PopFinishedScope, BeginStatement
<1>4. ~InterpretStatement
  BY DEF InterpretStatement, EvaluateStatementOperand, FinishExpressionStatement, TakeIfCase,
         TakeElseCase, AssignVariable, DeclareVariable, EnterWhile, LeaveWhile, InterpretExit,
         InStatement
<1>5. ~InterpretExpression
  BY <1>1 DEF InterpretExpression, EvaluateOperand, EvaluateLiteral, EvaluateUnimplemented,
              EvaluateVariable, EvaluateMacro, EvaluateUnary, EvaluateBinary, DivisionTrap,
              SelectTernary, CallBuiltIn, CallOtherBuiltIn, CallFunction,
              CallUnknownFunction, Applying
<1> QED BY <1>3, <1>4, <1>5 DEF Next

LEMMA InterpretKeeps ==
  ASSUME ReplInv, Interpret
  PROVE  ReplInv'
<1>1. /\ live /\ Next /\ live' = live
      /\ mine' = [i \in DOMAIN scopes' |-> i \in DOMAIN mine => mine[i]]
  BY DEF Interpret
<1>2. Sound
  BY <1>1, AbortedIsOver DEF ReplInv, ReplTypeOK, TypeOK, VMTypeOK, Sound
<1>3. IInv /\ DOMAIN mine = DOMAIN scopes /\ \A i \in DOMAIN scopes : mine[i]
  BY <1>2 DEF ReplInv, ReplTypeOK
<1>4. IInv'
  BY <1>1, <1>3, NextKeeps
<1>5. mine' \in [DOMAIN scopes' -> BOOLEAN] /\ \A i \in DOMAIN scopes' : mine'[i]
  <2>1. \A i \in DOMAIN scopes' : (i \in DOMAIN mine => mine[i]) \in BOOLEAN
    OBVIOUS
  <2> QED BY <1>1, <1>3, <2>1
<1>6. TypeOK' /\ (Idle => pending = <<>>)'
  BY <1>4 DEF IInv, EvaluationOK
<1>7. live' \in BOOLEAN /\ live'
  BY <1>1 DEF ReplInv, ReplTypeOK
<1> QED BY <1>4, <1>5, <1>6, <1>7 DEF ReplInv, ReplTypeOK

LEMMA EndLineKeeps ==
  ASSUME ReplInv, EndLine
  PROVE  ReplInv'
<1>1. /\ live' = FALSE /\ mine' = [i \in DOMAIN scopes |-> FALSE] /\ UNCHANGED vars
      /\ Idle /\ ~Running /\ ~trapped
  BY DEF EndLine, Stopped
<1>2. /\ UNCHANGED <<scopes, aborting, exitCode, output, document, activation, pending, trapped>>
      /\ ~aborting => scopes = <<>>
  BY <1>1 DEF vars, Running, CanRun
<1>3. TypeOK' /\ mine' \in [DOMAIN scopes' -> BOOLEAN]
  BY <1>1, <1>2 DEF ReplInv, ReplTypeOK, TypeOK, VMTypeOK
<1>4. ~Sound' /\ (Idle => pending = <<>>)' /\ Idle'
  BY <1>1, <1>2 DEF ReplInv, Sound, Idle
<1> QED BY <1>1, <1>2, <1>3, <1>4 DEF ReplInv, ReplTypeOK

LEMMA ReplNextKeeps == ReplInv /\ [ReplNext]_replVars => ReplInv'
<1> SUFFICES ASSUME ReplInv, [ReplNext]_replVars PROVE ReplInv'
  OBVIOUS
<1>1. CASE \E d \in Document : ReadLine(d)
  BY <1>1, ReadLineKeeps
<1>2. CASE Interpret
  BY <1>2, InterpretKeeps
<1>3. CASE EndLine
  BY <1>3, EndLineKeeps
<1>4. CASE UNCHANGED replVars
  BY <1>4 DEF replVars, vars, ReplInv, ReplTypeOK, TypeOK, VMTypeOK, Sound, IInv, EvaluationOK,
              ActivationScopeLives, Idle
<1> QED BY <1>1, <1>2, <1>3, <1>4 DEF ReplNext

\* The inductive invariant of a session.
THEOREM SessionInvariant == ReplSpec => []ReplInv
BY ReplInitOK, ReplNextKeeps, PTL DEF ReplSpec

-----------------------------------------------------------------------------
(* What it says.                                                           *)

\* For every session: all the state of the interpreter that the lines share
\* keeps its type, and each scope is known to be the line's own or not.
THEOREM SessionTypes == ReplSpec => []ReplTypeOK
<1>1. ReplInv => ReplTypeOK
  BY DEF ReplInv
<1> QED BY <1>1, SessionInvariant, PTL

LEMMA LiveDocumentFromInv == ReplInv => RunsLiveDocument
<1> SUFFICES ASSUME ReplInv PROVE RunsLiveDocument
  OBVIOUS
<1>1. scopes \in Seq(Scope) /\ live \in BOOLEAN /\ aborting \in BOOLEAN
  BY DEF ReplInv, ReplTypeOK, TypeOK, VMTypeOK
<1>2. ASSUME Idle, Running PROVE live /\ mine[Len(scopes)]
  <2>1. ~aborting /\ scopes # <<>>
    BY <1>2 DEF Running, CanRun
  <2>2. live
    BY <2>1 DEF ReplInv
  <2>3. Len(scopes) \in DOMAIN scopes
    BY <1>1, <2>1
  <2> QED BY <2>1, <2>2, <2>3 DEF ReplInv, Sound
<1>3. ASSUME ~Idle PROVE live /\ activation.scope \in DOMAIN scopes /\ mine[activation.scope]
  <2>1. live
    BY <1>3 DEF ReplInv
  <2>2. activation.scope \in DOMAIN scopes
    BY <1>3, <2>1 DEF ReplInv, Sound, IInv, ActivationScopeLives
  <2> QED BY <1>3, <2>1, <2>2 DEF ReplInv, Sound
<1> QED BY <1>2, <1>3 DEF RunsLiveDocument

\* For every session: no statement is run or looked at whose document is gone,
\* however many lines failed before.
THEOREM LiveDocument == ReplSpec => []RunsLiveDocument
BY LiveDocumentFromInv, SessionInvariant, PTL

\* For every session: until a line fails, each starts from an empty machine.
THEOREM NothingLeft == ReplSpec => []LinesLeaveNothing
<1>1. ReplInv => LinesLeaveNothing
  BY DEF ReplInv, LinesLeaveNothing
<1> QED BY <1>1, SessionInvariant, PTL

LEMMA SilentStep ==
  ReplInv /\ [ReplNext]_replVars =>
    [aborting /\ Idle => aborting' /\ Idle' /\ UNCHANGED <<output, exitCode>>]_replVars
<1> SUFFICES ASSUME ReplInv, [ReplNext]_replVars, aborting, Idle
             PROVE  aborting' /\ Idle' /\ UNCHANGED <<output, exitCode>>
  OBVIOUS
<1>1. CASE \E d \in Document : ReadLine(d)
  BY <1>1 DEF ReadLine, SetDocument, Idle
<1>2. CASE Interpret
  BY <1>2, AbortedIsOver DEF Interpret
<1>3. CASE EndLine
  BY <1>3 DEF EndLine, vars, Idle
<1>4. CASE UNCHANGED replVars
  BY <1>4 DEF replVars, vars, Idle
<1> QED BY <1>1, <1>2, <1>3, <1>4 DEF ReplNext

\* For every session: after a line that failed, nothing is written and nothing
\* is run, ever again.
THEOREM Silence == ReplSpec => FailedSessionIsSilent
BY SilentStep, SessionInvariant, PTL DEF ReplSpec, FailedSessionIsSilent
=============================================================================
