--------------------------- MODULE VirtualMachine ---------------------------
(***************************************************************************)
(* The virtual machine: runtime/src/VirtualMachine.cpp and Scope.hpp.      *)
(*                                                                         *)
(* m_Scopes is a std::list whose front is the current scope and whose back *)
(* is the global one.  Here it is the sequence `scopes` with the global    *)
(* scope first and the current scope LAST, so that a position keeps naming *)
(* the same scope while scopes are pushed above it, as a reference to an   *)
(* element of a std::list does.                                            *)
(*                                                                         *)
(* An operation that the interpreter applies several times in one step is  *)
(* an operator on the scope list; the rest are actions.                    *)
(***************************************************************************)
EXTENDS Variant

CONSTANTS
  Name,              \* names of variables, without the $
  FunctionName,      \* names of functions, case folded
  Statement,         \* the statements of the programs
  ExitRange,         \* number of exit codes: 2^32 in the code
  HasOutputHandler   \* was SetupOutputHandler called?

ASSUME ExitRangeAssumption == ExitRange \in Nat \ {0}
ASSUME OutputHandlerAssumption == HasOutputHandler \in BOOLEAN

GlobalName == "<global>"
BlockName  == "<block_scope>"

ASSUME FunctionNameAssumption == {GlobalName, BlockName} \cap FunctionName = {}

VARIABLES
  scopes,     \* m_Scopes, back first
  aborting,   \* m_Aborting
  exitCode,   \* m_ExitCode
  output      \* what was written, in order, and each runtime error reported

vmVars == <<scopes, aborting, exitCode, output>>

\* A name that a scope does not hold.
Unbound == [type |-> "Unbound"]

ScopeName == FunctionName \cup {GlobalName, BlockName}
Scope ==
  [kind:       {"Function", "Block"},
   name:       ScopeName,
   variables:  [Name -> Variant \cup {Unbound}],
   statements: Seq(Statement),
   index:      Nat]

RuntimeErrorKind ==
  {"no variable", "function not found", "missing argument",
   "builtin not implemented", "macro not implemented"}

WriteEntry == [stream: {"stdout", "stderr"}, text: Text]
ErrorEntry == [stream: {"error"}, message: RuntimeErrorKind,
               trace: Seq(ScopeName)]
Output     == WriteEntry \cup ErrorEntry

VMTypeOK ==
  /\ scopes \in Seq(Scope)
  /\ aborting \in BOOLEAN
  /\ exitCode \in 0 .. ExitRange - 1
  /\ output \in Seq(Output)

-----------------------------------------------------------------------------
(* Scopes.                                                                 *)

NoVariables == [n \in Name |-> Unbound]

ScopeWith(variables, kind, name, statements) ==
  [kind |-> kind, name |-> name, variables |-> variables,
   statements |-> statements, index |-> 0]

NewScope(kind, name, statements) == ScopeWith(NoVariables, kind, name, statements)

PushFunctionScope(s, name, body) == Append(s, NewScope("Function", name, body))
PushBlockScope(s, body)          == Append(s, NewScope("Block", BlockName, body))

\* emplace_back: below every scope there is.
PushGlobalScope(s, body) == <<NewScope("Function", GlobalName, body)>> \o s

PopScope(s) == SubSeq(s, 1, Len(s) - 1)

\* The current scope is scopes[Len(scopes)], the global one scopes[1].
CurrentScope(s) == s[Len(s)]

\* Positions of the functions' scopes, and of the k-th of them from the top.
FunctionScopes(s) == {i \in DOMAIN s : s[i].kind = "Function"}

FunctionAbove(s, i) == {j \in FunctionScopes(s) : j >= i}
NthFunction(s, k) ==
  CHOOSE i \in FunctionScopes(s) : Cardinality(FunctionAbove(s, i)) = k

\* Slip: the trace in the order the functions were called.
GetStackTraceOutermostFirst(s) ==
  LET n == Cardinality(FunctionScopes(s))
  IN  [k \in 1 .. n |-> s[NthFunction(s, n + 1 - k)].name]

\* The call stack as it is reported: the innermost function first.
GetStackTrace(s) ==
  [k \in 1 .. Cardinality(FunctionScopes(s)) |-> s[NthFunction(s, k)].name]

-----------------------------------------------------------------------------
(* Variables.                                                              *)

Holds(scope, name) == scope.variables[name].type # "Unbound"

SetVariable(scope, name, value) == [scope EXCEPT !.variables[name] = value]

\* Declares a variable in the current scope, which keeps the one it has.
PushVariable(s, name, value) ==
  IF Holds(CurrentScope(s), name)
    THEN s
    ELSE [s EXCEPT ![Len(s)] = SetVariable(@, name, value)]

\* Slip: dynamic scoping, no function boundary.
SearchedEverywhere(s, i) == i \in DOMAIN s

\* The scopes a name is looked up in: down to the next function's scope below
\* the current function's own, and the global scope.
Searched(s, i) == i = 1 \/ Cardinality(FunctionAbove(s, i)) <= 1

\* The position of the scope a name is found in; 0 if there is none.
LookupVariable(s, name) ==
  LET found == {i \in DOMAIN s : Searched(s, i) /\ Holds(s[i], name)}
  IN  IF found = {} THEN 0 ELSE Max(found)

PushOrAssignVariable(s, name, value) ==
  LET i == LookupVariable(s, name)
  IN  [s EXCEPT ![IF i = 0 THEN Len(s) ELSE i] = SetVariable(@, name, value)]

-----------------------------------------------------------------------------
(* Running, output and errors.                                             *)

\* A fresh machine; who creates it pushes the first scope.
VMInit ==
  /\ aborting = FALSE
  /\ exitCode = 0
  /\ output = <<>>

\* Slip: the abort flag forgotten.
CanRunAborting(s, abort) == s # <<>>

CanRun(s, abort) == s # <<>> /\ ~abort

\* Slip: the exit code not kept.
ExitForgetsCode(code) ==
  /\ scopes' = <<>>
  /\ UNCHANGED exitCode

Exit(code) ==
  /\ scopes' = <<>>
  /\ exitCode' = code

WriteTo(stream, text) ==
  output' = IF HasOutputHandler
              THEN Append(output, [stream |-> stream, text |-> text])
              ELSE output

\* Slip: the error reported, the flag not set.
RuntimeErrorGoesOn(s, message) ==
  /\ output' = Append(output, [stream |-> "error", message |-> message,
                               trace |-> GetStackTrace(s)])
  /\ UNCHANGED aborting

\* Written to the error stream whether there is a handler or not.  The flag
\* is never reset.
RuntimeError(s, message) ==
  /\ output' = Append(output, [stream |-> "error", message |-> message,
                               trace |-> GetStackTrace(s)])
  /\ aborting' = TRUE
=============================================================================
