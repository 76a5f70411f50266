-------------------------------- MODULE Repl --------------------------------
(***************************************************************************)
(* The REPL: OpenAutoIt/src/REPLInterpreter.cpp, over one interpreter that *)
(* all its lines share.                                                    *)
(*                                                                         *)
(* A line is wrapped in a call of ConsoleWrite, parsed into a document of  *)
(* its own, set on the interpreter and run.  The document goes when the    *)
(* line is over, and with it the statements that the interpreter's scopes  *)
(* refer to: `mine` tells of each scope whether its statements are those   *)
(* of the document that is alive.                                          *)
(***************************************************************************)
EXTENDS Interpreter

CONSTANT MaxScopes   \* bound: scopes that failed lines may leave behind

ASSUME MaxScopesAssumption == MaxScopes \in Nat \ {0}

\* What a line that does not parse gives; also for no document at all.
EmptyDocument == [statements |-> <<>>, functions |-> <<>>]

ASSUME EmptyDocumentAssumption == EmptyDocument \in Document

VARIABLES
  live,   \* is a line's document alive?
  mine    \* for each scope: does it run statements of that document?

replVars == <<vars, live, mine>>

ReplInit ==
  /\ VMInit
  /\ document = EmptyDocument
  /\ scopes = <<>>
  /\ activation = NoActivation
  /\ pending = <<>>
  /\ trapped = FALSE
  /\ live = FALSE
  /\ mine = <<>>

\* Slip: what the last line left is dropped, and the machine can run again.
SetDocumentAnew(d) ==
  /\ document' = d
  /\ scopes' = PushGlobalScope(scopes, d.statements)
  /\ mine' = <<TRUE>> \o [i \in DOMAIN scopes |-> FALSE]
  /\ aborting' = FALSE

\* Interpreter::SetDocument.  The global scope goes below what is there.
SetDocument(d) ==
  /\ document' = d
  /\ scopes' = PushGlobalScope(scopes, d.statements)
  /\ mine' = <<TRUE>> \o [i \in DOMAIN scopes |-> FALSE]
  /\ UNCHANGED aborting

\* A line that is not empty: parsed, whatever its errors, and set.
ReadLine(d) ==
  /\ ~live /\ ~trapped
  /\ Len(scopes) < MaxScopes
  /\ live' = TRUE
  /\ SetDocument(d)
  /\ UNCHANGED <<exitCode, output, activation, pending, trapped>>

\* Run.  The scopes a step pushes are of the document.
Interpret ==
  /\ live
  /\ Next
  /\ mine' = [i \in DOMAIN scopes' |-> i \in DOMAIN mine => mine[i]]
  /\ UNCHANGED live

\* Slip: one Step for Run.
EndLineAfterStep ==
  /\ live /\ Idle /\ ~trapped
  /\ live' = FALSE
  /\ mine' = [i \in DOMAIN scopes |-> FALSE]
  /\ UNCHANGED vars

\* Run has returned: the document goes.  The interpreter keeps its pointer.
EndLine ==
  /\ live /\ Stopped /\ ~trapped
  /\ live' = FALSE
  /\ mine' = [i \in DOMAIN scopes |-> FALSE]
  /\ UNCHANGED vars

ReplNext == (\E d \in Document : ReadLine(d)) \/ Interpret \/ EndLine

\* The user may stop typing; the process goes on with a line it has.
ReplSpec == ReplInit /\ [][ReplNext]_replVars /\ WF_replVars(Interpret \/ EndLine)

ReplTypeOK ==
  /\ TypeOK
  /\ live \in BOOLEAN
  /\ mine \in [DOMAIN scopes -> BOOLEAN]

-----------------------------------------------------------------------------
(* Safety.                                                                 *)

\* The interpreter touches no statement of a document that is gone: the scope a
\* Step would look at, and the one whose statement is being interpreted, belong
\* to the line's own document, whatever scopes earlier lines left above it.
RunsLiveDocument ==
  /\ Idle /\ Running => live /\ mine[Len(scopes)]
  /\ ~Idle => live /\ activation.scope \in DOMAIN scopes /\ mine[activation.scope]

\* A line that runs to its end, by Exit too, leaves nothing for the next one: no
\* scope, no variable and no half-finished statement.
LinesLeaveNothing ==
  ~live /\ ~aborting => scopes = <<>> /\ Idle /\ pending = <<>>

\* Once a line has failed, no later line does anything: the flag that stops the
\* machine is never taken back, and the REPL goes on reading.
FailedSessionIsSilent ==
  [][aborting /\ Idle => aborting' /\ Idle' /\ UNCHANGED <<output, exitCode>>]_replVars

-----------------------------------------------------------------------------
(* Liveness.                                                               *)

\* Every line comes back to the prompt, failed or not, unless it takes the
\* process with it (or, with several statements on it, loops).
LinesEnd == live ~> (~live \/ trapped)
=============================================================================
