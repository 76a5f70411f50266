----------------------------- MODULE ScriptRun -----------------------------
(***************************************************************************)
(* What running one script promises to whoever started it (OpenAutoIt's    *)
(* main.cpp, the test runner, a shell): an exit code and what is written,  *)
(* in order.                                                               *)
(*                                                                         *)
(* After the first runtime error no new statement starts.  The statement   *)
(* that failed may still write, fail again and even exit: then it is over, *)
(* and with it the script.                                                 *)
(***************************************************************************)
EXTENDS Naturals, Sequences

CONSTANTS Written, Reported, Code

VARIABLES
  phase,   \* "running", "failing", "failed", "ended" or "killed"
  code,    \* the exit code
  log      \* what was written and reported

TypeOK ==
  /\ phase \in {"running", "failing", "failed", "ended", "killed"}
  /\ code \in Code
  /\ log \in Seq(Written \cup Reported)

Init ==
  /\ phase = "running"
  /\ code = 0
  /\ log = <<>>

Active == phase \in {"running", "failing"}

\* One entry of S is added to the log.
Logs(S) ==
  /\ Len(log') = Len(log) + 1
  /\ log' = Append(log, log'[Len(log) + 1])
  /\ log'[Len(log) + 1] \in S

Write ==
  /\ Active
  /\ Logs(Written)
  /\ UNCHANGED <<phase, code>>

Report ==
  /\ Active
  /\ phase' = "failing"
  /\ Logs(Reported)
  /\ UNCHANGED code

\* The statement that failed is over.
GiveUp ==
  /\ phase = "failing"
  /\ phase' = "failed"
  /\ UNCHANGED <<code, log>>

\* The script ran out of statements, which a failing one cannot do.
Finish ==
  /\ phase = "running"
  /\ phase' = "ended"
  /\ UNCHANGED <<code, log>>

ExitWith ==
  /\ Active
  /\ phase' = "ended"
  /\ code' \in Code
  /\ UNCHANGED log

Kill ==
  /\ Active
  /\ phase' = "killed"
  /\ UNCHANGED <<code, log>>

Next == Write \/ Report \/ GiveUp \/ Finish \/ ExitWith \/ Kill

Spec == Init /\ [][Next]_<<phase, code, log>>
=============================================================================
