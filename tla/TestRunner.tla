----------------------------- MODULE TestRunner -----------------------------
(***************************************************************************)
(* The test runner: test_runner/src/main.cpp, with the lexer at work.      *)
(*                                                                         *)
(* The runner goes through a directory, one script at a time: it lexes the *)
(* script, takes what it is expected to do from its comments, parses it,   *)
(* runs it if it has no error, and compares.  What parsing reports and     *)
(* what running writes are given with the script.                          *)
(***************************************************************************)
EXTENDS Lexer

CONSTANTS
  Script,      \* the scripts
  Directory    \* the directories, sets of scripts

\* What a literal is, which none of the provers knows.
ASSUME LiteralAssumption == {NullChar, "null character ignored"} \subseteq Character

Mark == {"expect-stdout:", "expect-stderr:", "expect-warning:", "expect-error:"}
Text == Seq(Character)

\* isScript: is it a regular file with the extension .au3?  loads: can it be
\* read?  found: what parsing reports.  log: what running writes, in order, the
\* runtime errors as "cerr".  ends: how running ends.  expects: what the script's
\* author wants and put in its comments, but for what is empty, each [mark, text].
Expectation == [mark: Mark, text: Text]
Diagnostic == [level: {"Warning", "Error", "FatalError"}, message: Text]
Scripts ==
  [isScript: BOOLEAN, loads: BOOLEAN, source: Source, found: Seq(Diagnostic),
   log: Seq([stream: {"stdout", "stderr", "cerr"}, text: Text]),
   ends: {"returns", "traps", "loops"},
   expects: Seq(Expectation)]

ASSUME ScriptAssumption == Script \subseteq Scripts
ASSUME DirectoryAssumption == Directory \subseteq SUBSET Script

Argument == [kind: {"none", "missing"}] \cup [kind: {"directory"}, files: Directory]

VARIABLES
  argument,      \* the command line
  phase,         \* where main and process_file are
  files,         \* what the directory iterator has still to give
  script,        \* the file process_file is at
  block,         \* expected_block
  diagnostics,   \* what the diagnostic consumer kept
  outBuffer,     \* out_buffer, which all files share
  written,       \* how much of the script's log is written
  reports,       \* the verdicts printed, in order
  exitCode

runnerVars == <<argument, phase, files, script, block, diagnostics, outBuffer,
                written, reports, exitCode>>
testVars == <<lexerVars, runnerVars>>

-----------------------------------------------------------------------------
(* Text.                                                                   *)

TrimChar == SkipChar \cup {NullChar, "\n"}
Space    == {" ", "\t", "\n", "VT", "\f", "\r"}

\* The position of the last character that is not blank; 0 if there is none.
LastOf(text)    == Max({0} \cup {i \in DOMAIN text : text[i] \notin TrimChar})
BasicTrim(text) == SubSeq(text, 1, LastOf(text))

\* The first n of some parts of a text or list, one behind the other.
Together(parts, n) ==
  LET upTo[k \in 0 .. Len(parts)] == IF k = 0 THEN <<>> ELSE upTo[k - 1] \o parts[k]
  IN  upTo[n]

\* The handlers, and the expected lines, put a null character behind each.
Line(text)            == Append(text, NullChar)
AddLine(buffer, text) == buffer \o Line(text)
Lines(texts)          == Together([i \in DOMAIN texts |-> Line(texts[i])], Len(texts))

\* The texts of the members of a list that are chosen, among the first n.
TextsUpTo(list, chosen, n) ==
  Together([i \in DOMAIN list |-> IF i \in chosen THEN <<list[i].text>> ELSE <<>>], n)

-----------------------------------------------------------------------------
(* The expected block.                                                     *)

\* Where mark:\s*"(.*)" matches in a text: at the mark, the two quotes.
PlacesIn(text, c) == {i \in DOMAIN text : text[i] = c}
Matches(mark, text) ==
  {m \in PlacesIn(text, mark) \X PlacesIn(text, "\"") \X PlacesIn(text, "\"") :
     /\ m[1] < m[2] /\ m[2] < m[3]
     /\ \A k \in m[1] + 1 .. m[2] - 1 : text[k] \in Space
     /\ \A k \in m[2] + 1 .. m[3] - 1 : text[k] \notin {"\n", "\r"}}

\* The first match, and of those the longest: at most one.
Search(mark, text) ==
  {[mark |-> mark, text |-> SubSeq(text, m[2] + 1, m[3] - 1)] :
     m \in {m \in Matches(mark, text) :
              \A other \in Matches(mark, text) :
                m[1] < other[1] \/ (m[1] = other[1] /\ m[3] >= other[3])}}

\* What a comment expects, in the order of the marks.
ExpectedBy(text) ==
  SetToSeq(Search("expect-stdout:", text)) \o SetToSeq(Search("expect-stderr:", text))
    \o SetToSeq(Search("expect-warning:", text)) \o SetToSeq(Search("expect-error:", text))

\* What the comments expect, in their order.
ExpectedByToken(token) ==
  IF token.kind = "Comment" THEN ExpectedBy(Slice(token.begin, token.end)) ELSE <<>>
Captured(tokens) ==
  Together([n \in DOMAIN tokens |-> ExpectedByToken(tokens[n])], Len(tokens))

\* An empty one ends the search.
UpToEmpty(captured) ==
  SubSeq(captured, 1,
         Min({Len(captured) + 1} \cup {i \in DOMAIN captured : captured[i].text = <<>>}) - 1)

TextsOf(mark, captured) ==
  TextsUpTo(captured, {i \in DOMAIN captured : captured[i].mark = mark}, Len(captured))

Block(captured) ==
  [stdout   |-> BasicTrim(Lines(TextsOf("expect-stdout:", captured))),
   stderr   |-> BasicTrim(Lines(TextsOf("expect-stderr:", captured))),
   warnings |-> {BasicTrim(t) : t \in ToSet(TextsOf("expect-warning:", captured))},
   errors   |-> {BasicTrim(t) : t \in ToSet(TextsOf("expect-error:", captured))}]

-----------------------------------------------------------------------------
(* The comparison.                                                         *)

Error == {"Error", "FatalError"}
HasErrorOccurred(reported) == \E i \in DOMAIN reported : reported[i].level \in Error
Messages(levels, reported) ==
  {reported[i].message : i \in {i \in DOMAIN reported : reported[i].level \in levels}}

\* What is reported and not expected does not count.
ExpectsMatched(expected, buffer, reported) ==
  /\ expected.stdout = BasicTrim(buffer.stdout)
  /\ expected.stderr = BasicTrim(buffer.stderr)
  /\ expected.warnings \subseteq Messages({"Warning"}, reported)
  /\ expected.errors \subseteq Messages(Error, reported)

-----------------------------------------------------------------------------
(* Running the tests.                                                      *)

NoBuffer == [stdout |-> <<>>, stderr |-> <<>>]
NoBlock  == Block(<<>>)
NoScript == [isScript |-> FALSE]

\* No source is being lexed: as after a source that is empty.
Init ==
  /\ argument \in Argument
  /\ phase = "starting"
  /\ files = {} /\ script = NoScript
  /\ block = NoBlock /\ diagnostics = <<>>
  /\ outBuffer = NoBuffer /\ written = 0
  /\ reports = <<>>
  /\ exitCode = 0
  /\ source = <<>> /\ Fresh

\* The process is over.
Return(code) ==
  /\ phase' = "over"
  /\ exitCode' = code
  /\ UNCHANGED <<argument, files, script, block, diagnostics, outBuffer, written,
                 reports, lexerVars>>

MissingArgument  == phase = "starting" /\ argument.kind = "none" /\ Return(2)
MissingDirectory == phase = "starting" /\ argument.kind = "missing" /\ Return(3)

OpenDirectory ==
  /\ phase = "starting" /\ argument.kind = "directory"
  /\ phase' = "choosing"
  /\ files' = argument.files
  /\ UNCHANGED <<argument, script, block, diagnostics, outBuffer, written, reports,
                 exitCode, lexerVars>>

\* The order of the directory's entries is the system's.
SkipEntry(f) ==
  /\ phase = "choosing" /\ f \in files
  /\ ~f.isScript
  /\ files' = files \ {f}
  /\ UNCHANGED <<argument, phase, script, block, diagnostics, outBuffer, written,
                 reports, exitCode, lexerVars>>

Report(f, passed) ==
  /\ reports' = Append(reports, [script |-> f, passed |-> passed])
  /\ phase' = "choosing"

\* A file that cannot be read fails.
LoadFails(f) ==
  /\ phase = "choosing" /\ f \in files
  /\ f.isScript /\ ~f.loads
  /\ files' = files \ {f}
  /\ Report(f, FALSE)
  /\ UNCHANGED <<argument, script, block, diagnostics, outBuffer, written, exitCode,
                 lexerVars>>

\* A source manager, a diagnostic consumer and a lexer of its own.
LoadFile(f) ==
  /\ phase = "choosing" /\ f \in files
  /\ f.isScript /\ f.loads
  /\ files' = files \ {f}
  /\ script' = f
  /\ phase' = "lexing"
  /\ Begin(f.source)
  /\ UNCHANGED <<argument, block, diagnostics, outBuffer, written, reports, exitCode>>

Lex ==
  /\ phase = "lexing"
  /\ GetNextToken
  /\ UNCHANGED runnerVars

NullCharacterIgnored == [level |-> "Warning", message |-> <<"null character ignored">>]

ExtractExpectedBlock(tokens) ==
  \E captured \in {UpToEmpty(Captured(tokens))} : block' = Block(captured)

\* Slip: the buffers of the last script kept.
PrepareUncleared ==
  /\ phase = "lexing" /\ IsFinished
  /\ ExtractExpectedBlock(stream)
  /\ diagnostics' = [i \in 1 .. nullCharacters |-> NullCharacterIgnored] \o script.found
  /\ written' = 0
  /\ phase' = IF HasErrorOccurred(diagnostics') THEN "comparing" ELSE "running"
  /\ UNCHANGED <<argument, files, script, outBuffer, reports, exitCode, lexerVars>>

\* The expected block, parsing, and the buffers cleared; a script with an error
\* is not run.
Prepare ==
  /\ phase = "lexing" /\ IsFinished
  /\ ExtractExpectedBlock(stream)
  /\ diagnostics' = [i \in 1 .. nullCharacters |-> NullCharacterIgnored] \o script.found
  /\ outBuffer' = NoBuffer
  /\ written' = 0
  /\ phase' = IF HasErrorOccurred(diagnostics') THEN "comparing" ELSE "running"
  /\ UNCHANGED <<argument, files, script, reports, exitCode, lexerVars>>

\* The handlers of the script's machine.  Runtime errors go past them.
ScriptWrites ==
  /\ phase = "running" /\ written < Len(script.log)
  /\ LET entry == script.log[written + 1]
     IN  outBuffer' = IF entry.stream = "cerr"
                        THEN outBuffer
                        ELSE [outBuffer EXCEPT ![entry.stream] = AddLine(@, entry.text)]
  /\ written' = written + 1
  /\ UNCHANGED <<argument, phase, files, script, block, diagnostics, reports, exitCode,
                 lexerVars>>

\* A script that traps takes the runner with it; one that loops holds it up.
ScriptEnds ==
  /\ phase = "running" /\ written = Len(script.log) /\ script.ends # "loops"
  /\ phase' = IF script.ends = "traps" THEN "killed" ELSE "comparing"
  /\ UNCHANGED <<argument, files, script, block, diagnostics, outBuffer, written, reports,
                 exitCode, lexerVars>>

Compare ==
  /\ phase = "comparing"
  /\ Report(script, ExpectsMatched(block, outBuffer, diagnostics))
  /\ UNCHANGED <<argument, files, script, block, diagnostics, outBuffer, written, exitCode,
                 lexerVars>>

\* Slip: the verdict of the last script instead of all.
LastFailure == {n \in DOMAIN reports : n = Len(reports) /\ ~reports[n].passed}

Failures == {n \in DOMAIN reports : ~reports[n].passed}

Finish ==
  /\ phase = "choosing" /\ files = {}
  /\ Return(IF Failures # {} THEN 1 ELSE 0)

Next ==
  \/ MissingArgument
  \/ MissingDirectory
  \/ OpenDirectory
  \/ \E f \in files : SkipEntry(f)
  \/ \E f \in files : LoadFails(f)
  \/ \E f \in files : LoadFile(f)
  \/ Lex
  \/ Prepare
  \/ ScriptWrites
  \/ ScriptEnds
  \/ Compare
  \/ Finish

Spec == Init /\ [][Next]_testVars /\ WF_testVars(Next)

-----------------------------------------------------------------------------
(* What the verdicts are worth.                                            *)

\* The scripts of the directory on the command line.
Given == IF argument.kind = "directory" THEN argument.files ELSE {}

TypeOK ==
  /\ LexerTypeOK
  /\ argument.kind \in {"none", "missing", "directory"}
  /\ phase \in {"starting", "choosing", "lexing", "running", "comparing", "killed", "over"}
  /\ files \subseteq Given /\ script \in Given \cup {NoScript}
  /\ block \in [stdout: Text, stderr: Text, warnings: SUBSET Text, errors: SUBSET Text]
  /\ diagnostics \in Seq(Diagnostic)
  /\ outBuffer \in [stdout: Text, stderr: Text]
  /\ written \in Nat
  /\ reports \in Seq([script: Given, passed: BOOLEAN])
  /\ exitCode \in 0 .. 3

\* What can be told of a list of texts: blank ones at the end are not seen, nor
\* blanks at the end of the last.
Visible(texts) ==
  LET last == Max({0} \cup {i \in DOMAIN texts : BasicTrim(texts[i]) # <<>>})
  IN  [i \in 1 .. last |-> IF i = last THEN BasicTrim(texts[i]) ELSE texts[i]]

\* What running the script writes to a stream: nothing if it has an error.
EntriesOf(f, stream_) == {i \in DOMAIN f.log : f.log[i].stream = stream_}
Wrote(f, stream_) ==
  IF HasErrorOccurred(f.found) THEN <<>> ELSE TextsUpTo(f.log, EntriesOf(f, stream_), Len(f.log))

Reported(f, levels) ==
  Messages(levels, f.found) \cup
    (IF "Warning" \in levels /\ NullChar \in ToSet(f.source)
       THEN {NullCharacterIgnored.message} ELSE {})

\* What a script expects is what running it alone shows.
DoesAsExpected(f) ==
  /\ f.loads
  /\ Visible(Wrote(f, "stdout")) = Visible(TextsOf("expect-stdout:", f.expects))
  /\ Visible(Wrote(f, "stderr")) = Visible(TextsOf("expect-stderr:", f.expects))
  /\ {BasicTrim(t) : t \in ToSet(TextsOf("expect-warning:", f.expects))}
       \subseteq Reported(f, {"Warning"})
  /\ {BasicTrim(t) : t \in ToSet(TextsOf("expect-error:", f.expects))}
       \subseteq Reported(f, Error)

\* A script passes just when it does, message by message, what the comments in
\* it expect, whatever scripts were run before it in the same process and
\* whatever strings and comments the lexer had to get past.
VerdictsAreOfTheScript ==
  \A n \in DOMAIN reports : reports[n].passed <=> DoesAsExpected(reports[n].script)

\* When the runner returns, it has judged every script of the directory once and
\* no other file, and says by its exit code whether all of them passed.
ExitTellsVerdicts ==
  phase = "over" /\ argument.kind = "directory" =>
    /\ {reports[n].script : n \in DOMAIN reports} = {f \in argument.files : f.isScript}
    /\ IsInjective([n \in DOMAIN reports |-> reports[n].script])
    /\ exitCode = IF \A f \in argument.files : f.isScript => DoesAsExpected(f) THEN 0 ELSE 1

\* The runner comes to its end unless a script does not: every turn of the lexer
\* consumes something, but the one that stops at the closing word of a comment,
\* which the next turn consumes.
TestsEnd ==
  (argument.kind = "directory" => \A f \in argument.files : f.ends = "returns")
    => <>(phase = "over")
=============================================================================
