# OpenAutoIt in TLA+

TLA+ modules, TLC runs and machine-checked proofs about OpenAutoIt, an
interpreter for the AutoIt language written in C++.  Paths are relative to the
repository's root.  `PROJECT.json` maps every definition to the lines it
translates and lists the runs, the theorems, the findings and the hazards.

## The system

A script goes through a pipeline, in one thread and one process:

    main / REPL / test_runner
        |  ParseFile, ParseString
        v
    Parser --LoadFile--> SourceManager        Parser --ProcessFile--> Lexer
        |  errors --> DiagnosticEngine            TokenStream per file
        v
    ASTDocument (statements, functions)
        |  SetDocument, Run
        v
    Interpreter --scopes, variables, RuntimeError, Exit--> VirtualMachine
        |  values                                             |  output handlers
        v                                                     v
     Variant                                            stdout, stderr

| component | state | operations | what is hard |
|---|---|---|---|
| Interpreter (`runtime/src/Interpreter.cpp`) | the document, and on the C++ stack the statement and expressions in progress | `Run`, `Step`, `InterpretStatement`, `InterpretExpression`, `InterpretFunctionCall`, the built-ins | `Step` holds a reference to a scope while the statement pushes others or clears them all; a call only pushes its body, which runs when the calling statement is over; evaluation goes on after a runtime error |
| VirtualMachine (`runtime/src/VirtualMachine.cpp`) | the list of scopes (function and block scopes, the global one at the back), the abort flag, the exit code, the handlers | push and pop of scopes, lookup and assignment of variables, `CanRun`, `Exit`, `RuntimeError`, `Print` | which scopes a name is looked up in; what survives an error or an exit |
| Variant (`runtime/src/Variant.cpp`) | one value: a type tag and a union | conversions, arithmetic, concatenation | wrap-around, division, doubles at the edge of the integers, numerals in strings |
| REPL (`OpenAutoIt/src/REPLInterpreter.cpp`) | one Interpreter and VirtualMachine kept from line to line | `Loop`: read, wrap in a call of `ConsoleWrite`, parse, set the document, run | the machine is reused after an error; the document dies with the line, and scopes left behind refer to its statements |
| Parser, documents and includes (`parser/src/Parser.cpp` 137-441, 599-701) | the stack of parsing contexts, the include-once set | `ParseDocument`, `ParseIncludeDirective`, push and pop of contexts | files in the middle of files, recursion, paths, recovery from errors |
| Parser, statements (448-597, 703-1091) | position in the token stream | the recursive descent | newlines, missing ends, recovery |
| Parser, expressions (58-125, 1093-1712) | position in the token stream | precedence climbing | precedence, associativity, what is consumed on the way out |
| SourceManager (`parser/src/SourceManager.cpp`) | loaded files by path, the local search path | `LoadFile`, `SetLocalSearchPath` | two spellings of one path; who sets the search path back |
| Lexer (`parser/src/Lexer.cpp`), TokenStream | position, line, column, whether it is in a comment of several lines | `GetNextToken`, `ProcessFile` | the closing word of a comment is read twice; what open strings and comments swallow; positions after tokens of several lines |
| DiagnosticEngine (`parser/src/DiagnosticEngine.cpp`) | counters | `Report` | the error limit is never set |
| test_runner (`test_runner/src/main.cpp`) | the verdicts, and the output buffers, which all files share | walk over a directory; per file: extraction of the expected output from comments, parse, run, comparison | what a file leaves in the buffers; an empty expectation, which ends the block; blanks and ends of lines in the comparison; runtime errors, which go past the buffers |
| ASTDumper, fuzzing, samples, CI scripts | none | | not modelled |

Nothing is persisted, nothing runs concurrently and no message is lost: the
hazards of this code are sequences of legal steps that reach a state nobody
wrote a test for.  They are listed in `PROJECT.json` under "hazards", each at its
line, with the properties that would catch it.

## The modules

| module | models | kind |
|---|---|---|
| `Variant` | the values a script can make and their operations | operators |
| `VirtualMachine` | the scope stack, abort flag, exit code and output, with the machine's operations | state and operators |
| `Interpreter` | `Run`, `Step`, the statements, expressions, calls and built-ins | state machine |
| `ScriptRun` | what a run promises its caller | abstract specification |
| `Reference` | what a document means: a recursive interpreter on the tree | definition, TLC only |
| `MCInterpreter` | the documents TLC runs | model checking |
| `TokenStream` | the stream of a file's tokens and the helpers that move on it | operators |
| `Expressions` | the parser's expressions | operators |
| `Statements` | the parser's statements and function definitions | operators |
| `ParsedExpression` | one call of `ParseExpression`, and what an expression should be | state machine |
| `MCExpressions` | token streams and trees of expressions for TLC | model checking |
| `ParsedStatement` | one call of `ParseStatement` or `ParseFunctionDefinition`, how statements and functions are written, and one call of any of the three | state machine |
| `MCGrammar` | statements and functions for TLC, beside the expressions | model checking |
| `SourceManager` | paths, the search path, loaded files | state and operators |
| `Parser` | `ParseFile`, `ParseString`, `ParseDocument`, `ParseIncludeDirective` | state machine |
| `MCParser` | files for TLC, what they mean; joins `Parser` and `Statements` | model checking |
| `Lemmas` | sequences and numbers | lemmas |
| `Repl` | the lines of a session on one interpreter | state machine |
| `MCRepl` | lines for TLC | model checking |
| `Lexer` | `GetNextToken`, on characters | state machine |
| `TestRunner` | `main` and `process_file` of the test runner | state machine |
| `MCTestRunner` | sources and scripts for TLC | model checking |
| `VirtualMachineProofs`, `InterpreterProofs` | the interpreter's theorems | proofs |
| `ReplProofs` | the session's theorems | proofs |
| `GrammarProofs` | the theorems of the recursive descent | proofs |
| `ParserProofs` | the theorems of the parser's loop | proofs |
| `LexerProofs`, `TestRunnerProofs` | the lexer's theorems, alone and in the test runner | proofs |

`Interpreter` EXTENDS `VirtualMachine` EXTENDS `Variant`; `Parser` EXTENDS
`SourceManager` EXTENDS `TokenStream`, and takes how a statement and a function
are parsed as the constants `StatementAt` and `FunctionDefinitionAt`, which
`MCParser` gives the values of `Statements` EXTENDS `Expressions`.  So the
parser's loop is proved about for any grammar of statements that only moves
forward, and `GrammarProofs` shows that this one does.

The recursive descent is written without recursive operators, for which the
provers have no rule.  A function that closes a circle of calls, such as
`ParseExpression`, is a constant operator; what the code's function does is an
operator of its own, `ExpressionAt`, which calls the constants; and
`ExpressionDescent` and `StatementDescent` say that on every stream the one is the
other.  There are such operators: a call in the bodies is on a later stream, or on
the same one and for a function that comes before in a fixed order (a statement
calls an expression, an expression a primary), so the circle is never walked
without a token being consumed, and every recursion ends with the tokens.  TLC
gives the constants these values (`MCParseExpression` is `ExpressionAt`) and
evaluates the recursion; the theorems of the grammar have the two as hypotheses.

`Repl` EXTENDS `Interpreter`: a session's step is a step of the interpreter, or
the beginning or end of a line.  `TestRunner` EXTENDS `Lexer`, whose steps are
its own while it lexes a script.  The proofs are composed the same way:
`ReplProofs` EXTENDS `InterpreterProofs` and uses that every step of the
interpreter keeps its invariant; `TestRunnerProofs` EXTENDS `LexerProofs`.

A definition whose comment says "Slip:" is not the code's.  It is the code with
a plausible mistake, and `PROJECT.json` pairs it, under "mutants", with the
property that finds the mistake.

## The interpreter

### State

| variable | code |
|---|---|
| `scopes` | `VirtualMachine::m_Scopes`, reversed: the global scope is `scopes[1]` and the current one is last, so that a position keeps naming the same scope while others are pushed, as a reference to an element of a `std::list` does |
| `aborting`, `exitCode` | `m_Aborting`, `m_ExitCode` |
| `output` | what the two output handlers were given, in order, with the runtime errors and their stack traces |
| `document` | `Interpreter::m_Document` |
| `activation` | the statement that `Step` is interpreting, the position of the scope it holds a reference to (`current_scope`, Interpreter.cpp:57), and the values of its operands so far |
| `pending` | the calls of `InterpretExpression` in progress, outermost first, each with the values of its operands so far |
| `trapped` | whether the smallest integer was divided by -1, which kills the process |

`activation` and `pending` are the C++ stack of one `Step` made explicit.  They
are what makes the interesting interleaving visible: an expression deep in a
statement pushes scopes, fails or exits, and the statement that holds the
reference goes on.

### Actions

`PopFinishedScope` and `BeginStatement` are the two branches of `Step`.  A
statement ends in `TakeIfCase`, `TakeElseCase`, `AssignVariable`, ... whose last
conjunct, `FinishStatement` or its absence, is the `StatementFinished` that the
code returns with `Step`'s conditional increment; `EnterWhile` returns `No` and
leaves the index where it is.  `EvaluateOperand` descends into an operand, the
other expression actions apply an operator to its operands' values and return.
`CallFunction` binds arguments and pushes the scopes of the function and of each
default value, in the code's order; nothing runs the body until the statement
that called is over.  `Fail` is `RuntimeError` followed by the return of an
undefined value: evaluation goes on.

Integers are two's complement of a parameter width (`IntHalf`), doubles keep
sign, class and halves (no operator of the interpreter computes on doubles), and
a conversion that is undefined in C++ gives any of the values the build can
produce.

### What the run `interpreter` checks

13,961 states from 628 documents (`MCDocument`):

* *plain* documents: every pair of 14 statements, alone and behind `$x = 2`, with
  a loop, nested Ifs, a function with a missing argument, a recursive function,
  defaults, a duplicate definition, Exit.  They call functions in statements of
  their own only, so that `Reference` gives their meaning.
* *wild* documents: 29 expressions in every position an expression has (a
  statement, an argument, an initialiser, both conditions of an If, a loop's
  condition, an exit code), with calls inside calls, several defaults, failures,
  unimplemented nodes and values at the ends of their range.
* one that loops for ever, and three for the findings below.

| property | what it says |
|---|---|
| `TypeOK` | values keep their type and range, also at the edges |
| `ActivationScopeLives` | `Step`'s reference is to a live scope, whose index is still at the statement, through every push, failure and exit |
| `GlobalScopeAtBottom` | the back of the list is the global scope and nothing else is |
| `TracesEndAtGlobal` | a stack trace leads from the function that failed to the script |
| `WritesAsReference`, `EndsAsReference` | at each step the output is a prefix of what the document means; in the end it is that, with its exit code and failure |
| `SuspendedScopesStay` | only the scope whose statement ends moves, by one |
| `SuspendedFunctionsPrivate` | no callee changes the variables of a function that waits for it |
| `StatementsFinish`, `FailureStopsTheScript`, `ScriptsEnd` | a statement is finite; an error ends the run; so does the end of a script that does not loop |
| `ImplementsScriptRun` | the run implements `ScriptRun` |

`IntHalf` = 32 puts the multiplication, the negation and the division of the
extremes over the edge with two-digit numerals; `DoubleMax` = 200 exceeds the
largest integer, as in the code, and `ExitRange` = 16 is smaller than the
integers, so exit codes are cut, as 2^64 integers are to 2^32 codes.  Nesting
goes beyond six function scopes, more than any relation between two scopes needs.  There is no state constraint: every document but the looping one has a
finite run.

**Fairness.**  `WF_vars(Next)`: one thread runs `while (CanRun()) Step()` and
nothing it calls blocks.  The state graph of a document is a line, but for
undefined conversions, so weak fairness says only that the thread goes on.

**Abstraction.**  `ScriptRun` is what whoever starts a script can see of it; the
interpreter is shown to implement it, by TLC on the documents above and by a
theorem for every document.  It has a phase, a code and a log.  The phase is
computed from `trapped`, `scopes`, `aborting` and `activation`; the log is
`output`.  It says what the source does not say in one place: after the first
error no statement starts, but the one that failed may still write, report and
exit, and an exit wins over the error.

## The parser

### Expressions and statements

A parsing function takes a stream and gives at most one tree and the stream it
leaves, also when it fails: which tokens a failure has eaten decides where the
loop above goes on.  Errors the diagnostic engine counts travel with the stream;
`err()`, which prints and is not counted, is no more than a failed result.  All
built-ins have one token kind, as have all macros; the parser does not tell them
apart.

Run `grammar` (170,920 states, one parse each): the variable `called` says which of
the three functions is called.  Expressions are parsed from every stream of up to five
tokens of nine kinds, every chain of up to five operands over one operator of
each level (and both additive ones), every tree of two levels over three kinds of
leaves.  How a tree is written, which literals it holds and which tree a chain has
(`Written`, `Leaves`, `ChainTree`) are constants as the descent's functions are:
trees and chains are finite, so there are such operators (`WrittenAssumption`,
`LeavesDescent`, `ChainTreeAssumption`).

| property | what it says |
|---|---|
| `TypeOK` | a parse stays in its stream, and is never of nothing: the loops over arguments end |
| `ReadsBackWhatIsWritten` | a tree written with parentheses is read back to its last token |
| `ChainsBindByLevel` | a chain gets the tree of AutoIt's levels *exactly* when, behind an operator that gives way to a tighter one, no operator is as loose as it or looser |
| `OperandsKept` | in any stream, the operands of the tree are the numbers consumed, in order, unless an argument of a call failed |

The condition of `ChainsBindByLevel` is what the code does and not what it should
do: see the finding `operator_lost`.

In the same run are 81 statements and 15 functions, with
blocks in blocks, ElseIf and Else, empty bodies, default values and `ByRef`, each
alone and with one of seven other lines behind it (`NextLine`), and these seven
streams alone, which are in no tree's form.  `WrittenStatement` is the constant that writes a statement, as `Written`
is for expressions.  Between two lines stands `LineBreak`, a comment and two new lines
in the run and any such tokens in the theorem; nothing stands between the
last statement of a While and its `WEnd`, nor, but for the new line of its head,
before the first statement of a function.  What happens to a While otherwise is the
finding `while_wend`.

| property | what it says |
|---|---|
| `StatementsReadBack` | a statement or function is read back as it was written, with everything in it, and nothing behind it is touched |

### Documents and includes

| variable | code |
|---|---|
| `contexts` | `m_ParsingContextStack`: a file and its stream, the current one last |
| `includeOnce` | `m_IncludeOnceFiles`; a file is its path, or the one in memory |
| `localSearchPath`, `sourceFiles` | `RealFSSourceManager::m_LocalSearchPath`, `m_SourceFiles` |
| `document` | the statements and functions of the `ASTDocument` |
| `errors`, `fatal` | the counters of the diagnostic engine |
| `failures` | how often `err()` said that a statement or function failed |
| `argument` | what the parser was called with; a parser parses once, as everywhere in the repository |
| `system` | the file system, which does not change during a parse |

Every turn of the loop of `ParseDocument` is one action; the cases of its switch
that go on differently are actions of their own.  `Include` is the whole
directive: the name, the end of the line, the lookup, the load, the push.

Run `parser` (36,172 states): files `main`, `a` and `s/b` in 665 combinations of
one to three lines each, which include each other and themselves in quotes and
angles, by several paths, with and without `#include-once`, and in 133 of them with
the other result that `std::filesystem::absolute` of an empty path has; 16 sources
with errors, each with what it should give;
1,024 Ifs with an ElseIf and an Else whose three bodies hold up to two parts that
parse or do not, on lines of their own or all on one.
`Expanded` in `MCParser` is the meaning of the files: textual expansion, to the
depth of the limit.

| property | what it says |
|---|---|
| `SearchPathFollowsFile` | wherever the loop is, names are looked up next to the current file |
| `NestingBounded` | no more files are open than the limit |
| `IncludesExpand` | a finished parse gives the expansion, in order, with one error per include that is too deep or finds nothing |
| `GoesOnBehindErrors` | after each kind of error the loop goes on at the right token, and counts |
| `BodiesWholeOrEmpty` | a statement that fails in an If costs a counted failure, or the whole ElseIf or Else body it is in and nothing else: no part of a body is run |
| `OnceFilesNotReentered` | a file that said `#include-once` is not entered again |
| `ParsingEnds` | the loop ends |

`MaxNumberOfIncludeNesting` is 3 where the code has 256: with three files that
include each other, three levels are enough for a cycle through all of them, a
return to each, and an include at, below and above the limit.  The theorem
`Nesting` has it for every limit.

**Fairness.**  `WF_vars(ParseDocument)`: the loop is one thread's, and does not
wait.  No fairness on `Call`: nothing promises that somebody calls the parser.

## The REPL

### State and actions

`Repl` adds two variables to the interpreter's:

| variable | code |
|---|---|
| `live` | whether `Loop` is between `SetDocument` and the end of the line, when the `ASTDocument` of the line is alive |
| `mine` | of each scope, whether the statements it refers to are those of that document; the others refer to documents that are gone |

`ReadLine` is a line that is not empty: what parsing it gave is set on the
interpreter, whose global scope goes *below* what is there (`emplace_back`).
`Interpret` is a step of the interpreter, `EndLine` the return of `Run`, after which
the document is destroyed while the interpreter keeps its pointer to it and its
scopes keep their views of its statements.

### What the run `repl` checks

11,334 states: sessions of lines of any number out of 18, with lines that do not
parse, that call functions that do not exist, read variables of earlier lines,
fail, trap, and, since a line may close the call of `ConsoleWrite` itself, with
several statements and `Exit`.

| property | what it says |
|---|---|
| `RunsLiveDocument` | no step looks at, or is in the middle of, a statement of an earlier line |
| `LinesLeaveNothing` | a line that did not fail leaves no scope, no variable and nothing half evaluated |
| `FailedSessionIsSilent` | after a line that failed nothing is written and no exit code is set, ever |
| `LinesEnd` | every line comes back to the prompt, or takes the process with it |

`RunsLiveDocument` holds for a reason that is not in `REPLInterpreter.cpp`: scopes
are left behind only by a line that failed, and the flag that stopped it is never
taken back (VirtualMachine.hpp:106).  Whoever resets the flag, so that a session
survives a mistake, has the next line run the statements of a document that was
destroyed: the mutant `SetDocumentAnew` does that.

`MaxScopes` = 3 bounds the scopes that failed lines leave behind, one or more
each.  Two are enough to have one above another's, and the proofs hold for every
bound.

**Fairness.**  `WF(Interpret \/ EndLine)`: the process goes on with a line it has.
None on `ReadLine`: the user may stop typing, which is why the run does not check
for deadlock.

What the model also shows, without a property: the machine has no output handler,
so that nothing is written to it (`HasOutputHandler` = FALSE); there is no way
out of `Loop`, as nothing sets `m_Running` to false and at the end of the input
`getline` gives empty lines for ever.

## The lexer and the test runner

### The lexer's state and actions

| variable | code |
|---|---|
| `source`, `iterator` | `m_Source`, `m_Iterator`, an offset |
| `insideMultiLineComment` | `m_InsideMultiLineComment` |
| `lineNumber`, `column` | `m_LineNumber`, `m_Column` |
| `stream` | the tokens: kind, begin and end of the text, line and column |
| `nullCharacters` | how many warnings `NullCharacter` were reported |

There is one action for each branch of `GetNextToken`, guarded by what the
branches before it did not take.  A source is a sequence of characters; the
offsets a branch stops at are given by what it looks for (`EndOfRun`, `PlacesOf`),
not by its loop.  `AdvanceOverComment` keeps what the code does to the column: the
characters of a word that begins with `#` inside a comment are consumed by a loop
that leaves it alone.

### The runner's state and actions

| variable | code |
|---|---|
| `argument`, `files` | the command line; what the directory iterator has still to give, in an order of its own |
| `phase`, `script` | where `main` and `process_file` are, and with which file |
| `block` | `expected_block` |
| `diagnostics` | what the `TestDiagnosticConsumer` kept |
| `outBuffer` | `out_buffer`, the one of the process |
| `written` | how much of the script's output is written |
| `reports`, `exitCode` | the verdicts, in order; what `main` returns |

`LoadFile`, `Lex`, `Prepare`, `ScriptWrites`, `ScriptEnds` and `Compare` are
`process_file`; the other actions are `main`.  What parsing reports and what
running writes are not computed here: they come with the script, as it is what
the other modules are about.  So does `expects`, what the author of the script
put into its comments: it is not read by any action, and `DoesAsExpected` compares
the script with it line by line, without the lexer, the regular expressions and
the buffers.

### What the run `tests` checks

59,178 states.  For the lexer, each source in a script that is not run: every
three of 15 pieces (a comment's two words, a line end, a quote, digits, letters,
`_ ; $ < = (`, a blank, a carriage return, a null character), every four of six
pieces in a comment, of five with two kinds of quotes, of `0 x 1 .`, every three
of five operators' characters, and words.  For the verdicts: up to two
expectations against up to two writes, out of blank, empty and ordinary ones
(an empty expectation has no other behind it, see below); both streams and runtime errors; warnings and errors; expectations in strings,
in comments of several lines, behind open strings and comments; and directories
of two scripts out of nine, in either order, among them one that is no script,
one that cannot be read, one that traps and one that loops.

| property | what it says |
|---|---|
| `TokensInOrder` | tokens stand as in the source, do not overlap and are behind the lexer, which goes back to the closing word of a comment |
| `NothingIsLost` | what is behind the lexer and in no token says nothing, or an open string or comment has swallowed the rest |
| `LongestTokens` | a token is what its kind says and could not be longer |
| `LinesLagByStrings` | a line number is the token's, less the line ends in strings before it |
| `ColumnsTell` | a column is the token's, on lines that begin outside a string and hold no `#` of a comment |
| `CommentsBracketed` | between an opening and a closing directive is exactly one comment, even an empty one |
| `VerdictsAreOfTheScript` | a script passes just when it does what its comments expect, whatever was run before it and whatever the lexer had to get past |
| `ExitTellsVerdicts` | every script is judged once, and the exit code is that of all verdicts |
| `TestsEnd` | the runner ends unless a script loops or traps |

`LinesLagByStrings` and `ColumnsTell` say how far the positions in messages can be
relied on: a string over several lines makes the numbers of all later lines too
small, and the column is exact only on the lines described.  `Visible` in
`TestRunner` says the same of verdicts: blank lines at the end, and blanks at the
end of the last line, are not compared; what is reported and not expected is not
looked at; a runtime error goes to `cerr` and no expectation is compared with it.

An empty expectation says nothing, so `expects` holds the others.  What it does to
the ones behind it is a run of its own, `empty_expectation`: scripts that write the
same and differ only in an empty expectation, before the other, behind it or not at
all, in one directory.  The comments at main.cpp:231 and 247 have it ignored; the
`break` there leaves the loop over the tokens, and a script with the empty one first
fails where the others pass.

Three or four pieces are enough for every pair of branches in a row, with what
the second leaves; two scripts, for what one finds of another.

**Fairness.**  `WF_testVars(Next)`: one thread.  The process ends, by returning or
by the trap of a script, so the run does not check for deadlock.  Texts in the
scripts hold no null characters, which the runner uses as ends of lines
(`PlainScripts` in `TestRunnerProofs`).

## What is proved

TLAPS proves the following for all values of the constants that satisfy the
named assumptions.

**Interpreter** (`InterpreterProofs`): `Spec => []IInv`, from which `TypeCorrect`,
`ActivationScope`, `GlobalScope`, `StackTraces`, `SuspendedScopes`,
`SuspendedFunctions` and `ScriptRunImplemented` follow.

    IInv == TypeOK /\ EvaluationOK /\ ActivationScopeLives
              /\ WellFormed(scopes, document.statements)

* `TypeOK` alone is not inductive: that a value returned goes to an operand that
  is missing, and that an operator finds all its operands, needs `EvaluationOK`
  (a pending evaluation has fewer values than operands, and the last of them no
  more than it has).
* `ActivationScopeLives` needs that pushes leave the lower scopes alone and that
  `Exit`, which clears the list, ends the statement's evaluation too.
* `GlobalScopeAtBottom` speaks of names only; `WellFormed` adds that no index is
  beyond its statements and that what calls push is neither global nor started.

* `StackTraces`: a trace lists the functions' scopes from the top.  That the last
  of them is the global one needs that this scope is a function's and at the
  bottom (`WellFormed`), and that the k-th function from the top is one for each k
  up to their number, an argument about the cardinality of sets of positions.
* `SuspendedScopes` and `SuspendedFunctions` follow from what every step does to
  the scopes (`StepChanges`): it leaves them, pops the last, clears them all,
  moves the one of the activation by one, extends them, or sets a variable of a
  scope the lookup finds, which is the global one, a block's, or not below the last
  function.
* `ScriptRunImplemented` is `Spec => ImplementsScriptRun`.  In an invariant state
  with a statement in progress the phase is "failing" or "running" by the flag
  alone.  An evaluation is `Write`, `Report` or nothing; a statement that is over
  is `ExitWith`, or `GiveUp` when one has failed; a step between statements is
  `Finish` when it pops the last scope; a trap is `Kill`.  That a finished
  statement leaves at least one scope unless it exits, so that it is not taken
  for the script's end, is where `IInv` is needed.

`VirtualMachineProofs` shows, per operation of the machine, what it does to a
well-formed list, and that every operation of values stays in `Variant`.  The proof of a step has one lemma per action.  Assumed are the shapes
of programs (`ExpressionAssumption`, `StatementAssumption`,
`DocumentAssumption`), that no function is called `<global>` or `<block_scope>`
(`<` cannot be in an identifier), and that the characters needed to write numbers
and type names are characters.  How wide integers are, how many programs there are
and how deep they nest is not.

**Parser** (`ParserProofs`): `Spec => []IInv`, with `TypeCorrect`, `SearchPath`,
`Nesting`, `TokensOfFiles` and the action properties `OnceFiles` and `Progress`.

    IInv == TypeOK /\ SearchPathFollowsFile /\ NestingBounded /\ NotBegun

`NotBegun` (before the call there is no context and no include-once file) is what
the call needs: a second one on the same parser would break the others.
`OnceFiles` is proved of a step from `IInv`: only `Include` pushes, and it reads
the set first.  The argument about streams is in the lemmas on `Ahead(s)`, the
streams that `s` may become: every helper of `TokenStream` stays ahead, and
composing them does.

A turn of the loop pops a context, moves the current stream strictly ahead
(`Advances`), or does so and puts a file on top (`Enters`): `FormOfTurn`, which
two theorems share.

* `Progress` is the safety half of `ParsingEnds`.  `Left(cs, i)` is what is left
  of the i-th context, its end included, and 0 where there is none; every turn
  lowers it for one i and leaves it alone below: the order is lexicographic, from
  the outermost file, and as long as the limit, so it is well founded.  The cases
  that had to be looked at are the failures: `StatementFails` swallows a token
  unless the stream is at its end, and then it was not before.
* `TokensOfFiles`: the tokens of each context are those the source manager has
  loaded for its file (`ContextsOfFiles`).  No action compares the two.

Assumed is that parsing a statement or a function moves forward
(`ParsingAssumption`), which `StatementsMoveForward`, below, proves of the grammar
on every stream (`StreamsAreAny`: those of the loop are such), that what stands behind an include names a path, that
the file systems are ones, and that the limit is at least 1.

**Grammar** (`GrammarProofs`), of all streams of tokens and from `ExpressionDescent`
(and `StatementDescent`), and for
what is written and read back from the assumptions on `Written`, `WrittenStatement`
and the other constants of `ParsedExpression` and `ParsedStatement`:

* `ExpressionsMoveForward` and `StatementsMoveForward`: what is parsed is at least
  one token, and nothing goes back or past the end, also when it fails.  The proof
  is by the number of tokens left; `Good` and `StatementGood` say of a stream
  what the constants do on it, and one lemma per function shows it of the body.
  The loops (`ParseExpressionRhs`, the arguments, bodies and parameters) are part of
  the statement, as they may consume nothing.  `TypeCorrect` follows.
* `WrittenTreesAreReadBack` (`ReadsBackWhatIsWritten`): every tree, of any depth and
  with any number of arguments, is read back.  `At(s, w)` says that the tokens
  `w` are what `s` has next.  By the number of tokens of the tree, `ReadsBack` holds:
  with the tree at hand, and behind it nothing that goes on with an expression,
  the result is the tree and the stream behind it.  Under it are one lemma per shape of
  a tree, and for the arguments an induction of its own, from the last one up, as
  the list is extended on the way down.  That compound operands stand in
  parentheses is what makes them operands; without it the statement is false,
  as a unary operator takes a whole expression.
* `LiteralsAreKept` (`OperandsKept`): in any tokens without calls, the literals of
  the tree are those of the tokens consumed, in order, whether or not operators are
  lost.  By the number of tokens left; for `ParseExpressionRhs` the statement is that
  the literals of the operand it is given come first.
* `ChainsAreBoundByLevel` (`ChainsBindByLevel`): a chain of any length gets the tree
  of AutoIt's levels exactly when its operators never fall back.  The proof goes
  from the last operand to the first.  `TailFits(ts, k, p)` says that behind operand
  k no operator is below p and none falls back; with it `ParseExpressionRhs` reads
  to the end, and without it it stops before (`ReadsTo`).  Its tree is the chain's
  (`ReadsTree`) when what was read so far descends from level to level (`Descends`),
  which is what makes the next operator the root of all that is before it
  (`ChainTreeGrows`), or the first of a tighter tail (`ChainTreeRises`).  That the
  chain does *not* come out when an operator falls back is the other half: the
  call that gives up stops before the end, and so do all that wait for it.
* `StatementsAreReadBack` (`StatementsReadBack`): every statement and function, with
  any number of statements, cases and parameters and nested however deep, is read
  back.  `Stands(s, w, t)` says that `s` has the tokens `w` next and that `t` is the
  stream behind them; `StandsFirst`, `StandsLast` and `StandsConcat` take what is
  written apart.  By the number of tokens of a statement (`AllStatementsRead`), and
  within it by the number of the last parts of a block, of the cases and of the
  parameters (`LinesRead`, `CasesRead`, `ParametersRead`), as what is already parsed
  is extended on the way down.  A statement is read when what follows is the end of
  its line or a `WEnd` (`EndsLine`): a call in front of a parenthesis, say, would be
  another one.
* `StatementsTypeCorrect`: `TypeOK` of statements and functions from any stream.
* `GrammarIsRight`: all of these of `GrammarSpec`, the specification that the run
  checks.  The others are about `Spec`, where an expression is parsed, and
  `StatementSpec`, where a statement or function is; `CallsAreOfOneKind` shows that
  every behaviour of `GrammarSpec` is one of these, as nothing changes `called`.

**REPL** (`ReplProofs`): `ReplSpec => []ReplInv`, with `SessionTypes`,
`LiveDocument`, `NothingLeft` and `Silence`.

    Sound   == live /\ (~aborting \/ ~Idle)
    ReplInv == /\ ReplTypeOK
               /\ Sound => IInv /\ \A i \in DOMAIN scopes : mine[i]
               /\ Idle => pending = <<>>
               /\ ~live => Idle /\ ~trapped /\ (~aborting => scopes = <<>>)

The interpreter's invariant does not hold in every state of a session: behind a
failed line the next global scope is put below what is left, and the stack is no
longer well formed.  It holds as long as a line has not failed or is still at the
statement that did, and otherwise no step is taken.  Assumed are the
interpreter's assumptions, that a line that does not parse gives the empty
document, and that the bound on scopes is at least 1.

**Lexer** (`LexerProofs`): `LexerSpec => []LexerInv`, with `LexerTypes`,
`TokenOrder`, `NoCharacterLost`, `CommentsStayBracketed`, `LinesLag`,
`ColumnsAreTrue`, `TokensAreLongest` and the action property `LexerProgress`: all
that the run `tests` checks of the lexer holds for every source.

    LexerInv ==
      /\ LexerTypeOK /\ TokensInOrder
      /\ Bracketing /\ CommentsBracketed
      /\ NothingIsLost
      /\ Places /\ NewestPlaced
      /\ LongestTokens

The 17 branches are first shown to take one of five forms (`Passes` over a
character that says nothing, `TakesPlain`, `TakesDirective`, `TakesComment`,
`Swallows` the rest), and the first five conjuncts to be kept by each form.
`Bracketing` strengthens `CommentsBracketed`: a comment is open just when the last
token is its opening word, and behind a comment that was closed the lexer is at
the closing word, which the next turn cannot but take.

* `LinesLag` and `ColumnsAreTrue` speak of the newest token.  `Places` says the
  same of the lexer itself, which is where the next token begins.  Its proof is
  about cardinalities: that a comment adds as many lines as it has line ends, and
  that the words the column skips over in a comment are among the characters the
  property excepts.  `Places` does not hold behind an open string, which is
  swallowed without being counted; then the source is over.
* `TokensAreLongest` has one lemma per branch: what the text of the token is, and
  that no longer text has any of the eight forms, the branch's own as the run of
  characters has ended, the others as their first characters differ.
* `LexerProgress` is the lexer's part of `TestsEnd`: each turn lowers `TurnsLeft`,
  two for each character that is left and one for a comment that is open.  The
  turn that comes to the closing word at once consumes nothing, and pays with the
  comment.

Assumed is that sources are sequences of strings (`SourceAssumption`); what words
the tables hold does not matter.

**Test runner** (`TestRunnerProofs`): the runner's invariant with the lexer's
(`RunnerInvariant`), for every directory; `Begin` is where a new source starts the
lexer again, so that the lexer's theorems hold in the runner (`LexerInRunner`).
`RunnerTypes` is the runner's `TypeOK`.  `RunnerProgress` is the safety half of
`TestsEnd`: each step leaves a file less, a later stage of one, or less of its
source or its log.

`VerdictsAreRight` is

    ASSUME PlainScripts
    PROVE  Spec /\ []ExpectationsFound => []VerdictsAreOfTheScript

and `ExitIsRight` is the same of `ExitTellsVerdicts`.  The invariant behind it,
`WorkOfTheScript`, says for each phase that block, diagnostics and buffers are what
the script at work makes them: it needs that `Prepare` clears the buffers, and that
a script with an error does not run.  The lemma that carries the comparison is
`VisibleTells`: texts written one behind the other with a null character each, and
trimmed, are the same just when the lists of texts are, up to blank ones at the
end.  That is false of texts that hold null characters, which is why
`PlainScripts` excludes them; the code does, too, in that it uses them as ends of
lines.  `ExpectationsFound` is a hypothesis on the scripts: what is found in the
comment tokens of a script, up to the first that is empty, is `expects`, and where the warning of null characters
is expected, one is met just when the source holds one.  `expects` is what the
author meant, so this cannot follow from the code; the run's scripts satisfy it,
as the property itself is checked there without it; a script with an empty
expectation in front of another does not, and is not judged rightly (the finding
`empty_expectation`).  `ExitIsOfTheVerdicts` keeps
the last part apart: each script of the directory is reported once, no file twice
or in vain, and the exit code is that of all verdicts.

Assumed are the shapes of scripts and directories (`ScriptAssumption`,
`DirectoryAssumption`).  `LiteralAssumption` says that two literals of the code are strings: a fact the
provers have no rule for.  The functions `FoldedText` and `Together` are defined by
recursion on a number; `Recursion` in `Lemmas` shows, by the least counterexample,
that there is such a function, and the texts follow from its equations.

**Only model-checked:** liveness, which is beyond the prover: `ParsingEnds` and
`TestsEnd`, of which `Progress`, `LexerProgress` and `RunnerProgress` are the part
that a step can be held to, and the interpreter's and the session's, whose loops
need not end; `WritesAsReference` and `EndsAsReference`, as `Reference` is a
recursive interpreter, and what it computes of every document is an induction over
the data; and of `MCParser` what speaks of TLC's own files: `IncludesExpand`, whose
`Expanded` is recursive too, `GoesOnBehindErrors`, which lists sources and what they
give, and `BodiesWholeOrEmpty`, of the Ifs it writes.

## Where the code and its own words differ

| run | the code says | it does |
|---|---|---|
| `callee_sees_blocks` | VirtualMachine.cpp:168 "only check the global scope and don't continue" | a callee sees the blocks its caller is in |
| `body_before_parameters` | Interpreter.cpp:447, :469 parameters are pushed into the new scope | after the first defaulted parameter they go to the block of the default |
| `local_not_local` | VariableScope.hpp:13 "Explicitly local" | `Local` overwrites a global variable |
| `operator_lost` | Parser.cpp:1398 the pending operator takes what binds tighter | `1 + 2 * 3 - 4` loses the minus, and `4` is left over |
| `while_wend` | Parser.cpp:804 "Parse statements until KW_WEnd" | a `While` whose `WEnd` has its own line does not parse |
| `include_once_spelling` | Parser.cpp:433 not included again | it is, by another spelling of the path |
| `empty_expectation` | main.cpp:231, :247 "Ignore empty strings" | an empty expectation ends the search for those behind it |

Modelled as they are, without a run of their own: unary operators take a whole
expression as operand; `^` is parsed from the left although
`GetOperatorAssociativity` (never called) says right; an argument that fails
empties the argument list (Parser.cpp:1474); a statement that fails in an ElseIf or
Else body gives an empty body (1080); an ElseIf may lack its Then; an Exit whose
expression fails to parse exits with 0; a comment between `)` and the new line of
a Func makes it fail, and so does a body of comments or blank lines only (504, by
the order that `while_wend` is about); the values of `BuiltInValues` (Lexer.cpp:546) are
shifted by a line from `tcpstartup`, which is `BI_UDPShutdown`, to `udpstartup`; the
branch of a lone dot (Lexer.cpp:1197) is never taken, as the numbers' branch
before it takes the dot.

## What is not modelled

* The storage of `Variant`, a union whose members are built and destroyed by hand,
  and the lifetimes of the strings that tokens refer to, whose vector moves when
  it grows (SourceManager.cpp:59).  Both are about memory, in one thread, with
  every step of a copy or a move in one function: there is no interleaving for a
  model to find, and a model of the allocator would be the library's and not this
  code's.  They are hazards without a property.
* Which macro or built-in function a word of the lexer's tables is: a table.  The
  parser does not tell them apart.
* `look_behind` and `skip` of the token stream, which serve messages and tests.
* The choice of `main` between a file and the REPL, and its exit code 1 when the
  parser counted an error: two conditions in a row.
* Arrays, binaries, functions and pointers as values: no code builds one.
* Search paths registered with the source manager, and the limits and flags of
  the diagnostic engine: nothing in the repository sets them.
* What error messages look like, `DumpAST`, the AST dumper, the fuzzing targets,
  the tests, samples and build scripts: no state.
* The operating system: files do not change during a parse, output succeeds.

## What may follow

The order in which the parts were modelled is that of the tables above: the
interpreter and what it promises, the parser, then the session and the lexer with
the test runner.  Next would be `main` as `Parser` followed by `Interpreter`, once it does more than that, and the kinds of the words in the
lexer's tables, when more of the built-in functions are implemented.

## Running

    tlc -config MCInterpreter.cfg MCInterpreter
    tlc -config MCRepl.cfg MCRepl
    tlc -config MCGrammar.cfg MCGrammar
    tlc -config MCParser.cfg MCParser
    tlc -config MCTestRunner.cfg MCTestRunner
    tlapm InterpreterProofs.tla
    tlapm TestRunnerProofs.tla
    tlapm GrammarProofs.tla

`PROJECT.json` names the module and the configuration of every run.
