------------------------------- MODULE Parser -------------------------------
(***************************************************************************)
(* The parser's loop over a document and the files it includes:            *)
(* parser/src/Parser.cpp, ParseDocument and ParseIncludeDirective.         *)
(*                                                                         *)
(* A context is a file and the stream of its tokens; an #include puts the  *)
(* included file's on top.  How a statement or a function is parsed is a   *)
(* constant here, which TLC takes from module Statements.                  *)
(***************************************************************************)
EXTENDS SourceManager

CONSTANTS
  StatementAt(_),
  FunctionDefinitionAt(_),
  Argument,                   \* the paths ParseFile may be called with
  Text, TextPath,             \* the sources for ParseString, and the name of their file
  PathNamed(_),               \* the path that the texts behind #include name
  TooLong,                    \* paths of more than 255 characters
  MaxNumberOfIncludeNesting

ASSUME ArgumentAssumption == Argument \subseteq Path /\ Text \subseteq Source /\ TextPath \in Path
ASSUME NestingAssumption == MaxNumberOfIncludeNesting \in Nat \ {0}

VARIABLES
  argument,     \* the file ParseFile or ParseString was called with, if any
  contexts,     \* m_ParsingContextStack, the current one last
  includeOnce,  \* m_IncludeOnceFiles
  document,     \* m_Document
  errors,       \* the errors the diagnostic engine has counted
  fatal,        \* was one of them fatal?
  failures      \* the statements and functions that failed, which err() only prints

vars == <<system, localSearchPath, sourceFiles, argument, contexts, includeOnce,
          document, errors, fatal, failures>>

\* A source given to ParseString is in memory: no loaded file is the same.
SourceFile == [path: Path, inMemory: BOOLEAN]
OnDisk(path)   == [path |-> path, inMemory |-> FALSE]
InMemory(path) == [path |-> path, inMemory |-> TRUE]

ASSUME ParsingAssumption ==
  \A s \in Streams :
    MovesForward(s, StatementAt(s)) /\ MovesForward(s, FunctionDefinitionAt(s))

TypeOK ==
  /\ IsFileSystem(system)
  /\ localSearchPath \in Path
  /\ sourceFiles \subseteq Path
  /\ Len(argument) <= 1 /\ argument \in Seq(SourceFile) /\ fatal \in BOOLEAN
  /\ contexts \in Seq([file: SourceFile, stream: Streams])
  /\ includeOnce \subseteq SourceFile
  /\ errors \in Nat /\ failures \in Nat

Init ==
  /\ system \in System
  /\ localSearchPath = EmptyPath
  /\ sourceFiles = {}
  /\ argument = <<>> /\ fatal = FALSE
  /\ contexts = <<>>
  /\ includeOnce = {}
  /\ document = [statements |-> <<>>, functions |-> <<>>]
  /\ errors = 0 /\ failures = 0

-----------------------------------------------------------------------------
(* The stack of contexts.                                                  *)

CurrentContext     == contexts[Len(contexts)]
CurrentSourceFile  == CurrentContext.file
CurrentTokenStream == CurrentContext.stream

\* The contexts with the current stream moved to s.
MovedTo(s) == [contexts EXCEPT ![Len(contexts)].stream = [s EXCEPT !.errors = 0]]

\* The step leaves the current stream at s, and counts its errors.
MoveTo(s) == contexts' = MovedTo(s) /\ errors' = errors + s.errors

PushParsingContext(under, file, tokens) ==
  /\ contexts' = Append(under, [file |-> file, stream |-> Stream(tokens)])
  /\ SetLocalSearchPath(ParentPath(file.path))

-----------------------------------------------------------------------------
(* ParseFile and ParseString, up to the loop.                              *)

Begin(file) == argument = <<>> /\ argument' = <<file>>

ParseFile(path) ==
  /\ Begin(OnDisk(FindFile(path)))
  /\ Exists(FindFile(path))
  /\ LoadFile(path)
  /\ PushParsingContext(<<>>, OnDisk(FindFile(path)), system.files[FindFile(path)])
  /\ UNCHANGED <<system, includeOnce, document, errors, fatal, failures>>

ParseFileNotFound(path) ==
  /\ Begin(OnDisk(FindFile(path)))
  /\ ~Exists(FindFile(path))
  /\ errors' = errors + 1 /\ fatal' = TRUE
  /\ UNCHANGED <<system, localSearchPath, sourceFiles, contexts, includeOnce,
                 document, failures>>

ParseString(tokens) ==
  /\ Begin(InMemory(TextPath))
  /\ PushParsingContext(<<>>, InMemory(TextPath), tokens)
  /\ UNCHANGED <<system, sourceFiles, includeOnce, document, errors, fatal, failures>>

-----------------------------------------------------------------------------
(* ParseDocument.                                                          *)

\* The engine's error limit is never set.
ShouldContinueParsing == contexts # <<>> /\ ~fatal

AtToken(kinds) ==
  /\ ShouldContinueParsing
  /\ CurrentKind(CurrentTokenStream) \in kinds

\* Slip: the search path stays the included file's.
PopParsingContextOnly ==
  /\ ShouldContinueParsing
  /\ ~HasMoreTokens(CurrentTokenStream)
  /\ contexts' = SubSeq(contexts, 1, Len(contexts) - 1)
  /\ UNCHANGED <<system, localSearchPath, sourceFiles, argument, includeOnce, document,
                 errors, fatal, failures>>

PopParsingContext ==
  /\ ShouldContinueParsing
  /\ ~HasMoreTokens(CurrentTokenStream)
  /\ contexts' = SubSeq(contexts, 1, Len(contexts) - 1)
  /\ SetLocalSearchPath(IF Len(contexts) = 1
                          THEN EmptyPath
                          ELSE ParentPath(contexts[Len(contexts) - 1].file.path))
  /\ UNCHANGED <<system, sourceFiles, argument, includeOnce, document, errors, fatal, failures>>

\* Behind the current token, which says what comes.
Behind == ConsumeCurrent(CurrentTokenStream)

AppendFunctionToDocument ==
  /\ AtToken({"KW_Func"})
  /\ LET r == FunctionDefinitionAt(Behind)
     IN  /\ r.tree # <<>>
         /\ MoveTo(r.stream)
         /\ document' = [document EXCEPT !.functions = @ \o r.tree]
  /\ UNCHANGED <<system, localSearchPath, sourceFiles, argument, includeOnce, fatal, failures>>

\* Goes on with what is left of the function, as statements of the document.
FunctionFails ==
  /\ AtToken({"KW_Func"})
  /\ LET r == FunctionDefinitionAt(Behind) IN r.tree = <<>> /\ MoveTo(r.stream)
  /\ failures' = failures + 1
  /\ UNCHANGED <<system, localSearchPath, sourceFiles, argument, includeOnce, document, fatal>>

SkipToken ==
  /\ AtToken(CommentKind \cup {"NewLine", "NotAToken"})
  /\ MoveTo(Behind)
  /\ UNCHANGED <<system, localSearchPath, sourceFiles, argument, includeOnce, document,
                 fatal, failures>>

IncludeOnce ==
  /\ AtToken({"PP_IncludeOnce"})
  /\ includeOnce' = includeOnce \cup {CurrentSourceFile}
  /\ MoveTo(RequireNewLine(Behind))
  /\ UNCHANGED <<system, localSearchPath, sourceFiles, argument, document, fatal, failures>>

IsDirective(kind) ==
  kind \in CommentKind \cup {"none", "KW_Func", "NewLine", "NotAToken", "PP_IncludeOnce",
                             "PP_Include"}
AtStatement == ShouldContinueParsing /\ ~IsDirective(CurrentKind(CurrentTokenStream))

AppendStatementToDocument ==
  /\ AtStatement
  /\ LET r == StatementAt(CurrentTokenStream)
     IN  /\ r.tree # <<>>
         /\ MoveTo(RequireNewLine(r.stream))
         /\ document' = [document EXCEPT !.statements = @ \o r.tree]
  /\ UNCHANGED <<system, localSearchPath, sourceFiles, argument, includeOnce, fatal, failures>>

\* Slip: swallows a token also when there is none.
StatementFailsPastEnd ==
  /\ AtStatement
  /\ LET r == StatementAt(CurrentTokenStream)
     IN  r.tree = <<>> /\ MoveTo(ConsumeCurrent(r.stream))
  /\ failures' = failures + 1
  /\ UNCHANGED <<system, localSearchPath, sourceFiles, argument, includeOnce, document, fatal>>

\* Swallows the bad token, and goes on behind it.
StatementFails ==
  /\ AtStatement
  /\ LET r == StatementAt(CurrentTokenStream)
     IN  /\ r.tree = <<>>
         /\ MoveTo(IF HasMoreTokens(r.stream) THEN ConsumeCurrent(r.stream) ELSE r.stream)
  /\ failures' = failures + 1
  /\ UNCHANGED <<system, localSearchPath, sourceFiles, argument, includeOnce, document, fatal>>

-----------------------------------------------------------------------------
(* ParseIncludeDirective.                                                  *)

\* The name between < and > is what the line says there, whatever its tokens.
AngledName(s) ==
  LET t == ConsumeUntil({"OP_GreaterThan", "NewLine"}, s)
      between == SubSeq(s.tokens, s.index + 1, t.index)
  IN  CASE CurrentKind(t) = "OP_GreaterThan" ->
             Parsed([i \in DOMAIN between |-> between[i].text], ConsumeCurrent(t))
        [] CurrentKind(t) = "NewLine" -> Failed(Report(ConsumeCurrent(t)))
        [] OTHER -> Failed(Report(t))

IncludeName(s) ==
  CASE CurrentKind(s) = "StringLiteral" -> Parsed(<<CurrentToken(s).text>>, ConsumeCurrent(s))
    [] CurrentKind(s) = "OP_LessThan" -> AngledName(ConsumeCurrent(s))
    [] OTHER -> Failed(Report(s))

ASSUME PathNamedAssumption ==
  \A s \in Streams :
    LET r == IncludeName(s) IN r.tree # <<>> => PathNamed(r.tree[1]) \in Path

\* Slip: one level more.
CanIncludeOneMore(path) ==
  /\ Len(contexts) <= MaxNumberOfIncludeNesting
  /\ path # EmptyPath /\ path \notin TooLong
  /\ Exists(FindFile(path))

\* Each of these is an error when it does not hold.
CanInclude(path) ==
  /\ Len(contexts) < MaxNumberOfIncludeNesting
  /\ path # EmptyPath /\ path \notin TooLong
  /\ Exists(FindFile(path))

Included(name) == OnDisk(FindFile(PathNamed(name)))

IncludeFails ==
  /\ AtToken({"PP_Include"})
  /\ LET r == IncludeName(Behind)
     IN  IF r.tree = <<>>
           THEN MoveTo(r.stream)
           ELSE ~CanInclude(PathNamed(r.tree[1])) /\ MoveTo(Report(r.stream))
  /\ UNCHANGED <<system, localSearchPath, sourceFiles, argument, includeOnce, document,
                 fatal, failures>>

\* Slip: include-once does not count.
AppendSourceFileToDocumentAgain(file, s) ==
  PushParsingContext(MovedTo(s), file, system.files[file.path])

\* Slip: a file that is not included again leaves its #include in the stream.
AppendSourceFileToDocumentInPlace(file, s) ==
  IF file \in includeOnce
    THEN UNCHANGED <<contexts, localSearchPath>>
    ELSE PushParsingContext(MovedTo(s), file, system.files[file.path])

AppendSourceFileToDocument(file, s) ==
  IF file \in includeOnce
    THEN contexts' = MovedTo(s) /\ UNCHANGED localSearchPath
    ELSE PushParsingContext(MovedTo(s), file, system.files[file.path])

Include ==
  /\ AtToken({"PP_Include"})
  /\ LET r == IncludeName(Behind)
         s == RequireNewLine(r.stream)
     IN  /\ r.tree # <<>>
         /\ CanInclude(PathNamed(r.tree[1]))
         /\ LoadFile(PathNamed(r.tree[1]))
         /\ AppendSourceFileToDocument(Included(r.tree[1]), s)
         /\ errors' = errors + s.errors
  /\ UNCHANGED <<system, argument, includeOnce, document, fatal, failures>>

-----------------------------------------------------------------------------

Call ==
  \/ \E path \in Argument : ParseFile(path) \/ ParseFileNotFound(path)
  \/ \E tokens \in Text : ParseString(tokens)

ParseDocument ==
  \/ PopParsingContext
  \/ AppendFunctionToDocument
  \/ FunctionFails
  \/ SkipToken
  \/ IncludeOnce
  \/ AppendStatementToDocument
  \/ StatementFails
  \/ IncludeFails
  \/ Include

Next == Call \/ ParseDocument

\* One thread runs the loop until it ends; nothing says that main calls it.
Spec == Init /\ [][Next]_vars /\ WF_vars(ParseDocument)

-----------------------------------------------------------------------------

\* Names in a file are looked up next to it, also behind an #include: wherever
\* the loop is, the local search path is the current file's directory, although
\* only pushing and popping set it.
SearchPathFollowsFile ==
  contexts # <<>> => localSearchPath = Absolute(ParentPath(CurrentSourceFile.path))

\* However files include each other and themselves, no more than the maximum
\* of them are open at a time.
NestingBounded == Len(contexts) <= MaxNumberOfIncludeNesting

Open(file, cs) == {i \in DOMAIN cs : cs[i].file = file}

\* A file that said #include-once is not entered again by any later #include,
\* of its includers, of the files it includes or of itself, to the end of the
\* parse: its contexts are those there were when it said so.
OnceFilesNotReentered ==
  [][\A file \in includeOnce :
       file \in includeOnce' /\ Open(file, contexts') \subseteq Open(file, contexts)]_vars

\* The loop comes to its end on any input, also when statements fail and files
\* include themselves.
ParsingEnds == ShouldContinueParsing ~> ~ShouldContinueParsing
=============================================================================
