---------------------------- MODULE ParserProofs ----------------------------
(***************************************************************************)
(* The parser's loop keeps its types, looks names up next to the file it   *)
(* is in, opens no more files than the limit, enters no file again that    *)
(* said #include-once, keeps the files' tokens apart and comes ahead with  *)
(* every turn: for all files, paths and ways to parse a statement.         *)
(***************************************************************************)
EXTENDS Parser, Lemmas

Context == [file: SourceFile, stream: Streams]

-----------------------------------------------------------------------------
(* Streams.                                                                *)

LEMMA StreamFields ==
  ASSUME NEW s \in Streams
  PROVE  /\ s \in Ahead(s) /\ s.tokens \in Source /\ s.tokens \in Seq(Token)
         /\ s.index \in 0 .. Len(s.tokens) /\ Len(s.tokens) \in Nat /\ s.errors = 0
<1>1. PICK source \in Source : s \in StreamsOf(source)
  BY DEF Streams
<1>2. PICK i \in 0 .. Len(source) : s = [Stream(source) EXCEPT !.index = i]
  BY <1>1 DEF StreamsOf
<1>3. s = [tokens |-> source, index |-> i, errors |-> 0]
  BY <1>2 DEF Stream
<1>4. source \in Seq(Token)
  BY SourceAssumption
<1> QED BY <1>3, <1>4 DEF Ahead

\* Wherever a stream of a file is moved, without its errors it is one again.
LEMMA AheadIsStream ==
  ASSUME NEW s \in Streams, NEW t \in Ahead(s)
  PROVE  /\ [t EXCEPT !.errors = 0] \in Streams
         /\ t.errors \in Nat /\ t.tokens = s.tokens /\ t.index \in s.index .. Len(s.tokens)
<1>1. /\ t = [tokens |-> s.tokens, index |-> t.index, errors |-> t.errors]
      /\ t.index \in s.index .. Len(s.tokens) /\ t.errors \in Nat
  BY DEF Ahead
<1>2. [t EXCEPT !.errors = 0] = [Stream(s.tokens) EXCEPT !.index = t.index]
  BY <1>1 DEF Stream
<1>3. t.index \in 0 .. Len(s.tokens)
  BY <1>1, StreamFields
<1>4. [t EXCEPT !.errors = 0] \in StreamsOf(s.tokens)
  BY <1>2, <1>3 DEF StreamsOf
<1> QED BY <1>1, <1>4, StreamFields DEF Streams

\* The streams of the files are streams: what GrammarProofs says of the grammar
\* of Statements on every stream is ParsingAssumption, for that grammar.
LEMMA StreamsAreAny ==
  Streams \subseteq AnyStream
<1> SUFFICES ASSUME NEW s \in Streams PROVE s \in AnyStream
  OBVIOUS
<1>1. s = [tokens |-> s.tokens, index |-> s.index, errors |-> s.errors]
  BY StreamFields DEF Ahead
<1> QED BY <1>1, StreamFields DEF AnyStream

LEMMA AheadIndex ==
  ASSUME NEW s \in Streams, NEW t \in Ahead(s)
  PROVE  /\ t.tokens = s.tokens /\ s.index <= t.index /\ t.index <= Len(s.tokens)
         /\ s.index \in Nat /\ t.index \in Nat /\ Len(s.tokens) \in Nat
<1>1. s.index \in 0 .. Len(s.tokens) /\ Len(s.tokens) \in Nat
  BY StreamFields
<1>2. t.tokens = s.tokens /\ t.index \in s.index .. Len(s.tokens)
  BY DEF Ahead
<1> QED BY <1>1, <1>2

LEMMA AheadIsTransitive ==
  ASSUME NEW s \in Streams, NEW t \in Ahead(s), NEW u \in Ahead(t)
  PROVE  u \in Ahead(s)
BY StreamFields, AheadIsStream DEF Ahead

LEMMA ReportAhead ==
  ASSUME NEW s \in Streams, NEW t \in Ahead(s)
  PROVE  Report(t) \in Ahead(s)
BY StreamFields DEF Ahead, Report

LEMMA ConsumeCurrentAhead ==
  ASSUME NEW s \in Streams, NEW t \in Ahead(s), HasMoreTokens(t)
  PROVE  ConsumeCurrent(t) \in Ahead(s)
BY StreamFields DEF Ahead, ConsumeCurrent, HasMoreTokens

LEMMA KindHasMore ==
  ASSUME NEW t, CurrentKind(t) # "none"
  PROVE  HasMoreTokens(t)
BY DEF CurrentKind

\* The first place from where a stream is on that has a property its end has.
LEMMA FirstFrom ==
  ASSUME NEW m \in Nat, NEW n \in Nat, m <= n, NEW T \in SUBSET (m .. n), n \in T
  PROVE  \E i \in T : \A j \in m .. i - 1 : j \notin T
<1>1. PICK i \in T : \A j \in T : i <= j
  BY NatLeast
<1> QED BY <1>1

LEMMA ConsumeWhileAhead ==
  ASSUME NEW s \in Streams, NEW t \in Ahead(s), NEW kinds
  PROVE  ConsumeWhile(kinds, t) \in Ahead(s)
<1> DEFINE n == Len(t.tokens)
           First(i) == /\ i < n => t.tokens[i + 1].kind \notin kinds
                       /\ \A j \in t.index + 1 .. i : ~(t.tokens[j].kind \notin kinds)
           T == {i \in t.index .. n : i < n => t.tokens[i + 1].kind \notin kinds}
<1>1. /\ t.index \in Nat /\ n \in Nat /\ t.index <= n
      /\ t = [tokens |-> s.tokens, index |-> t.index, errors |-> t.errors]
      /\ t.tokens = s.tokens /\ s.index <= t.index /\ s.index \in Nat /\ t.errors \in Nat
  BY StreamFields DEF Ahead
<1>2. PICK i \in T : \A j \in t.index .. i - 1 : j \notin T
  <2>1. n \in T /\ T \in SUBSET (t.index .. n)
    BY <1>1
  <2> HIDE DEF T
  <2> QED BY <1>1, <2>1, FirstFrom
<1>3. i \in t.index .. n /\ First(i)
  <2>1. ASSUME NEW j \in t.index + 1 .. i PROVE t.tokens[j].kind \in kinds
    <3>1. j - 1 \in t.index .. i - 1 /\ j - 1 + 1 = j /\ j - 1 < n /\ j - 1 \in t.index .. n
      BY <1>1
    <3>2. j - 1 \notin T
      BY <1>2, <3>1
    <3> QED BY <3>1, <3>2
  <2> QED BY <2>1
<1> DEFINE c == CHOOSE k \in t.index .. n : First(k)
<1>4. c \in t.index .. n
  <2> HIDE DEF First, n
  <2> QED BY <1>3
<1>5. ConsumeWhile(kinds, t) = [t EXCEPT !.index = c]
  BY DEF ConsumeWhile, ConsumeTo
<1> HIDE DEF c
<1> QED BY <1>1, <1>4, <1>5 DEF Ahead

LEMMA ConsumeUntilAhead ==
  ASSUME NEW s \in Streams, NEW t \in Ahead(s), NEW kinds
  PROVE  ConsumeUntil(kinds, t) \in Ahead(s)
<1> DEFINE n == Len(t.tokens)
           First(i) == /\ i < n => t.tokens[i + 1].kind \in kinds
                       /\ \A j \in t.index + 1 .. i : ~(t.tokens[j].kind \in kinds)
           T == {i \in t.index .. n : i < n => t.tokens[i + 1].kind \in kinds}
<1>1. /\ t.index \in Nat /\ n \in Nat /\ t.index <= n
      /\ t = [tokens |-> s.tokens, index |-> t.index, errors |-> t.errors]
      /\ t.tokens = s.tokens /\ s.index <= t.index /\ s.index \in Nat /\ t.errors \in Nat
  BY StreamFields DEF Ahead
<1>2. PICK i \in T : \A j \in t.index .. i - 1 : j \notin T
  <2>1. n \in T /\ T \in SUBSET (t.index .. n)
    BY <1>1
  <2> HIDE DEF T
  <2> QED BY <1>1, <2>1, FirstFrom
<1>3. i \in t.index .. n /\ First(i)
  <2>1. ASSUME NEW j \in t.index + 1 .. i PROVE t.tokens[j].kind \notin kinds
    <3>1. j - 1 \in t.index .. i - 1 /\ j - 1 + 1 = j /\ j - 1 < n /\ j - 1 \in t.index .. n
      BY <1>1
    <3>2. j - 1 \notin T
      BY <1>2, <3>1
    <3> QED BY <3>1, <3>2
  <2> QED BY <2>1
<1> DEFINE c == CHOOSE k \in t.index .. n : First(k)
<1>4. c \in t.index .. n
  <2> HIDE DEF First, n
  <2> QED BY <1>3
<1>5. ConsumeUntil(kinds, t) = [t EXCEPT !.index = c]
  BY DEF ConsumeUntil, ConsumeTo
<1> HIDE DEF c
<1> QED BY <1>1, <1>4, <1>5 DEF Ahead

LEMMA RequireNewLineAhead ==
  ASSUME NEW s \in Streams, NEW t \in Ahead(s)
  PROVE  RequireNewLine(t) \in Ahead(s)
<1> DEFINE u == ConsumeComments(t)
<1>1. u \in Ahead(s)
  BY ConsumeWhileAhead DEF ConsumeComments
<1>2. Report(u) \in Ahead(s) /\ (HasMoreTokens(u) => HasMoreTokens(Report(u)))
  <2>1. u = [tokens |-> u.tokens, index |-> u.index, errors |-> u.errors]
    BY <1>1 DEF Ahead
  <2> HIDE DEF u
  <2>2. Report(u).tokens = u.tokens /\ Report(u).index = u.index
    BY <2>1 DEF Report
  <2> QED BY <1>1, <2>2, ReportAhead DEF HasMoreTokens
<1>3. RequireNewLine(t) = CASE CurrentKind(u) = "none" -> u
                            [] CurrentKind(u) = "NewLine" -> ConsumeCurrent(u)
                            [] OTHER -> ConsumeCurrent(Report(u))
  BY DEF RequireNewLine
<1> HIDE DEF u
<1>4. CASE CurrentKind(u) = "none"
  BY <1>1, <1>3, <1>4
<1>5. CASE CurrentKind(u) = "NewLine"
  <2>1. HasMoreTokens(u)
    BY <1>5, KindHasMore
  <2> QED BY <1>1, <1>3, <1>5, <2>1, ConsumeCurrentAhead
<1>6. CASE CurrentKind(u) \notin {"none", "NewLine"}
  <2>1. HasMoreTokens(Report(u))
    BY <1>2, <1>6, KindHasMore
  <2> QED BY <1>2, <1>3, <1>6, <2>1, ConsumeCurrentAhead
<1> QED BY <1>4, <1>5, <1>6

LEMMA AngledNameAhead ==
  ASSUME NEW s \in Streams, NEW t \in Ahead(s)
  PROVE  AngledName(t).stream \in Ahead(s)
<1> DEFINE u == ConsumeUntil({"OP_GreaterThan", "NewLine"}, t)
           name == LET between == SubSeq(t.tokens, t.index + 1, u.index)
                   IN  [i \in DOMAIN between |-> between[i].text]
<1>1. u \in Ahead(s)
  BY ConsumeUntilAhead
<1>2. AngledName(t) = CASE CurrentKind(u) = "OP_GreaterThan" -> Parsed(name, ConsumeCurrent(u))
                        [] CurrentKind(u) = "NewLine" -> Failed(Report(ConsumeCurrent(u)))
                        [] OTHER -> Failed(Report(u))
  BY DEF AngledName
<1> HIDE DEF u, name
<1>3. CASE CurrentKind(u) = "OP_GreaterThan"
  <2>1. ConsumeCurrent(u) \in Ahead(s)
    BY <1>1, <1>3, KindHasMore, ConsumeCurrentAhead
  <2> QED BY <1>2, <1>3, <2>1 DEF Parsed
<1>4. CASE CurrentKind(u) = "NewLine"
  <2>1. Report(ConsumeCurrent(u)) \in Ahead(s)
    BY <1>1, <1>4, KindHasMore, ConsumeCurrentAhead, ReportAhead
  <2>2. AngledName(t) = Failed(Report(ConsumeCurrent(u)))
    BY <1>2, <1>4
  <2> QED BY <2>1, <2>2 DEF Failed
<1>5. CASE CurrentKind(u) \notin {"OP_GreaterThan", "NewLine"}
  <2>1. Report(u) \in Ahead(s)
    BY <1>1, ReportAhead
  <2> QED BY <1>2, <1>5, <2>1 DEF Failed
<1> QED BY <1>3, <1>4, <1>5

LEMMA IncludeNameAhead ==
  ASSUME NEW s \in Streams
  PROVE  IncludeName(s).stream \in Ahead(s)
<1>1. s \in Ahead(s)
  BY StreamFields
<1>2. CASE CurrentKind(s) = "StringLiteral"
  <2>1. ConsumeCurrent(s) \in Ahead(s)
    BY <1>1, <1>2, KindHasMore, ConsumeCurrentAhead
  <2> QED BY <1>2, <2>1 DEF IncludeName, Parsed
<1>3. CASE CurrentKind(s) = "OP_LessThan"
  <2>1. ConsumeCurrent(s) \in Ahead(s)
    BY <1>1, <1>3, KindHasMore, ConsumeCurrentAhead
  <2>2. IncludeName(s) = AngledName(ConsumeCurrent(s))
    BY <1>3 DEF IncludeName
  <2> QED BY <2>1, <2>2, AngledNameAhead
<1>4. CASE CurrentKind(s) \notin {"StringLiteral", "OP_LessThan"}
  <2>1. Report(s) \in Ahead(s)
    BY <1>1, ReportAhead
  <2> QED BY <1>4, <2>1 DEF IncludeName, Failed
<1> QED BY <1>2, <1>3, <1>4

-----------------------------------------------------------------------------
(* Paths.                                                                  *)

LEMMA PathFields ==
  ASSUME NEW p \in Path
  PROVE  p.root \in BOOLEAN /\ p.parts \in Seq(Component)
BY DEF Path

LEMMA JoinType ==
  ASSUME NEW p \in Path, NEW q \in Path
  PROVE  Join(p, q) \in Path
<1>1. p.parts \o q.parts \in Seq(Component)
  BY PathFields, ConcatProperties
<1>2. [p EXCEPT !.parts = @ \o q.parts] \in Path
  BY <1>1 DEF Path
<1> QED BY <1>2 DEF Join

LEMMA EmptyPathType == EmptyPath \in Path
BY DEF EmptyPath, Path

LEMMA ParentPathType ==
  ASSUME NEW p \in Path
  PROVE  ParentPath(p) \in Path
<1>1. CASE p.parts = <<>>
  BY <1>1 DEF ParentPath
<1>2. CASE p.parts # <<>>
  <2>1. SubSeq(p.parts, 1, Len(p.parts) - 1) \in Seq(Component)
    BY <1>2, PathFields, FrontType
  <2>2. [p EXCEPT !.parts = SubSeq(@, 1, Len(@) - 1)] \in Path
    BY <2>1 DEF Path
  <2> QED BY <1>2, <2>2 DEF ParentPath
<1> QED BY <1>1, <1>2

LEMMA AbsoluteType ==
  ASSUME IsFileSystem(system), NEW p \in Path
  PROVE  Absolute(p) \in Path
<1>1. system.cwd \in Path /\ system.absoluteOfEmpty \in Path
  BY EmptyPathType DEF IsFileSystem
<1>2. Join(system.cwd, p) \in Path
  BY <1>1, JoinType
<1> QED BY <1>1, <1>2 DEF Absolute

-----------------------------------------------------------------------------
(* The invariant.                                                          *)

NotBegun == argument = <<>> => contexts = <<>> /\ includeOnce = {}

IInv == TypeOK /\ SearchPathFollowsFile /\ NestingBounded /\ NotBegun

OnceFilesNotReenteredStep ==
  \A file \in includeOnce :
    file \in includeOnce' /\ Open(file, contexts') \subseteq Open(file, contexts)

\* cs has the files of the contexts, as far as it goes.
HasFilesOf(cs) ==
  /\ cs \in Seq(Context) /\ Len(cs) <= Len(contexts)
  /\ \A i \in 1 .. Len(cs) : cs[i].file = contexts[i].file

LEMMA InitOK == Init => IInv
<1> SUFFICES ASSUME Init PROVE IInv
  OBVIOUS
<1>1. TypeOK
  <2>1. argument \in Seq(SourceFile) /\ Len(argument) = 0
    BY DEF Init
  <2>2. contexts \in Seq([file: SourceFile, stream: Streams])
    BY DEF Init
  <2>3. IsFileSystem(system) /\ localSearchPath \in Path
    BY SystemAssumption, EmptyPathType DEF Init
  <2>4. sourceFiles \subseteq Path /\ fatal \in BOOLEAN /\ includeOnce \subseteq SourceFile
    BY DEF Init
  <2>5. errors \in Nat /\ failures \in Nat
    BY DEF Init
  <2> HIDE DEF Init
  <2> QED BY <2>1, <2>2, <2>3, <2>4, <2>5 DEF TypeOK
<1>2. SearchPathFollowsFile /\ NestingBounded /\ NotBegun
  BY NestingAssumption DEF Init, SearchPathFollowsFile, NestingBounded, NotBegun
<1> QED BY <1>1, <1>2 DEF IInv

LEMMA CurrentContextType ==
  ASSUME IInv, contexts # <<>>
  PROVE  /\ contexts \in Seq(Context) /\ Len(contexts) \in Nat \ {0}
         /\ CurrentContext \in Context
         /\ CurrentTokenStream \in Streams /\ CurrentSourceFile \in SourceFile
         /\ argument # <<>>
<1>1. contexts \in Seq(Context) /\ Len(contexts) \in Nat \ {0}
  BY DEF IInv, TypeOK, Context
<1>2. CurrentContext \in Context
  BY <1>1 DEF CurrentContext
<1>3. CurrentTokenStream \in Streams /\ CurrentSourceFile \in SourceFile
  BY <1>2 DEF Context, CurrentTokenStream, CurrentSourceFile
<1> QED BY <1>1, <1>2, <1>3 DEF IInv, NotBegun

LEMMA MovedToType ==
  ASSUME IInv, contexts # <<>>, NEW s \in Ahead(CurrentTokenStream)
  PROVE  HasFilesOf(MovedTo(s)) /\ Len(MovedTo(s)) = Len(contexts)
<1> DEFINE n == Len(contexts)
           moved == [contexts[n] EXCEPT !.stream = [s EXCEPT !.errors = 0]]
<1>1. contexts \in Seq(Context) /\ n \in Nat \ {0} /\ contexts[n] \in Context
  BY CurrentContextType DEF CurrentContext
<1>2. [s EXCEPT !.errors = 0] \in Streams
  BY CurrentContextType, AheadIsStream
<1>3. moved \in Context /\ moved.file = contexts[n].file
  BY <1>1, <1>2 DEF Context
<1>4. MovedTo(s) = [contexts EXCEPT ![n] = moved]
  BY <1>1 DEF MovedTo
<1> HIDE DEF moved
<1>5. MovedTo(s) \in Seq(Context) /\ Len(MovedTo(s)) = n
  BY <1>1, <1>3, <1>4
<1>6. \A i \in 1 .. n : MovedTo(s)[i].file = contexts[i].file
  BY <1>1, <1>3, <1>4
<1> QED BY <1>1, <1>5, <1>6 DEF HasFilesOf

\* A step that moves the current stream keeps the invariant.
LEMMA MoveKeeps ==
  ASSUME IInv, contexts # <<>>, NEW s \in Ahead(CurrentTokenStream),
         contexts' = MovedTo(s), errors' = errors + s.errors,
         UNCHANGED <<system, localSearchPath, argument, fatal>>,
         sourceFiles' \subseteq Path, failures' \in Nat,
         includeOnce \subseteq includeOnce', includeOnce' \subseteq SourceFile
  PROVE  IInv' /\ OnceFilesNotReenteredStep
<1>1. HasFilesOf(contexts') /\ Len(contexts') = Len(contexts)
  BY MovedToType
<1>2. Len(contexts) \in Nat \ {0} /\ contexts \in Seq(Context) /\ argument # <<>>
  BY CurrentContextType
<1>3. contexts' # <<>> /\ contexts' \in Seq(Context)
  BY <1>1, <1>2 DEF HasFilesOf
<1>4. TypeOK'
  <2>1. errors' \in Nat
    <3>1. s.errors \in Nat
      BY CurrentContextType, AheadIsStream
    <3> QED BY <3>1 DEF IInv, TypeOK
  <2> QED BY <1>3, <2>1 DEF IInv, TypeOK, IsFileSystem, Context
<1>5. SearchPathFollowsFile'
  <2>1. CurrentSourceFile' = CurrentSourceFile
    BY <1>1, <1>2 DEF HasFilesOf, CurrentSourceFile, CurrentContext
  <2> QED BY <2>1 DEF IInv, SearchPathFollowsFile, Absolute
<1>6. NestingBounded' /\ NotBegun'
  BY <1>1, <1>2 DEF IInv, NestingBounded, NotBegun
<1>7. OnceFilesNotReenteredStep
  BY <1>1, <1>2, <1>3 DEF HasFilesOf, OnceFilesNotReenteredStep, Open
<1> QED BY <1>4, <1>5, <1>6, <1>7 DEF IInv

\* So does one that opens a file that did not say #include-once.
LEMMA PushKeeps ==
  ASSUME IInv, NEW under, HasFilesOf(under), Len(under) < MaxNumberOfIncludeNesting,
         NEW file \in SourceFile, file \notin includeOnce,
         NEW tokens, Stream(tokens) \in Streams,
         PushParsingContext(under, file, tokens),
         argument' \in Seq(SourceFile), Len(argument') = 1,
         sourceFiles' \subseteq Path, errors' \in Nat,
         UNCHANGED <<system, includeOnce, fatal, failures>>
  PROVE  IInv' /\ OnceFilesNotReenteredStep
<1> DEFINE new == [file |-> file, stream |-> Stream(tokens)]
<1>1. new \in Context /\ new.file = file
  BY DEF Context
<1>2. contexts' = Append(under, new)
  BY DEF PushParsingContext
<1> HIDE DEF new
<1>3. under \in Seq(Context) /\ Len(under) \in Nat
  BY DEF HasFilesOf
<1>4. /\ contexts' \in Seq(Context) /\ Len(contexts') = Len(under) + 1
      /\ \A i \in 1 .. Len(under) : contexts'[i] = under[i]
      /\ contexts'[Len(under) + 1] = new
  BY <1>1, <1>2, <1>3, AppendProperties
<1>5. TypeOK'
  <2>1. localSearchPath' = Absolute(ParentPath(file.path)) /\ file.path \in Path
    BY DEF PushParsingContext, SetLocalSearchPath, SourceFile
  <2>2. localSearchPath' \in Path
    BY <2>1, ParentPathType, AbsoluteType DEF IInv, TypeOK
  <2> QED BY <1>4, <2>2 DEF IInv, TypeOK, IsFileSystem, Context
<1>6. SearchPathFollowsFile'
  <2>1. CurrentSourceFile' = file
    BY <1>1, <1>3, <1>4 DEF CurrentSourceFile, CurrentContext
  <2> QED BY <2>1 DEF SearchPathFollowsFile, PushParsingContext, SetLocalSearchPath, Absolute
<1>7. NestingBounded' /\ NotBegun'
  <2>1. Len(contexts') <= MaxNumberOfIncludeNesting
    BY <1>3, <1>4, NestingAssumption
  <2>2. argument' # <<>>
    OBVIOUS
  <2> QED BY <2>1, <2>2 DEF NestingBounded, NotBegun
<1>8. OnceFilesNotReenteredStep
  <2> SUFFICES ASSUME NEW f \in includeOnce, NEW i \in Open(f, contexts')
               PROVE  i \in Open(f, contexts)
    BY DEF OnceFilesNotReenteredStep
  <2>1. i \in 1 .. Len(under) + 1 /\ contexts'[i].file = f
    BY <1>4 DEF Open
  <2>2. i \in 1 .. Len(under)
    BY <1>1, <1>3, <1>4, <2>1
  <2>3. contexts[i].file = f
    BY <1>4, <2>1, <2>2 DEF HasFilesOf
  <2>4. i \in DOMAIN contexts
    BY <1>3, <2>2 DEF IInv, TypeOK, HasFilesOf
  <2> QED BY <2>3, <2>4 DEF Open
<1> QED BY <1>5, <1>6, <1>7, <1>8 DEF IInv

-----------------------------------------------------------------------------
(* The calls.                                                              *)

LEMMA FindFileType ==
  ASSUME IInv, NEW path \in Path
  PROVE  FindFile(path) \in Path
BY JoinType DEF IInv, TypeOK, FindFile

\* What is read from a file is a stream.
LEMMA FileStream ==
  ASSUME IInv, NEW path, Exists(path)
  PROVE  Stream(system.files[path]) \in Streams
BY DEF IInv, TypeOK, IsFileSystem, Exists

LEMMA TextStream ==
  ASSUME NEW source \in Source
  PROVE  Stream(source) \in Streams
<1>1. source \in Seq(Token)
  BY SourceAssumption
<1>2. Stream(source) = [Stream(source) EXCEPT !.index = 0] /\ 0 \in 0 .. Len(source)
  BY <1>1 DEF Stream
<1>3. Stream(source) \in StreamsOf(source)
  BY <1>2 DEF StreamsOf
<1> QED BY <1>3 DEF Streams

LEMMA NothingHasFiles ==
  ASSUME IInv
  PROVE  HasFilesOf(<<>>) /\ Len(<<>>) < MaxNumberOfIncludeNesting
<1>1. Len(contexts) \in Nat /\ Len(<<>>) = 0
  BY DEF IInv, TypeOK
<1> QED BY <1>1, NestingAssumption DEF HasFilesOf

LEMMA CallKeeps ==
  ASSUME IInv, Call
  PROVE  IInv' /\ OnceFilesNotReenteredStep
<1>1. ASSUME NEW path \in Argument, ParseFile(path)
      PROVE  IInv' /\ OnceFilesNotReenteredStep
  <2> DEFINE file == OnDisk(FindFile(path))
             tokens == system.files[FindFile(path)]
  <2>1. FindFile(path) \in Path
    BY ArgumentAssumption, FindFileType
  <2>2. file \in SourceFile /\ file \notin includeOnce
    BY <1>1, <2>1 DEF ParseFile, Begin, OnDisk, SourceFile, IInv, NotBegun
  <2>3. Stream(tokens) \in Streams
    BY <1>1, FileStream DEF ParseFile
  <2>4. /\ PushParsingContext(<<>>, file, tokens) /\ argument' = <<file>>
        /\ sourceFiles' = sourceFiles \cup {FindFile(path)}
        /\ UNCHANGED <<system, includeOnce, errors, fatal, failures>>
    BY <1>1 DEF ParseFile, Begin, LoadFile
  <2>5. sourceFiles' \subseteq Path /\ errors' \in Nat
    BY <2>1, <2>4 DEF IInv, TypeOK
  <2> HIDE DEF file, tokens
  <2>6. argument' \in Seq(SourceFile) /\ Len(argument') = 1
    BY <2>2, <2>4
  <2> QED BY <2>2, <2>3, <2>4, <2>5, <2>6, NothingHasFiles, PushKeeps
<1>2. ASSUME NEW path \in Argument, ParseFileNotFound(path)
      PROVE  IInv' /\ OnceFilesNotReenteredStep
  <2> DEFINE file == OnDisk(FindFile(path))
  <2>1. file \in SourceFile
    BY ArgumentAssumption, FindFileType DEF OnDisk, SourceFile
  <2>2. /\ argument' = <<file>> /\ errors' = errors + 1 /\ fatal' = TRUE
        /\ UNCHANGED <<system, localSearchPath, sourceFiles, contexts, includeOnce, failures>>
    BY <1>2 DEF ParseFileNotFound, Begin
  <2> HIDE DEF file
  <2>3. argument' \in Seq(SourceFile) /\ Len(argument') = 1 /\ argument' # <<>>
    BY <2>1, <2>2
  <2>4. TypeOK'
    BY <2>2, <2>3 DEF IInv, TypeOK, IsFileSystem
  <2>5. SearchPathFollowsFile' /\ NestingBounded' /\ NotBegun'
    BY <2>2, <2>3 DEF IInv, SearchPathFollowsFile, NestingBounded, NotBegun, Absolute,
                     CurrentSourceFile, CurrentContext
  <2>6. OnceFilesNotReenteredStep
    BY <2>2 DEF OnceFilesNotReenteredStep
  <2> QED BY <2>4, <2>5, <2>6 DEF IInv
<1>3. ASSUME NEW tokens \in Text, ParseString(tokens)
      PROVE  IInv' /\ OnceFilesNotReenteredStep
  <2> DEFINE file == InMemory(TextPath)
  <2>1. file \in SourceFile /\ file \notin includeOnce
    BY <1>3, ArgumentAssumption DEF ParseString, Begin, InMemory, SourceFile, IInv, NotBegun
  <2>2. Stream(tokens) \in Streams
    BY ArgumentAssumption, TextStream
  <2>3. /\ PushParsingContext(<<>>, file, tokens) /\ argument' = <<file>>
        /\ UNCHANGED <<system, sourceFiles, includeOnce, errors, fatal, failures>>
    BY <1>3 DEF ParseString, Begin
  <2>4. sourceFiles' \subseteq Path /\ errors' \in Nat
    BY <2>3 DEF IInv, TypeOK
  <2> HIDE DEF file
  <2>5. argument' \in Seq(SourceFile) /\ Len(argument') = 1
    BY <2>1, <2>3
  <2> QED BY <2>1, <2>2, <2>3, <2>4, <2>5, NothingHasFiles, PushKeeps
<1> QED BY <1>1, <1>2, <1>3 DEF Call

-----------------------------------------------------------------------------
(* The loop.                                                               *)

LEMMA PopParsingContextKeeps ==
  ASSUME IInv, PopParsingContext
  PROVE  IInv' /\ OnceFilesNotReenteredStep
<1> DEFINE n == Len(contexts)
<1>1. contexts # <<>> /\ contexts' = SubSeq(contexts, 1, n - 1)
  BY DEF PopParsingContext, ShouldContinueParsing
<1>2. UNCHANGED <<system, sourceFiles, argument, includeOnce, errors, fatal, failures>>
  BY DEF PopParsingContext
<1>3. contexts \in Seq(Context) /\ n \in Nat \ {0} /\ argument # <<>>
  BY <1>1, CurrentContextType
<1>4. /\ contexts' \in Seq(Context) /\ Len(contexts') = n - 1
      /\ \A i \in 1 .. n - 1 : contexts'[i] = contexts[i]
  BY <1>1, <1>3, FrontType
<1>5. localSearchPath' = Absolute(IF n = 1 THEN EmptyPath
                                          ELSE ParentPath(contexts[n - 1].file.path))
  BY DEF PopParsingContext, SetLocalSearchPath
<1>6. n # 1 => contexts[n - 1] \in Context /\ contexts[n - 1].file.path \in Path
  <2> SUFFICES ASSUME n # 1
               PROVE  contexts[n - 1] \in Context /\ contexts[n - 1].file.path \in Path
    OBVIOUS
  <2>1. contexts[n - 1] \in Context
    <3>1. n \in Nat /\ n # 0
      BY <1>3
    <3>2. n - 1 \in 1 .. n
      <4> HIDE DEF n
      <4> QED BY <3>1
    <3> QED BY <1>3, <3>2, ElementOfSeq
  <2> QED BY <2>1 DEF Context, SourceFile
<1>7. TypeOK'
  <2>1. localSearchPath' \in Path
    BY <1>5, <1>6, EmptyPathType, ParentPathType, AbsoluteType DEF IInv, TypeOK
  <2> QED BY <1>2, <1>4, <2>1 DEF IInv, TypeOK, IsFileSystem, Context
<1>8. SearchPathFollowsFile'
  <2> SUFFICES ASSUME contexts' # <<>>
               PROVE  localSearchPath' = Absolute(ParentPath(CurrentSourceFile.path))'
    BY DEF SearchPathFollowsFile
  <2>1. n # 1
    BY <1>3, <1>4
  <2>2. CurrentSourceFile' = contexts[n - 1].file
    BY <1>3, <1>4, <2>1 DEF CurrentSourceFile, CurrentContext
  <2> QED BY <1>2, <1>5, <2>1, <2>2 DEF Absolute
<1>9. NestingBounded' /\ NotBegun'
  <2>1. Len(contexts') <= MaxNumberOfIncludeNesting
    BY <1>3, <1>4, NestingAssumption DEF IInv, NestingBounded
  <2> QED BY <1>2, <1>3, <2>1 DEF NestingBounded, NotBegun
<1>10. OnceFilesNotReenteredStep
  <2>1. DOMAIN contexts' = 1 .. n - 1 /\ DOMAIN contexts = 1 .. n
    BY <1>3, <1>4
  <2> QED BY <1>2, <1>3, <1>4, <2>1 DEF OnceFilesNotReenteredStep, Open
<1> QED BY <1>7, <1>8, <1>9, <1>10 DEF IInv

\* The current token is consumed first.
LEMMA BehindType ==
  ASSUME IInv, NEW kinds, AtToken(kinds), "none" \notin kinds
  PROVE  /\ contexts # <<>> /\ CurrentTokenStream \in Streams
         /\ Behind \in Streams /\ Behind \in Ahead(CurrentTokenStream)
<1> DEFINE s == CurrentTokenStream
<1>1. contexts # <<>> /\ CurrentKind(s) # "none"
  BY DEF AtToken, ShouldContinueParsing
<1>2. s \in Streams /\ s \in Ahead(s)
  BY <1>1, CurrentContextType, StreamFields
<1> HIDE DEF s
<1>3. ConsumeCurrent(s) \in Ahead(s)
  BY <1>1, <1>2, KindHasMore, ConsumeCurrentAhead
<1>4. ConsumeCurrent(s) = [ConsumeCurrent(s) EXCEPT !.errors = 0]
  BY <1>2, StreamFields DEF ConsumeCurrent, Ahead
<1>5. ConsumeCurrent(s) \in Streams
  BY <1>2, <1>3, <1>4, AheadIsStream
<1> QED BY <1>1, <1>2, <1>3, <1>5 DEF s, Behind

\* What is ahead of the stream behind the current token is ahead of it.
LEMMA AheadOfBehind ==
  ASSUME IInv, NEW kinds, AtToken(kinds), "none" \notin kinds, NEW s \in Ahead(Behind)
  PROVE  s \in Ahead(CurrentTokenStream)
BY BehindType, AheadIsTransitive

LEMMA FunctionKeeps ==
  ASSUME IInv, AppendFunctionToDocument \/ FunctionFails
  PROVE  IInv' /\ OnceFilesNotReenteredStep
<1> DEFINE r == FunctionDefinitionAt(Behind)
<1>1. AtToken({"KW_Func"})
  BY DEF AppendFunctionToDocument, FunctionFails
<1>2. contexts # <<>> /\ r.stream \in Ahead(CurrentTokenStream)
  <2>1. Behind \in Streams /\ r.stream \in Ahead(Behind)
    BY <1>1, BehindType, ParsingAssumption DEF MovesForward
  <2> HIDE DEF r
  <2> QED BY <1>1, <2>1, BehindType, AheadOfBehind
<1>3. /\ MoveTo(r.stream) /\ failures' \in {failures, failures + 1}
      /\ UNCHANGED <<system, localSearchPath, sourceFiles, argument, includeOnce, fatal>>
  BY DEF AppendFunctionToDocument, FunctionFails
<1> HIDE DEF r
<1>4. sourceFiles' \subseteq Path /\ failures' \in Nat /\ includeOnce' \subseteq SourceFile
  BY <1>3 DEF IInv, TypeOK
<1> QED BY <1>2, <1>3, <1>4, MoveKeeps DEF MoveTo

LEMMA SkipTokenKeeps ==
  ASSUME IInv, SkipToken
  PROVE  IInv' /\ OnceFilesNotReenteredStep
<1>1. contexts # <<>> /\ Behind \in Ahead(CurrentTokenStream)
  BY BehindType DEF SkipToken, CommentKind
<1>2. /\ MoveTo(Behind)
      /\ UNCHANGED <<system, localSearchPath, sourceFiles, argument, includeOnce, fatal, failures>>
  BY DEF SkipToken
<1>3. sourceFiles' \subseteq Path /\ failures' \in Nat /\ includeOnce' \subseteq SourceFile
  BY <1>2 DEF IInv, TypeOK
<1> QED BY <1>1, <1>2, <1>3, MoveKeeps DEF MoveTo

LEMMA IncludeOnceKeeps ==
  ASSUME IInv, IncludeOnce
  PROVE  IInv' /\ OnceFilesNotReenteredStep
<1> DEFINE s == RequireNewLine(Behind)
<1>1. AtToken({"PP_IncludeOnce"})
  BY DEF IncludeOnce
<1>2. contexts # <<>> /\ s \in Ahead(CurrentTokenStream)
  BY <1>1, BehindType, RequireNewLineAhead
<1>3. /\ MoveTo(s) /\ includeOnce' = includeOnce \cup {CurrentSourceFile}
      /\ UNCHANGED <<system, localSearchPath, sourceFiles, argument, fatal, failures>>
  BY DEF IncludeOnce
<1> HIDE DEF s
<1>4. sourceFiles' \subseteq Path /\ failures' \in Nat /\ includeOnce' \subseteq SourceFile
  BY <1>2, <1>3, CurrentContextType DEF IInv, TypeOK
<1> QED BY <1>2, <1>3, <1>4, MoveKeeps DEF MoveTo

LEMMA AppendStatementKeeps ==
  ASSUME IInv, AppendStatementToDocument
  PROVE  IInv' /\ OnceFilesNotReenteredStep
<1> DEFINE r == StatementAt(CurrentTokenStream)
           s == RequireNewLine(r.stream)
<1>1. contexts # <<>> /\ CurrentTokenStream \in Streams
  BY CurrentContextType DEF AppendStatementToDocument, AtStatement, ShouldContinueParsing
<1>2. r.stream \in Ahead(CurrentTokenStream)
  BY <1>1, ParsingAssumption DEF MovesForward
<1>3. s \in Ahead(CurrentTokenStream)
  <2> HIDE DEF r
  <2> QED BY <1>1, <1>2, RequireNewLineAhead
<1>4. /\ MoveTo(s)
      /\ UNCHANGED <<system, localSearchPath, sourceFiles, argument, includeOnce, fatal, failures>>
  BY DEF AppendStatementToDocument
<1> HIDE DEF s
<1>5. sourceFiles' \subseteq Path /\ failures' \in Nat /\ includeOnce' \subseteq SourceFile
  BY <1>4 DEF IInv, TypeOK
<1> QED BY <1>1, <1>3, <1>4, <1>5, MoveKeeps DEF MoveTo

LEMMA StatementFailsKeeps ==
  ASSUME IInv, StatementFails
  PROVE  IInv' /\ OnceFilesNotReenteredStep
<1> DEFINE r == StatementAt(CurrentTokenStream)
           s == IF HasMoreTokens(r.stream) THEN ConsumeCurrent(r.stream) ELSE r.stream
<1>1. contexts # <<>> /\ CurrentTokenStream \in Streams
  BY CurrentContextType DEF StatementFails, AtStatement, ShouldContinueParsing
<1>2. r.stream \in Ahead(CurrentTokenStream)
  BY <1>1, ParsingAssumption DEF MovesForward
<1>3. s \in Ahead(CurrentTokenStream)
  <2> HIDE DEF r
  <2> QED BY <1>1, <1>2, ConsumeCurrentAhead
<1>4. /\ MoveTo(s) /\ failures' = failures + 1
      /\ UNCHANGED <<system, localSearchPath, sourceFiles, argument, includeOnce, fatal>>
  BY DEF StatementFails
<1> HIDE DEF s
<1>5. sourceFiles' \subseteq Path /\ failures' \in Nat /\ includeOnce' \subseteq SourceFile
  BY <1>4 DEF IInv, TypeOK
<1> QED BY <1>1, <1>3, <1>4, <1>5, MoveKeeps DEF MoveTo

LEMMA IncludeFailsKeeps ==
  ASSUME IInv, IncludeFails
  PROVE  IInv' /\ OnceFilesNotReenteredStep
<1> DEFINE r == IncludeName(Behind)
<1>1. AtToken({"PP_Include"})
  BY DEF IncludeFails
<1>2. contexts # <<>> /\ Behind \in Streams
  BY <1>1, BehindType
<1>3. PICK s \in {r.stream, Report(r.stream)} : MoveTo(s)
  BY DEF IncludeFails
<1>4. s \in Ahead(CurrentTokenStream)
  <2>1. r.stream \in Ahead(Behind)
    BY <1>2, IncludeNameAhead
  <2> HIDE DEF r
  <2>2. s \in Ahead(Behind)
    BY <1>2, <1>3, <2>1, ReportAhead
  <2> QED BY <1>1, <2>2, AheadOfBehind
<1>5. UNCHANGED <<system, localSearchPath, sourceFiles, argument, includeOnce, fatal, failures>>
  BY DEF IncludeFails
<1>6. sourceFiles' \subseteq Path /\ failures' \in Nat /\ includeOnce' \subseteq SourceFile
  BY <1>5 DEF IInv, TypeOK
<1> QED BY <1>2, <1>3, <1>4, <1>5, <1>6, MoveKeeps DEF MoveTo

LEMMA IncludeKeeps ==
  ASSUME IInv, Include
  PROVE  IInv' /\ OnceFilesNotReenteredStep
<1> DEFINE r    == IncludeName(Behind)
           name == r.tree[1]
           s    == RequireNewLine(r.stream)
           path == FindFile(PathNamed(name))
           file == OnDisk(path)
<1>1. AtToken({"PP_Include"})
  BY DEF Include
<1>2. contexts # <<>> /\ Behind \in Streams /\ argument # <<>>
  BY <1>1, BehindType, CurrentContextType
<1>3. s \in Ahead(CurrentTokenStream)
  <2>1. r.stream \in Ahead(Behind)
    BY <1>2, IncludeNameAhead
  <2>2. s \in Ahead(Behind)
    <3> HIDE DEF r
    <3> QED BY <1>2, <2>1, RequireNewLineAhead
  <2> HIDE DEF s
  <2> QED BY <1>1, <2>2, AheadOfBehind
<1>4. /\ r.tree # <<>> /\ CanInclude(PathNamed(name)) /\ errors' = errors + s.errors
      /\ sourceFiles' = sourceFiles \cup {path} /\ AppendSourceFileToDocument(file, s)
      /\ UNCHANGED <<system, argument, includeOnce, fatal, failures>>
  BY DEF Include, LoadFile, Included
<1>5. path \in Path /\ file \in SourceFile /\ file.path = path
  <2>1. PathNamed(name) \in Path
    BY <1>2, <1>4, PathNamedAssumption
  <2> HIDE DEF name
  <2>2. path \in Path
    BY <2>1, FindFileType
  <2> QED BY <2>2 DEF OnDisk, SourceFile
<1>6. Exists(path) /\ Len(contexts) < MaxNumberOfIncludeNesting
  BY <1>4 DEF CanInclude
<1> HIDE DEF r, name, s, path, file
<1>7. sourceFiles' \subseteq Path /\ failures' \in Nat /\ includeOnce' \subseteq SourceFile
  BY <1>4, <1>5 DEF IInv, TypeOK
<1>8. CASE file \in includeOnce
  BY <1>2, <1>3, <1>4, <1>7, <1>8, MoveKeeps DEF AppendSourceFileToDocument
<1>9. CASE file \notin includeOnce
  <2>1. PushParsingContext(MovedTo(s), file, system.files[path])
    BY <1>4, <1>5, <1>9 DEF AppendSourceFileToDocument
  <2>2. Stream(system.files[path]) \in Streams
    BY <1>6, FileStream
  <2>3. HasFilesOf(MovedTo(s)) /\ Len(MovedTo(s)) < MaxNumberOfIncludeNesting
    BY <1>2, <1>3, <1>6, MovedToType
  <2>4. argument' \in Seq(SourceFile) /\ Len(argument') = 1
    <3> DEFINE k == Len(argument)
    <3>1. argument \in Seq(SourceFile)
      BY DEF IInv, TypeOK
    <3>2. k <= 1
      BY DEF IInv, TypeOK
    <3>3. k \in Nat /\ k # 0
      BY <1>2, <3>1, EmptySeq
    <3>4. k = 1
      <4> HIDE DEF k
      <4> QED BY <3>2, <3>3
    <3>5. argument' = argument
      BY <1>4
    <3> QED BY <3>1, <3>4, <3>5
  <2>5. s.errors \in Nat
    BY <1>2, <1>3, CurrentContextType, AheadIsStream
  <2>6. errors' \in Nat
    BY <1>4, <2>5 DEF IInv, TypeOK
  <2> QED BY <1>4, <1>5, <1>7, <1>9, <2>1, <2>2, <2>3, <2>4, <2>6, PushKeeps
<1> QED BY <1>8, <1>9

LEMMA NextKeeps ==
  ASSUME IInv, [Next]_vars
  PROVE  IInv' /\ [OnceFilesNotReenteredStep]_vars
<1>1. CASE Call
  BY <1>1, CallKeeps
<1>2. CASE ParseDocument
  <2>1. CASE PopParsingContext
    BY <2>1, PopParsingContextKeeps
  <2>2. CASE AppendFunctionToDocument \/ FunctionFails
    BY <2>2, FunctionKeeps
  <2>3. CASE SkipToken
    BY <2>3, SkipTokenKeeps
  <2>4. CASE IncludeOnce
    BY <2>4, IncludeOnceKeeps
  <2>5. CASE AppendStatementToDocument
    BY <2>5, AppendStatementKeeps
  <2>6. CASE StatementFails
    BY <2>6, StatementFailsKeeps
  <2>7. CASE IncludeFails
    BY <2>7, IncludeFailsKeeps
  <2>8. CASE Include
    BY <2>8, IncludeKeeps
  <2> QED BY <1>2, <2>1, <2>2, <2>3, <2>4, <2>5, <2>6, <2>7, <2>8 DEF ParseDocument
<1>3. CASE UNCHANGED vars
  BY <1>3 DEF vars, IInv, TypeOK, IsFileSystem, SearchPathFollowsFile, NestingBounded, NotBegun,
              Absolute, CurrentSourceFile, CurrentContext
<1> QED BY <1>1, <1>2, <1>3 DEF Next

-----------------------------------------------------------------------------
(* The forms a turn of the loop can take, other than popping a context.    *)

\* Something of the current file is consumed.
Advances ==
  \E s \in Ahead(CurrentTokenStream) :
    /\ contexts # <<>> /\ s.index > CurrentTokenStream.index
    /\ contexts' = MovedTo(s) /\ sourceFiles \subseteq sourceFiles'

\* And a file is put on top, from its beginning.
Enters ==
  \E s \in Ahead(CurrentTokenStream), path \in Path :
    /\ contexts # <<>> /\ s.index > CurrentTokenStream.index
    /\ Exists(path) /\ sourceFiles' = sourceFiles \cup {path}
    /\ contexts' = Append(MovedTo(s), [file   |-> OnDisk(path),
                                       stream |-> Stream(system.files[path])])

\* What is ahead of the stream behind the current token is strictly ahead.
LEMMA BehindIsFurther ==
  ASSUME IInv, NEW kinds, AtToken(kinds), "none" \notin kinds, NEW s \in Ahead(Behind)
  PROVE  s.index > CurrentTokenStream.index
<1>1. CurrentTokenStream \in Streams /\ Behind \in Streams
  BY BehindType
<1>2. Behind.index = CurrentTokenStream.index + 1
  BY <1>1, StreamFields DEF Behind, ConsumeCurrent, Ahead
<1>3. CurrentTokenStream.index \in Nat
  BY <1>1, StreamFields
<1>4. s.index \in Nat /\ s.index >= Behind.index
  BY <1>1, AheadIndex
<1> QED BY <1>2, <1>3, <1>4

LEMMA TokenAdvances ==
  ASSUME IInv, AppendFunctionToDocument \/ FunctionFails \/ SkipToken \/ IncludeOnce
  PROVE  Advances
<1>1. ASSUME NEW kinds, AtToken(kinds), "none" \notin kinds, NEW s \in Ahead(Behind), MoveTo(s),
             sourceFiles' = sourceFiles
      PROVE  Advances
  <2>1. contexts # <<>> /\ s \in Ahead(CurrentTokenStream)
    BY <1>1, BehindType, AheadOfBehind
  <2>2. s.index > CurrentTokenStream.index
    BY <1>1, BehindIsFurther
  <2> QED BY <1>1, <2>1, <2>2 DEF MoveTo, Advances
<1>2. CASE AppendFunctionToDocument \/ FunctionFails
  <2> DEFINE r == FunctionDefinitionAt(Behind)
  <2>1. AtToken({"KW_Func"}) /\ MoveTo(r.stream) /\ sourceFiles' = sourceFiles
    BY <1>2 DEF AppendFunctionToDocument, FunctionFails
  <2>2. Behind \in Streams /\ r.stream \in Ahead(Behind)
    BY <2>1, BehindType, ParsingAssumption DEF MovesForward
  <2> HIDE DEF r
  <2>3. "none" \notin {"KW_Func"}
    OBVIOUS
  <2> QED BY <1>1, <2>1, <2>2, <2>3
<1>3. CASE SkipToken
  <2> DEFINE kinds == CommentKind \cup {"NewLine", "NotAToken"}
  <2>1. AtToken(kinds) /\ MoveTo(Behind) /\ "none" \notin kinds /\ sourceFiles' = sourceFiles
    BY <1>3 DEF SkipToken, CommentKind
  <2> HIDE DEF kinds
  <2>2. Behind \in Ahead(Behind)
    BY <2>1, BehindType, StreamFields
  <2> QED BY <1>1, <2>1, <2>2
<1>4. CASE IncludeOnce
  <2> DEFINE s == RequireNewLine(Behind)
  <2>1. /\ AtToken({"PP_IncludeOnce"}) /\ MoveTo(s) /\ "none" \notin {"PP_IncludeOnce"}
        /\ sourceFiles' = sourceFiles
    BY <1>4 DEF IncludeOnce
  <2>2. Behind \in Streams
    BY <2>1, BehindType
  <2>3. s \in Ahead(Behind)
    BY <2>2, StreamFields, RequireNewLineAhead
  <2> HIDE DEF s
  <2> QED BY <1>1, <2>1, <2>3
<1> QED BY <1>2, <1>3, <1>4

LEMMA StatementAdvances ==
  ASSUME IInv, AppendStatementToDocument \/ StatementFails
  PROVE  Advances
<1> DEFINE c == CurrentTokenStream
           r == StatementAt(c)
<1>1. contexts # <<>> /\ c \in Streams /\ HasMoreTokens(c)
  <2>1. AtStatement
    BY DEF AppendStatementToDocument, StatementFails
  <2>2. HasMoreTokens(c)
    BY <2>1 DEF AtStatement, IsDirective, CurrentKind
  <2> QED BY <2>1, <2>2, CurrentContextType DEF AtStatement, ShouldContinueParsing
<1>2. MovesForward(c, r)
  BY <1>1, ParsingAssumption
<1>3. CASE AppendStatementToDocument
  <2> DEFINE s == RequireNewLine(r.stream)
  <2>1. r.tree # <<>> /\ MoveTo(s) /\ sourceFiles' = sourceFiles
    BY <1>3 DEF AppendStatementToDocument
  <2> HIDE DEF r, c
  <2>2. r.stream \in Ahead(c) /\ r.stream.index > c.index
    BY <1>2, <2>1 DEF MovesForward
  <2>3. s \in Ahead(c)
    BY <1>1, <2>2, RequireNewLineAhead
  <2>4. s.index >= r.stream.index
    <3> DEFINE t == [r.stream EXCEPT !.errors = 0]
    <3>1. t \in Streams /\ t.index = r.stream.index
      BY <1>1, <2>2, AheadIsStream DEF Ahead
    <3>2. r.stream \in Ahead(t)
      BY <1>1, <2>2, StreamFields DEF Ahead
    <3> HIDE DEF t
    <3>3. s \in Ahead(t)
      BY <3>1, <3>2, RequireNewLineAhead
    <3> HIDE DEF s
    <3> QED BY <3>1, <3>3, AheadIndex
  <2>5. s.index \in Nat /\ r.stream.index \in Nat /\ c.index \in Nat
    BY <1>1, <2>2, <2>3, AheadIndex
  <2> HIDE DEF s
  <2>6. s.index > c.index
    BY <2>2, <2>4, <2>5
  <2> QED BY <1>1, <2>1, <2>3, <2>6 DEF MoveTo, c, Advances
<1>4. CASE StatementFails
  <2> DEFINE s == IF HasMoreTokens(r.stream) THEN ConsumeCurrent(r.stream) ELSE r.stream
  <2>1. MoveTo(s) /\ sourceFiles' = sourceFiles
    BY <1>4 DEF StatementFails
  <2> HIDE DEF r
  <2>2. r.stream \in Ahead(c)
    BY <1>2 DEF MovesForward
  <2>3. s \in Ahead(c)
    <3> HIDE DEF c
    <3> QED BY <1>1, <2>2, ConsumeCurrentAhead
  <2>4. s.index > c.index
    <3> HIDE DEF c
    <3>1. /\ r.stream.index \in Nat /\ c.index \in Nat /\ Len(c.tokens) \in Nat
          /\ r.stream.index >= c.index /\ r.stream.tokens = c.tokens /\ c.index < Len(c.tokens)
      BY <1>1, <2>2, AheadIndex DEF HasMoreTokens
    <3>2. CASE HasMoreTokens(r.stream)
      <4>1. s.index = r.stream.index + 1
        BY <2>2, <3>2 DEF ConsumeCurrent, Ahead
      <4> HIDE DEF s
      <4> QED BY <3>1, <4>1
    <3>3. CASE ~HasMoreTokens(r.stream)
      <4>1. s = r.stream /\ ~(r.stream.index < Len(r.stream.tokens))
        BY <3>3 DEF HasMoreTokens
      <4> HIDE DEF s
      <4> QED BY <3>1, <4>1
    <3> QED BY <3>2, <3>3
  <2> HIDE DEF s
  <2> QED BY <1>1, <2>1, <2>3, <2>4 DEF MoveTo, c, Advances
<1> QED BY <1>3, <1>4

LEMMA IncludeAdvances ==
  ASSUME IInv, Include \/ IncludeFails
  PROVE  Advances \/ Enters
<1> DEFINE r == IncludeName(Behind)
<1>1. AtToken({"PP_Include"}) /\ "none" \notin {"PP_Include"}
  BY DEF Include, IncludeFails
<1>2. contexts # <<>> /\ Behind \in Streams
  BY <1>1, BehindType
<1>3. r.stream \in Ahead(Behind)
  BY <1>2, IncludeNameAhead
<1>4. CASE IncludeFails
  <2>1. PICK s \in {r.stream, Report(r.stream)} : MoveTo(s) /\ sourceFiles' = sourceFiles
    BY <1>4 DEF IncludeFails
  <2> HIDE DEF r
  <2>2. s \in Ahead(Behind)
    BY <1>2, <1>3, <2>1, ReportAhead
  <2>3. s \in Ahead(CurrentTokenStream) /\ s.index > CurrentTokenStream.index
    BY <1>1, <2>2, AheadOfBehind, BehindIsFurther
  <2> QED BY <1>2, <2>1, <2>3 DEF MoveTo, Advances
<1>5. CASE Include
  <2> DEFINE s    == RequireNewLine(r.stream)
             name == r.tree[1]
             path == FindFile(PathNamed(name))
  <2>1. /\ r.tree # <<>> /\ AppendSourceFileToDocument(OnDisk(path), s)
        /\ Exists(path) /\ sourceFiles' = sourceFiles \cup {path}
    BY <1>5 DEF Include, Included, LoadFile, CanInclude
  <2>2. s \in Ahead(Behind)
    <3> HIDE DEF r
    <3> QED BY <1>2, <1>3, RequireNewLineAhead
  <2>3. PathNamed(name) \in Path
    BY <1>2, <2>1, PathNamedAssumption
  <2> HIDE DEF r, s, name
  <2>4. path \in Path
    BY <2>3, FindFileType
  <2> HIDE DEF path
  <2>5. s \in Ahead(CurrentTokenStream) /\ s.index > CurrentTokenStream.index
    BY <1>1, <2>2, AheadOfBehind, BehindIsFurther
  <2>6. CASE OnDisk(path) \in includeOnce
    BY <1>2, <2>1, <2>5, <2>6 DEF AppendSourceFileToDocument, Advances
  <2>7. CASE OnDisk(path) \notin includeOnce
    <3>1. contexts' = Append(MovedTo(s), [file   |-> OnDisk(path),
                                          stream |-> Stream(system.files[path])])
      BY <2>1, <2>7 DEF AppendSourceFileToDocument, PushParsingContext, OnDisk
    <3> QED BY <1>2, <2>1, <2>4, <2>5, <3>1 DEF Enters
  <2> QED BY <2>6, <2>7
<1> QED BY <1>4, <1>5

LEMMA FormOfTurn ==
  ASSUME IInv, ParseDocument
  PROVE  PopParsingContext \/ Advances \/ Enters
BY TokenAdvances, StatementAdvances, IncludeAdvances DEF ParseDocument

\* The contexts behind a turn that enters a file.
LEMMA Entered ==
  ASSUME IInv, contexts # <<>>, NEW s \in Ahead(CurrentTokenStream), NEW new,
         contexts' = Append(MovedTo(s), new)
  PROVE  /\ Len(contexts') = Len(contexts) + 1 /\ Len(contexts) \in Nat
         /\ DOMAIN contexts' = 1 .. Len(contexts) + 1
         /\ \A i \in 1 .. Len(contexts) : contexts'[i] = MovedTo(s)[i]
         /\ contexts'[Len(contexts) + 1] = new
<1> DEFINE m == MovedTo(s)
<1>1. m \in Seq(Context) /\ Len(m) = Len(contexts) /\ Len(contexts) \in Nat
  BY MovedToType, CurrentContextType DEF HasFilesOf
<1> HIDE DEF m
<1>2. contexts' = Append(m, new)
  BY DEF m
<1>3. /\ Len(contexts') = Len(m) + 1 /\ DOMAIN contexts' = 1 .. Len(m) + 1
      /\ \A i \in 1 .. Len(m) : contexts'[i] = m[i]
      /\ contexts'[Len(m) + 1] = new
  BY <1>1, <1>2
<1> QED BY <1>1, <1>3 DEF m

-----------------------------------------------------------------------------
(* The loop's progress.                                                    *)

\* What is left to do in the i-th of the contexts cs, its end included.
Left(cs, i) ==
  IF i \in DOMAIN cs THEN Len(cs[i].stream.tokens) - cs[i].stream.index + 1 ELSE 0

\* Less is left in ds than in cs: in the outermost context that differs.
LessLeft(cs, ds) ==
  \E k \in 1 .. MaxNumberOfIncludeNesting :
    /\ Left(ds, k) < Left(cs, k)
    /\ \A i \in 1 .. k - 1 : Left(ds, i) = Left(cs, i)

\* Consuming a token of the current file lowers it, whatever is put on top.
LEMMA MoveLowers ==
  ASSUME IInv, contexts # <<>>, NEW s \in Ahead(CurrentTokenStream),
         s.index > CurrentTokenStream.index,
         NEW ds, DOMAIN contexts \subseteq DOMAIN ds,
         \A i \in 1 .. Len(contexts) : ds[i] = MovedTo(s)[i]
  PROVE  LessLeft(contexts, ds)
<1> DEFINE n == Len(contexts)
           moved == [contexts[n] EXCEPT !.stream = [s EXCEPT !.errors = 0]]
<1>1. /\ contexts \in Seq(Context) /\ n \in Nat \ {0} /\ contexts[n] \in Context
      /\ CurrentTokenStream = contexts[n].stream /\ CurrentTokenStream \in Streams
  BY CurrentContextType DEF CurrentContext, CurrentTokenStream
<1>2. MovedTo(s) = [contexts EXCEPT ![n] = moved]
  BY <1>1 DEF MovedTo
<1>3. moved.stream.tokens = CurrentTokenStream.tokens /\ moved.stream.index = s.index
  <2>1. moved.stream = [s EXCEPT !.errors = 0]
    BY <1>1 DEF Context
  <2>2. s = [tokens |-> s.tokens, index |-> s.index, errors |-> s.errors]
        /\ s.tokens = CurrentTokenStream.tokens
    BY DEF Ahead
  <2> HIDE DEF moved
  <2> QED BY <2>1, <2>2
<1> HIDE DEF moved
<1>4. ds[n] = moved /\ \A i \in 1 .. n - 1 : ds[i] = contexts[i]
  BY <1>1, <1>2
<1>5. DOMAIN contexts = 1 .. n
  BY <1>1
<1>6. n \in DOMAIN ds /\ n \in DOMAIN contexts
  BY <1>1, <1>5
<1>7. Left(ds, n) < Left(contexts, n)
  <2>1. /\ Len(CurrentTokenStream.tokens) \in Nat /\ s.index \in Nat
        /\ CurrentTokenStream.index \in Nat
    BY <1>1, AheadIndex
  <2>2. /\ Left(ds, n) = Len(CurrentTokenStream.tokens) - s.index + 1
        /\ Left(contexts, n) = Len(CurrentTokenStream.tokens) - CurrentTokenStream.index + 1
    BY <1>1, <1>3, <1>4, <1>6 DEF Left
  <2> HIDE DEF n
  <2> QED BY <2>1, <2>2
<1>8. \A i \in 1 .. n - 1 : Left(ds, i) = Left(contexts, i)
  <2> SUFFICES ASSUME NEW i \in 1 .. n - 1 PROVE Left(ds, i) = Left(contexts, i)
    OBVIOUS
  <2>1. i \in DOMAIN ds /\ i \in DOMAIN contexts /\ ds[i] = contexts[i]
    BY <1>1, <1>4, <1>5
  <2> QED BY <2>1 DEF Left
<1>9. n \in 1 .. MaxNumberOfIncludeNesting
  BY <1>1, NestingAssumption DEF IInv, NestingBounded
<1> QED BY <1>7, <1>8, <1>9 DEF LessLeft

LEMMA PopLowers ==
  ASSUME IInv, PopParsingContext
  PROVE  LessLeft(contexts, contexts')
<1> DEFINE n == Len(contexts)
<1>1. contexts # <<>> /\ contexts' = SubSeq(contexts, 1, n - 1) /\ ~HasMoreTokens(CurrentTokenStream)
  BY DEF PopParsingContext, ShouldContinueParsing
<1>2. contexts \in Seq(Context) /\ n \in Nat \ {0} /\ CurrentTokenStream \in Streams
  BY <1>1, CurrentContextType
<1>3. /\ contexts' \in Seq(Context) /\ Len(contexts') = n - 1
      /\ \A i \in 1 .. n - 1 : contexts'[i] = contexts[i]
  BY <1>1, <1>2, FrontType
<1>4. DOMAIN contexts' = 1 .. n - 1 /\ DOMAIN contexts = 1 .. n
  BY <1>2, <1>3
<1>5. Left(contexts', n) = 0 /\ Left(contexts, n) > 0
  <2>1. n \notin DOMAIN contexts' /\ n \in DOMAIN contexts
    BY <1>2, <1>4
  <2>2. Len(CurrentTokenStream.tokens) \in Nat /\ CurrentTokenStream.index \in Nat
        /\ CurrentTokenStream.index <= Len(CurrentTokenStream.tokens)
    BY <1>2, StreamFields
  <2>3. Left(contexts, n) = Len(CurrentTokenStream.tokens) - CurrentTokenStream.index + 1
    BY <2>1 DEF Left, CurrentTokenStream, CurrentContext
  <2>4. Left(contexts', n) = 0
    BY <2>1 DEF Left
  <2> HIDE DEF n
  <2> QED BY <2>2, <2>3, <2>4
<1>6. \A i \in 1 .. n - 1 : Left(contexts', i) = Left(contexts, i)
  <2> SUFFICES ASSUME NEW i \in 1 .. n - 1 PROVE Left(contexts', i) = Left(contexts, i)
    OBVIOUS
  <2>1. i \in DOMAIN contexts' /\ i \in DOMAIN contexts /\ contexts'[i] = contexts[i]
    BY <1>2, <1>3, <1>4
  <2> QED BY <2>1 DEF Left
<1>7. n \in 1 .. MaxNumberOfIncludeNesting
  BY <1>2, NestingAssumption DEF IInv, NestingBounded
<1>8. Left(contexts', n) < Left(contexts, n)
  <2> HIDE DEF n
  <2> QED BY <1>5, SMT
<1> QED BY <1>6, <1>7, <1>8 DEF LessLeft

LEMMA TurnLowers ==
  ASSUME IInv, ParseDocument
  PROVE  LessLeft(contexts, contexts')
<1>1. CASE Advances
  <2>1. PICK s \in Ahead(CurrentTokenStream) :
          contexts # <<>> /\ s.index > CurrentTokenStream.index /\ contexts' = MovedTo(s)
    BY <1>1 DEF Advances
  <2>2. DOMAIN contexts' = DOMAIN contexts /\ \A i \in 1 .. Len(contexts) : contexts'[i] = MovedTo(s)[i]
    BY <2>1 DEF MovedTo
  <2> QED BY <2>1, <2>2, MoveLowers
<1>2. CASE Enters
  <2>1. PICK s \in Ahead(CurrentTokenStream), path \in Path :
          /\ contexts # <<>> /\ s.index > CurrentTokenStream.index
          /\ contexts' = Append(MovedTo(s), [file   |-> OnDisk(path),
                                             stream |-> Stream(system.files[path])])
    BY <1>2 DEF Enters
  <2>2. /\ DOMAIN contexts' = 1 .. Len(contexts) + 1 /\ Len(contexts) \in Nat
        /\ \A i \in 1 .. Len(contexts) : contexts'[i] = MovedTo(s)[i]
    BY <2>1, Entered
  <2>3. DOMAIN contexts = 1 .. Len(contexts)
    BY DEF IInv, TypeOK
  <2>4. DOMAIN contexts \subseteq DOMAIN contexts'
    BY <2>2, <2>3
  <2> QED BY <2>1, <2>2, <2>4, MoveLowers
<1> QED BY <1>1, <1>2, FormOfTurn, PopLowers

-----------------------------------------------------------------------------
(* Whose tokens they are.                                                  *)

\* A context's tokens are those of its file, which the source manager has.
OwnsTokens(c) ==
  IF c.file.inMemory
    THEN c.file.path = TextPath /\ c.stream.tokens \in Text
    ELSE /\ c.file.path \in sourceFiles /\ Exists(c.file.path)
         /\ c.stream.tokens = system.files[c.file.path]

\* Only the outermost file can be a source given to ParseString.
ContextsOfFiles ==
  \A i \in DOMAIN contexts :
    OwnsTokens(contexts[i]) /\ (contexts[i].file.inMemory => i = 1)

\* The files and tokens of contexts stay with them.
LEMMA SameFilesOwn ==
  ASSUME IInv, ContextsOfFiles, system' = system, sourceFiles \subseteq sourceFiles',
         NEW i \in DOMAIN contexts, i \in DOMAIN contexts',
         contexts'[i].file = contexts[i].file,
         contexts'[i].stream.tokens = contexts[i].stream.tokens
  PROVE  OwnsTokens(contexts[i])' /\ (contexts'[i].file.inMemory => i = 1)
BY DEF ContextsOfFiles, OwnsTokens, Exists

LEMMA MovedToKeepsTokens ==
  ASSUME IInv, contexts # <<>>, NEW s \in Ahead(CurrentTokenStream),
         NEW i \in 1 .. Len(contexts)
  PROVE  /\ MovedTo(s)[i].file = contexts[i].file
         /\ MovedTo(s)[i].stream.tokens = contexts[i].stream.tokens
<1> DEFINE n == Len(contexts)
           moved == [contexts[n] EXCEPT !.stream = [s EXCEPT !.errors = 0]]
<1>1. contexts \in Seq(Context) /\ n \in Nat \ {0} /\ contexts[n] \in Context
  BY CurrentContextType DEF CurrentContext
<1>2. MovedTo(s) = [contexts EXCEPT ![n] = moved]
  BY <1>1 DEF MovedTo
<1>3. moved.file = contexts[n].file /\ moved.stream.tokens = contexts[n].stream.tokens
  <2>1. moved.stream = [s EXCEPT !.errors = 0] /\ moved.file = contexts[n].file
    BY <1>1 DEF Context
  <2>2. s = [tokens |-> s.tokens, index |-> s.index, errors |-> s.errors]
        /\ s.tokens = contexts[n].stream.tokens
    BY DEF Ahead, CurrentTokenStream, CurrentContext
  <2> HIDE DEF moved
  <2> QED BY <2>1, <2>2
<1> HIDE DEF moved
<1> QED BY <1>1, <1>2, <1>3

LEMMA LoopKeepsFiles ==
  ASSUME IInv, ContextsOfFiles, ParseDocument
  PROVE  ContextsOfFiles'
<1>1. system' = system
  BY DEF ParseDocument, PopParsingContext, AppendFunctionToDocument, FunctionFails, SkipToken,
         IncludeOnce, AppendStatementToDocument, StatementFails, IncludeFails, Include
<1>2. CASE PopParsingContext
  <2> DEFINE n == Len(contexts)
  <2>1. contexts # <<>> /\ contexts' = SubSeq(contexts, 1, n - 1) /\ sourceFiles' = sourceFiles
    BY <1>2 DEF PopParsingContext, ShouldContinueParsing
  <2>2. contexts \in Seq(Context) /\ n \in Nat \ {0}
    BY <2>1, CurrentContextType
  <2>3. /\ contexts' \in Seq(Context) /\ Len(contexts') = n - 1
        /\ \A i \in 1 .. n - 1 : contexts'[i] = contexts[i]
    BY <2>1, <2>2, FrontType
  <2>4. DOMAIN contexts' = 1 .. n - 1 /\ DOMAIN contexts = 1 .. n
    BY <2>2, <2>3
  <2> SUFFICES ASSUME NEW i \in DOMAIN contexts'
               PROVE  OwnsTokens(contexts[i])' /\ (contexts'[i].file.inMemory => i = 1)
    BY DEF ContextsOfFiles
  <2>5. i \in DOMAIN contexts /\ contexts'[i] = contexts[i]
    BY <2>2, <2>3, <2>4
  <2> QED BY <1>1, <2>1, <2>5, SameFilesOwn
<1>3. CASE Advances
  <2>1. PICK s \in Ahead(CurrentTokenStream) :
          contexts # <<>> /\ contexts' = MovedTo(s) /\ sourceFiles \subseteq sourceFiles'
    BY <1>3 DEF Advances
  <2>2. DOMAIN contexts' = DOMAIN contexts /\ DOMAIN contexts = 1 .. Len(contexts)
    BY <2>1 DEF MovedTo, IInv, TypeOK
  <2> SUFFICES ASSUME NEW i \in DOMAIN contexts'
               PROVE  OwnsTokens(contexts[i])' /\ (contexts'[i].file.inMemory => i = 1)
    BY DEF ContextsOfFiles
  <2>3. /\ contexts'[i].file = contexts[i].file
        /\ contexts'[i].stream.tokens = contexts[i].stream.tokens
    BY <2>1, <2>2, MovedToKeepsTokens
  <2> QED BY <1>1, <2>1, <2>2, <2>3, SameFilesOwn
<1>4. CASE Enters
  <2>1. PICK s \in Ahead(CurrentTokenStream), path \in Path :
          /\ contexts # <<>> /\ Exists(path) /\ sourceFiles' = sourceFiles \cup {path}
          /\ contexts' = Append(MovedTo(s), [file   |-> OnDisk(path),
                                             stream |-> Stream(system.files[path])])
    BY <1>4 DEF Enters
  <2> DEFINE n   == Len(contexts)
             new == [file |-> OnDisk(path), stream |-> Stream(system.files[path])]
  <2>2. /\ DOMAIN contexts' = 1 .. n + 1 /\ n \in Nat
        /\ \A i \in 1 .. n : contexts'[i] = MovedTo(s)[i]
        /\ contexts'[n + 1] = new
    BY <2>1, Entered
  <2>3. DOMAIN contexts = 1 .. n
    BY DEF IInv, TypeOK
  <2> SUFFICES ASSUME NEW i \in DOMAIN contexts'
               PROVE  OwnsTokens(contexts[i])' /\ (contexts'[i].file.inMemory => i = 1)
    BY DEF ContextsOfFiles
  <2>4. CASE i = n + 1
    <3>1. /\ contexts'[i].file.path = path /\ ~contexts'[i].file.inMemory
          /\ contexts'[i].stream.tokens = system.files[path]
      BY <2>2, <2>4 DEF OnDisk, Stream
    <3> HIDE DEF new
    <3> QED BY <1>1, <2>1, <3>1 DEF OwnsTokens, Exists
  <2>5. CASE i # n + 1
    <3>1. i \in 1 .. n
      BY <2>2, <2>5
    <3>2. /\ contexts'[i].file = contexts[i].file
          /\ contexts'[i].stream.tokens = contexts[i].stream.tokens
      BY <2>1, <2>2, <3>1, MovedToKeepsTokens
    <3> QED BY <1>1, <2>1, <2>3, <3>1, <3>2, SameFilesOwn
  <2> QED BY <2>4, <2>5
<1> QED BY <1>2, <1>3, <1>4, FormOfTurn

LEMMA CallKeepsFiles ==
  ASSUME IInv, ContextsOfFiles, Call
  PROVE  ContextsOfFiles'
<1>1. ASSUME NEW path \in Argument, ParseFile(path)
      PROVE  ContextsOfFiles'
  <2> DEFINE p == FindFile(path)
  <2>1. /\ contexts' = <<[file |-> OnDisk(p), stream |-> Stream(system.files[p])]>>
        /\ Exists(p) /\ sourceFiles' = sourceFiles \cup {p} /\ system' = system
    BY <1>1 DEF ParseFile, PushParsingContext, LoadFile
  <2> HIDE DEF p
  <2>2. /\ DOMAIN contexts' = {1}
        /\ contexts'[1].file = OnDisk(p) /\ contexts'[1].stream.tokens = system.files[p]
    BY <2>1 DEF Stream
  <2> QED BY <2>1, <2>2 DEF ContextsOfFiles, OwnsTokens, OnDisk, Exists
<1>2. ASSUME NEW path \in Argument, ParseFileNotFound(path)
      PROVE  ContextsOfFiles'
  BY <1>2 DEF ParseFileNotFound, ContextsOfFiles, OwnsTokens, Exists
<1>3. ASSUME NEW tokens \in Text, ParseString(tokens)
      PROVE  ContextsOfFiles'
  <2>1. contexts' = <<[file |-> InMemory(TextPath), stream |-> Stream(tokens)]>>
    BY <1>3 DEF ParseString, PushParsingContext
  <2>2. /\ DOMAIN contexts' = {1}
        /\ contexts'[1].file = InMemory(TextPath) /\ contexts'[1].stream.tokens = tokens
    BY <2>1 DEF Stream
  <2> QED BY <2>2 DEF ContextsOfFiles, OwnsTokens, InMemory
<1> QED BY <1>1, <1>2, <1>3 DEF Call

-----------------------------------------------------------------------------

\* The inductive invariant: the types, the search path, the bound of the stack,
\* and that nothing was parsed before the call.
THEOREM Invariant == Spec => []IInv
BY InitOK, NextKeeps, PTL DEF Spec

\* For all files and names: every stream on the parser's stack is one of a file,
\* at a place in it, whatever fails on the way.
THEOREM TypeCorrect == Spec => []TypeOK
<1>1. IInv => TypeOK
  BY DEF IInv
<1> QED BY <1>1, Invariant, PTL

\* For all files, paths and working directories: while a file is parsed, names
\* are looked up next to it.
THEOREM SearchPath == Spec => []SearchPathFollowsFile
<1>1. IInv => SearchPathFollowsFile
  BY DEF IInv
<1> QED BY <1>1, Invariant, PTL

\* For all files and every limit: no more files are open than the limit.
THEOREM Nesting == Spec => []NestingBounded
<1>1. IInv => NestingBounded
  BY DEF IInv
<1> QED BY <1>1, Invariant, PTL

\* For all files: none that said #include-once is entered again.
THEOREM OnceFiles == Spec => OnceFilesNotReentered
<1>1. IInv /\ [Next]_vars => [OnceFilesNotReenteredStep]_vars
  BY NextKeeps
<1>2. Spec => [][OnceFilesNotReenteredStep]_vars
  BY <1>1, Invariant, PTL DEF Spec
<1> QED BY <1>2 DEF OnceFilesNotReentered, OnceFilesNotReenteredStep

\* For all files, with errors or without, that include each other and themselves:
\* every turn of the loop leaves less to parse, in the outermost file in which it
\* changes anything.  There are at most MaxNumberOfIncludeNesting of them, so a
\* parse has only so many turns: the safety half of ParsingEnds.
THEOREM Progress == Spec => [][ParseDocument => LessLeft(contexts, contexts')]_vars
<1>1. IInv /\ [Next]_vars => [ParseDocument => LessLeft(contexts, contexts')]_vars
  BY TurnLowers
<1> QED BY <1>1, Invariant, PTL DEF Spec

\* However files include each other, the tokens of every open one are its own,
\* and it is one the source manager has loaded: what is put on the stack and
\* moved in place is never another file's, and a source given to ParseString is
\* the outermost.
THEOREM TokensOfFiles == Spec => []ContextsOfFiles
<1>1. Init => ContextsOfFiles
  BY DEF Init, ContextsOfFiles
<1>2. IInv /\ ContextsOfFiles /\ [Next]_vars => ContextsOfFiles'
  <2>1. UNCHANGED vars /\ ContextsOfFiles => ContextsOfFiles'
    BY DEF vars, ContextsOfFiles, OwnsTokens, Exists
  <2> QED BY <2>1, LoopKeepsFiles, CallKeepsFiles DEF Next
<1> QED BY <1>1, <1>2, Invariant, PTL DEF Spec
=============================================================================
