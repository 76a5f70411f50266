------------------------------ MODULE MCParser ------------------------------
(***************************************************************************)
(* Files for TLC to parse, written line by line, and what they mean.       *)
(***************************************************************************)
EXTENDS Parser, SequencesExt, FiniteSetsExt

CONSTANTS
  MCTooLarge,
  ParseExpression(_), ParseExpressionRhs(_, _, _), ParseFunctionCallArguments(_, _),
  ParseStatement(_), ParseBody(_, _, _), ParseWhileBody(_, _), ParseElseIfCases(_, _),
  ParseSpecifiers(_, _), ParseParameterPart(_, _), ParseParameters(_, _)

S == INSTANCE Statements WITH TooLarge <- MCTooLarge

\* The functions of the descent are what Statements says of them.  LET keeps
\* TLC's coverage from following them in a circle.
MCParseExpression(s) == LET r == S!ExpressionAt(s) IN r
MCParseExpressionRhs(lhs, s, precedence) == LET r == S!ExpressionRhsAt(lhs, s, precedence) IN r
MCParseFunctionCallArguments(s, arguments) ==
  LET r == S!FunctionCallArgumentsAt(s, arguments) IN r
MCParseStatement(s) == LET r == S!StatementOfKindAt(s) IN r
MCParseBody(ends, statements, s) == LET r == S!BodyAt(ends, statements, s) IN r
MCParseWhileBody(statements, s) == LET r == S!WhileBodyAt(statements, s) IN r
MCParseElseIfCases(cases, s) == LET r == S!ElseIfCasesAt(cases, s) IN r
MCParseSpecifiers(specifiers, s) == LET r == S!SpecifiersAt(specifiers, s) IN r
MCParseParameterPart(parameter, s) == LET r == S!ParameterPartAt(parameter, s) IN r
MCParseParameters(parameters, s) == LET r == S!ParametersAt(parameters, s) IN r

Tok(kind, text) == [kind |-> kind, text |-> text]
Sign(kind)      == Tok(kind, "")
NewLine         == Sign("NewLine")
Var(name)       == Tok("VariableIdentifier", name)
Number          == Tok("IntegerLiteral", "1")
Quoted(name)    == <<Sign("PP_Include"), Tok("StringLiteral", name)>>
Angled(name)    == <<Sign("PP_Include"), Sign("OP_LessThan"), Sign("KW_Not"), Tok("Macro", name),
                     Sign("OP_GreaterThan")>>

-----------------------------------------------------------------------------
(* Paths: the files main.au3, a.au3 and s/b.au3 in the directory w.        *)

MCComponent == {"w", "s", "..", "main", "a", "b", "none", "<repl>"}

Relative(parts) == [root |-> FALSE, parts |-> parts]
Rooted(parts)   == [root |-> TRUE, parts |-> parts]

Cwd == Rooted(<<"w">>)
MCTextPath == Relative(<<"<repl>">>)
LongName   == Relative(<<"none", "none">>)

PathOf(name) ==
  CASE name = "main" -> Relative(<<"main">>)
    [] name = "a" -> Relative(<<"a">>)
    [] name = "b" -> Relative(<<"b">>)
    [] name = "s/b" -> Relative(<<"s", "b">>)
    [] name = "../a" -> Relative(<<"..", "a">>)
    [] name = "/w/a" -> Rooted(<<"w", "a">>)
    [] name = "none" -> Relative(<<"none">>)
    [] name = "long" -> LongName
    [] OTHER -> EmptyPath
MCPathNamed(texts) == PathOf(FoldLeft(LAMBDA name, text : IF text = "" THEN name ELSE text, "", texts))

\* Where a path leads.
Place(path) ==
  FoldLeft(LAMBDA parts, c : IF c # ".." THEN Append(parts, c)
                             ELSE IF parts = <<>> THEN <<>> ELSE Front(parts),
           <<>>, (IF path.root THEN path ELSE Join(Cwd, path)).parts)
MainPlace == <<"w", "main">>
APlace    == <<"w", "a">>
BPlace    == <<"w", "s", "b">>

-----------------------------------------------------------------------------
(* Lines.  A statement or function of a file is named for the file.        *)

Line(do, name)     == [do |-> do, name |-> name]
LineTokens(line) ==
  CASE line.do = "statement" -> <<Var(line.name)>>
    [] line.do = "function"  ->
         <<Sign("KW_Func"), Tok("FunctionIdentifier", line.name), Sign("LParen"),
           Sign("RParen"), NewLine, Sign("KW_EndFunc")>>
    [] line.do = "quoted"    -> Quoted(line.name) \o <<Sign("Comment")>>
    [] line.do = "angled"    -> Angled(line.name)
    [] line.do = "once"      -> <<Sign("PP_IncludeOnce")>>

Written(lines) ==
  FoldLeft(LAMBDA ts, line : (IF ts = <<>> THEN ts ELSE Append(ts, NewLine)) \o LineTokens(line),
           <<>>, lines)

Once       == Line("once", "")
Say(f)     == Line("statement", f)
Define(f)  == Line("function", f)
Include1(name) == Line("quoted", name)

MainLines == [1 .. 2 -> {Say("main"), Include1("a"), Line("angled", "s/b"), Once}]
              \cup { <<Include1("s/b"), Include1("../a"), Define("main")>>,
                     <<Include1("/w/a"), Include1("a")>>, <<Include1("main"), Say("main")>> }
ALines ==
  { <<Say("a")>>, <<Once, Say("a")>>, <<Say("a"), Include1("main")>>,
    <<Include1("s/b"), Define("a")>>, <<Once, Include1("s/b"), Say("a")>>,
    <<Include1("a"), Once, Say("a")>>, <<Include1("a"), Line("angled", "b"), Say("a")>> }
BLines ==
  { <<Say("b")>>, <<Once, Say("b")>>, <<Include1("../a"), Say("b")>>,
    <<Include1("b"), Once, Define("b")>>, <<Line("angled", "a"), Say("b")>> }

-----------------------------------------------------------------------------
(* Sources that are in no line's form, with what they give.                *)

Odd(tokens, statements, functions, e, f) ==
  [tokens |-> tokens, statements |-> statements, functions |-> functions, errors |-> e, failures |-> f]

Odds ==
  { Odd(<<Sign("PP_Include")>>, <<>>, <<>>, 1, 0),
    Odd(<<Sign("PP_Include"), NewLine, Var("main")>>, <<"main">>, <<>>, 1, 0),
    Odd(<<Sign("PP_Include"), Sign("OP_LessThan"), Var("a"), NewLine, Var("main")>>,
        <<"main">>, <<>>, 1, 0),
    Odd(<<Sign("PP_Include"), Sign("OP_LessThan"), Var("a")>>, <<>>, <<>>, 1, 0),
    Odd(Quoted("none") \o <<Var("main")>>, <<"main">>, <<>>, 1, 0),
    Odd(Quoted("") \o <<NewLine, Var("main")>>, <<"main">>, <<>>, 1, 0),
    Odd(Angled("long") \o <<NewLine, Var("main")>>, <<"main">>, <<>>, 1, 0),
    \* What follows on the line costs its first token.
    Odd(Quoted("a") \o <<Sign("Comma"), Var("main"), NewLine, Var("main")>>,
        <<"a", "main", "main">>, <<>>, 1, 0),
    Odd(<<Sign("PP_IncludeOnce"), Sign("RParen"), Var("main")>>, <<"main">>, <<>>, 1, 0),
    Odd(<<Var("main"), Var("a"), Var("main")>>, <<"main", "main">>, <<>>, 1, 0),
    Odd(<<Sign("RParen"), Sign("RParen"), Var("main")>>, <<"main">>, <<>>, 0, 2),
    Odd(<<Sign("KW_Const")>>, <<>>, <<>>, 0, 1),
    Odd(<<Sign("NotAToken"), Sign("PP_CommentsStart"), Sign("PP_CommentsEnd"), Var("main")>>,
        <<"main">>, <<>>, 0, 0),
    \* The function is lost, its body becomes the document's.
    Odd(<<Sign("KW_Func"), Sign("LParen"), Sign("RParen"), NewLine, Var("main"), NewLine,
          Sign("KW_EndFunc")>>, <<"main">>, <<>>, 0, 3),
    Odd(<<Sign("KW_Func"), Tok("FunctionIdentifier", "main")>>, <<>>, <<>>, 0, 1),
    Odd(<<Tok("IntegerLiteral", "huge"), NewLine, Var("main")>>, <<"main">>, <<>>, 1, 1) }

-----------------------------------------------------------------------------
(* An If with three bodies of a few parts, of which some do not parse.     *)

XTokens == <<Var("x")>>
FTokens == <<Tok("FunctionIdentifier", "f"), Sign("LParen"), Var("x"), Sign("RParen")>>
X == S!Variable(Var("x"))
F == S!Call(Tok("FunctionIdentifier", "f"), <<X>>)

Part(tokens, trees) == [tokens |-> tokens, trees |-> trees]
Assigned == Part(<<Var("a")>>, <<S!VariableAssignment("a", "Auto", <<>>)>>)
\* An expression that is no statement; a call that is left open.
NoStatement == Part(<<Number>>, <<>>)
OpenCall    == Part(<<Tok("FunctionIdentifier", "f"), Sign("LParen")>>, <<>>)

\* On lines of their own, or all on one.
Body3 == {<<>>, <<Assigned>>, <<NoStatement>>, <<OpenCall>>, <<Assigned, NoStatement>>,
          <<Assigned, OpenCall>>, <<NoStatement, Assigned>>, <<Assigned, Assigned>>}
PartsTokens(parts, behind) == FlattenSeq([i \in DOMAIN parts |-> parts[i].tokens \o behind])
ThreeBodies(bodies, behind) ==
  <<Sign("KW_If")>> \o XTokens \o <<Sign("KW_Then")>> \o behind \o PartsTokens(bodies[1], behind)
    \o <<Sign("KW_ElseIf")>> \o FTokens \o <<Sign("KW_Then")>> \o behind
    \o PartsTokens(bodies[2], behind)
    \o <<Sign("KW_Else")>> \o behind \o PartsTokens(bodies[3], behind) \o <<Sign("KW_EndIf")>>

-----------------------------------------------------------------------------
(* File systems, and where their files come from.                          *)

\* The paths that a name in one of the files can lead to.
SpellingsOf(parts) == {Relative(parts), Join(Cwd, Relative(parts))}

FileSystem(main, a, b, empty, origin) ==
  [files |-> [p \in SpellingsOf(<<"main">>) |-> main]
               @@ [p \in SpellingsOf(<<"a">>) \cup SpellingsOf(<<"s", "..", "a">>) |-> a]
               @@ [p \in SpellingsOf(<<"s", "b">>) |-> b],
   cwd |-> Cwd, absoluteOfEmpty |-> empty, origin |-> origin]

LineSystem(m, a, b, empty) ==
  FileSystem(Written(m), Written(a), Written(b), empty,
             [kind |-> "lines", main |-> m, a |-> a, b |-> b])
OddSystem(odd) ==
  FileSystem(odd.tokens, Written(<<Say("a")>>), <<>>, Cwd,
             [kind |-> "odd", document |-> odd])
BodiesSystem(bodies, behind) ==
  FileSystem(ThreeBodies(bodies, behind) \o <<NewLine, Var("main")>>, <<>>, <<>>, EmptyPath,
             [kind |-> "bodies", bodies |-> bodies])

OddSystems == {OddSystem(odd) : odd \in Odds}
MCSystem ==
  {LineSystem(m, a, b, EmptyPath) : m \in MainLines, a \in ALines, b \in BLines}
    \cup {LineSystem(m, a, <<Include1("../a"), Say("b")>>, Cwd) : m \in MainLines, a \in ALines}
    \cup OddSystems
    \cup {BodiesSystem(bodies, behind) : bodies \in [1 .. 3 -> Body3], behind \in {<<>>, <<NewLine>>}}

\* Two spellings of one file.
SpellingSystem == {LineSystem(<<Include1("/w/a"), Include1("a")>>, <<Once, Say("a")>>, <<>>, EmptyPath)}

MCArgument == {PathOf("main"), PathOf("none")}
MCText     == {<<Var("main"), NewLine>> \o Quoted("a")}
SourcesOf(systems) ==
  UNION {{disk.files[p] : p \in {PathOf("main"), PathOf("a"), PathOf("s/b")}} :
           disk \in systems} \cup MCText
MCSource  == SourcesOf(MCSystem)
SpellingSource == SourcesOf(SpellingSystem)
MCTooLong  == {LongName}

\* Every stream is parsed once: @@ makes TLC tabulate.  By length and index, as
\* TLC has to search for an argument that is not a number.
Tabulated(table) == table @@ [x \in {} |-> x]
Parsing(Parse(_)) ==
  Tabulated([n \in 0 .. Max({Len(source) : source \in Source}) |->
    Tabulated([source \in {ts \in Source : Len(ts) = n} |->
      Tabulated([i \in 0 .. n |-> Parse([Stream(source) EXCEPT !.index = i])])])])
StatementsAt == Parsing(ParseStatement)
FunctionsAt  == Parsing(S!ParseFunctionDefinition)
MCStatementAt(s)          == StatementsAt[Len(s.tokens)][s.tokens][s.index]
MCFunctionDefinitionAt(s) == FunctionsAt[Len(s.tokens)][s.tokens][s.index]

-----------------------------------------------------------------------------
(* What the files mean.                                                    *)

Nothing == [statements |-> <<>>, functions |-> <<>>, errors |-> 0, once |-> {}]

LinesOf(place) ==
  CASE place = MainPlace -> system.origin.main
    [] place = APlace -> system.origin.a
    [] place = BPlace -> system.origin.b
Target(path, name) == Join(Absolute(ParentPath(path)), PathOf(name))

\* r and what the file at path adds to it, when it is at the given depth.
RECURSIVE Expanded(_, _, _)
Expanded(path, depth, r) ==
  FoldLeft(
    LAMBDA q, line :
      CASE line.do = "statement" -> [q EXCEPT !.statements = Append(@, line.name)]
        [] line.do = "function"  -> [q EXCEPT !.functions = Append(@, line.name)]
        [] line.do = "once"      -> [q EXCEPT !.once = @ \cup {path}]
        [] OTHER ->
             LET target == Target(path, line.name)
             IN  CASE depth = MaxNumberOfIncludeNesting -> [q EXCEPT !.errors = @ + 1]
                   [] Place(target) \notin {MainPlace, APlace, BPlace} -> [q EXCEPT !.errors = @ + 1]
                   [] target \in q.once -> q
                   [] OTHER -> Expanded(target, depth + 1, q),
    r, LinesOf(Place(path)))

Names(trees) == [i \in DOMAIN trees |-> trees[i].name]

\* A document of the kind is parsed to the end, from its main file.
ParsedWhole(kinds) ==
  /\ argument = <<OnDisk(PathOf("main"))>> /\ ~ShouldContinueParsing
  /\ system.origin.kind \in kinds

\* The document is what the files say with every #include replaced by what it
\* includes: in order, each name next to the file that says it, nothing lost or
\* doubled when a file is left, files that said #include-once left out, an
\* error for each #include that is too deep or finds nothing.
IncludesExpand ==
  ParsedWhole({"lines"}) =>
    LET expected == Expanded(PathOf("main"), 1, Nothing)
    IN  /\ Names(document.statements) = expected.statements
        /\ Names(document.functions) = expected.functions
        /\ errors = expected.errors /\ failures = 0

\* What cannot be parsed costs no more than itself, and is reported: the parser
\* goes on at the right place behind it.
GoesOnBehindErrors ==
  ParsedWhole({"odd"}) =>
    LET expected == system.origin.document
    IN  /\ Names(document.statements) = expected.statements
        /\ Names(document.functions) = expected.functions
        /\ errors = expected.errors /\ failures = expected.failures

WholeBody(parts)     == \A i \in DOMAIN parts : parts[i].trees # <<>>
StatementsOf(parts)  == FlattenSeq([i \in DOMAIN parts |-> parts[i].trees])
WholeOrEmpty(parts)  == IF WholeBody(parts) THEN StatementsOf(parts) ELSE <<>>

\* A statement that fails in a body of an If costs a failure that is counted, or
\* no more than the ElseIf or Else body it is in, whole: what is run is never a
\* part of a body, never a body of the If case that lost something, and nothing
\* of the other bodies and behind the If is missing.
BodiesWholeOrEmpty ==
  ParsedWhole({"bodies"}) =>
    LET bodies == system.origin.bodies
    IN  /\ failures = 0 =>
             /\ WholeBody(bodies[1])
             /\ document.statements =
                  <<S!IfStatement(<<S!IfCase(X, StatementsOf(bodies[1])),
                                    S!IfCase(F, WholeOrEmpty(bodies[2]))>>,
                                  WholeOrEmpty(bodies[3])),
                    S!VariableAssignment("main", "Auto", <<>>)>>
        /\ (\A i \in 1 .. 3 : WholeBody(bodies[i])) => failures = 0

\* Parser.cpp:433 does not include a file that is "already included with
\* #include-once set in the file".  The set holds spellings of paths.
OnceFileIncludedOnce ==
  [][\A file \in includeOnce :
       Cardinality({i \in DOMAIN contexts' : Place(contexts'[i].file.path) = Place(file.path)})
         <= Cardinality({i \in DOMAIN contexts : Place(contexts[i].file.path) = Place(file.path)})]_vars
=============================================================================
