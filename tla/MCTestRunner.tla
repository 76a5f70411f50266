---------------------------- MODULE MCTestRunner ----------------------------
(***************************************************************************)
(* Instances of the test runner and of the lexer in it: for the lexer,     *)
(* sources put together from a few pieces, each in a script that is alone  *)
(* in its directory; for the verdicts, scripts whose comments expect this  *)
(* and that, alone and in directories of two.                              *)
(***************************************************************************)
EXTENDS TestRunner

MacroWords   == {"@cr"}
BuiltInWords == {"abs"}

-----------------------------------------------------------------------------
(* Sources for the lexer.                                                  *)

Triples(P) == {p \o q \o r : p, q, r \in P}
Fours(P)   == {p \o q : p, q \in {p \o q : p, q \in P}}

\* A piece of each kind, against each other: three of them.
MixedPieces ==
  {<<"#", "C", "e">>, <<"#", "c", "s">>, <<"\n">>, <<"'">>, <<"0">>, <<"x">>, <<"_">>,
   <<";">>, <<"$">>, <<"<">>, <<"=">>, <<" ">>, <<"\r">>, <<"(">>, <<NullChar>>}

\* Comments: what is in them, and how they end.
CommentPieces ==
  {<<"#", "c", "s">>, <<"#", "c", "e">>, <<"#">>, <<"\n">>, <<NullChar>>, <<"a">>}
CommentSources == {<<"#", "c", "s">> \o s : s \in Fours(CommentPieces)}

\* Strings, of either quote and with line ends in them.
StringSources == Fours({<<"'">>, <<"\"">>, <<"\n">>, <<"a">>, <<" ">>})

NumberSources == Fours({<<"0">>, <<"x">>, <<"1">>, <<".">>})

OperatorSources == Triples({<<"<">>, <<">">>, <<"=">>, <<"-">>, <<"?">>})

WordSources ==
  {<<"I", "f">>, <<"A", "b", "s">>, <<"_", "I", "f">>, <<"@", "C", "R">>, <<"@", "x">>,
   <<"$", "i", "f">>, <<"#", "p", "r", "a", "g", "m", "a">>, <<"#", "c", "s", "-">>}

LexerSources ==
  Triples(MixedPieces) \cup CommentSources \cup StringSources \cup NumberSources
    \cup OperatorSources \cup WordSources

\* Whatever parsing says of them, they are not run.
NotAScript == [level |-> "Error", message |-> <<"unexpected token">>]
LexerScript(s) ==
  [isScript |-> TRUE, loads |-> TRUE, source |-> s, found |-> <<NotAScript>>,
   log |-> <<>>, ends |-> "returns", expects |-> <<>>]

-----------------------------------------------------------------------------
(* Scripts for the verdicts.                                               *)

Out(text) == [mark |-> "expect-stdout:", text |-> text]
Err(text) == [mark |-> "expect-stderr:", text |-> text]
Warning_(text) == [mark |-> "expect-warning:", text |-> text]
Error_(text)   == [mark |-> "expect-error:", text |-> text]

Writes(stream_, text) == [stream |-> stream_, text |-> text]

ExpectLine(e) == <<";", " ", e.mark, " ", "\"">> \o e.text \o <<"\"", "\n">>
LinesFor(expectations) ==
  FlattenSeq([i \in DOMAIN expectations |-> ExpectLine(expectations[i])])

\* The empty ones say nothing: main.cpp:231 has them ignored.
NotEmpty(expectations) == SelectSeq(expectations, LAMBDA e : e.text # <<>>)

\* A script that expects, line by line, and writes.
Plain(expectations, log) ==
  [isScript |-> TRUE, loads |-> TRUE, source |-> LinesFor(expectations), found |-> <<>>,
   log |-> log, ends |-> "returns", expects |-> NotEmpty(expectations)]

SeqsUpToTwo(S) == {<<>>} \cup {<<x>> : x \in S} \cup {<<x, y>> : x, y \in S}

\* Blank, empty and trailing messages.  What an empty expectation does to one behind
\* it is a question of its own, EmptyExpectationsIgnored.
EmptyLast(texts) == \A i, j \in DOMAIN texts : i < j /\ texts[i] = <<>> => texts[j] = <<>>
SomeText == {<<"a">>, <<" ">>, <<>>, <<"a", " ">>}
OutputScripts ==
  {Plain([i \in DOMAIN want |-> Out(want[i])], [i \in DOMAIN log |-> Writes("stdout", log[i])]) :
     want \in {w \in SeqsUpToTwo(SomeText) : EmptyLast(w)}, log \in SeqsUpToTwo(SomeText)}

\* Both streams, and the runtime errors, which no expectation is compared with.
StreamScripts ==
  {Plain(want, log) :
     want \in SeqsUpToTwo({Out(<<"a">>), Err(<<"a">>), Error_(<<"a">>)}),
     log  \in SeqsUpToTwo({Writes(s, <<"a">>) : s \in {"stdout", "stderr", "cerr"}})}

\* What is reported; a script with an error is not run.
Diagnostics == [level : {"Warning", "Error", "FatalError"}, message : {<<"a">>}]
DiagnosticScripts ==
  {[Plain(want, IF \E d \in ToSet(found) : d.level # "Warning"
                  THEN <<>> ELSE <<Writes("stdout", <<"a">>)>>)
      EXCEPT !.found = found] :
     want \in SeqsUpToTwo({Out(<<"a">>), Warning_(<<"a">>), Warning_(<<"b">>), Error_(<<"a">>)}),
     found \in SeqsUpToTwo(Diagnostics)}

\* A script whose source is the characters given and that writes a.
Odd(source_, expectations) ==
  [Plain(<<>>, <<Writes("stdout", <<"a">>)>>)
     EXCEPT !.source = source_, !.expects = expectations]

Want      == ExpectLine(Out(<<"a">>))
WantOther == ExpectLine(Out(<<"b">>))
Opened    == <<"#", "c", "s", "\n">>
Closed    == <<"#", "c", "e", "\n">>

\* Expectations that are in a string or behind an open one, in a comment, in a
\* comment with another, behind an open one; two quotes too many; a quote on the
\* next line; a null character.
OddScripts ==
  {Odd(<<"'">> \o Want \o <<"'", "\n">> \o WantOther, <<Out(<<"b">>)>>),
   Odd(<<"'", "\n">> \o Want, <<>>),
   Odd(Want \o <<"\"", "\n">> \o WantOther, <<Out(<<"a">>)>>),
   Odd(Opened \o Want \o Closed, <<Out(<<"a">>)>>),
   Odd(Opened \o Want \o WantOther \o Closed, <<Out(<<"a">>)>>),
   Odd(Opened \o WantOther, <<>>),
   Odd(<<";", "expect-stdout:", "\"", "a", "\"", " ", "\"", "\n">>,
       <<Out(<<"a", "\"", " ">>)>>),
   Odd(Opened \o <<"expect-stdout:", "\n", "\"", "a", "\"", "\n">> \o Closed, <<Out(<<"a">>)>>),
   Odd(<<";", "expect-stdout:", "\n", "\"", "a", "\"", "\n">>, <<>>),
   [Odd(<<NullChar>> \o Want, <<Out(<<"a">>)>>) EXCEPT !.found = <<>>],
   Odd(<<NullChar>> \o Want
         \o ExpectLine(Warning_(<<"null character ignored">>)),
       <<Out(<<"a">>), Warning_(<<"null character ignored">>)>>)}

\* For directories of two, run in either order: one that passes, one that fails,
\* ones that write what the others expect, one that writes and expects nothing,
\* one with an error, a file that is no script and one that cannot be read, one
\* that traps and one that loops.
Passing == Plain(<<Out(<<"a">>)>>, <<Writes("stdout", <<"a">>)>>)
Pairable ==
  {Passing,
   Plain(<<Out(<<"a">>)>>, <<>>),
   Plain(<<>>, <<Writes("stdout", <<"a">>)>>),
   Plain(<<Err(<<"a">>)>>, <<Writes("stderr", <<"a">>)>>),
   [Plain(<<>>, <<>>) EXCEPT !.found = <<NotAScript>>],
   [Passing EXCEPT !.isScript = FALSE],
   [Passing EXCEPT !.loads = FALSE],
   [Passing EXCEPT !.ends = "traps"],
   [Passing EXCEPT !.ends = "loops"]}

-----------------------------------------------------------------------------

Scripts_ ==
  {LexerScript(s) : s \in LexerSources}
    \cup OutputScripts \cup StreamScripts \cup DiagnosticScripts \cup OddScripts \cup Pairable

Sources == {f.source : f \in Scripts_} \cup {<<>>}
Directories == {{}} \cup {{f} : f \in Scripts_} \cup {{f, g} : f, g \in Pairable}

-----------------------------------------------------------------------------
(* Empty expectations, before the other, behind it and not at all.         *)

Twins(expectation, empty, log) ==
  {Plain(want, log) : want \in {<<empty, expectation>>, <<expectation, empty>>, <<expectation>>}}

TwinScripts ==
  Twins(Out(<<"a">>), Out(<<>>), <<Writes("stdout", <<"a">>)>>)
    \cup Twins(Err(<<"a">>), Err(<<>>), <<Writes("stderr", <<"a">>)>>)

TwinSources     == {f.source : f \in TwinScripts} \cup {<<>>}
TwinDirectories == {{f \in TwinScripts : f.log = g.log} : g \in TwinScripts}

\* main.cpp:231 and :247 have empty strings ignored: of scripts that write the same
\* and expect the same but for empty messages, all pass or none does.
EmptyExpectationsIgnored ==
  \A m, n \in DOMAIN reports :
    LET f == reports[m].script
        g == reports[n].script
    IN  f.log = g.log /\ f.expects = g.expects => reports[m].passed = reports[n].passed
=============================================================================
