---------------------------- MODULE TokenStream ----------------------------
(***************************************************************************)
(* The stream of a file's tokens and how parsing functions work on it.     *)
(*                                                                         *)
(* A token has a kind, TokenKind.hpp's or "BuiltIn" and "Macro" for all of *)
(* those, and a text, which the parser only copies.  A parsing function    *)
(* takes a stream and gives what it parsed, if anything, and the stream it *)
(* leaves: one that fails leaves it where it failed.                       *)
(***************************************************************************)
EXTENDS Integers, Sequences

TokenKind ==
  {"NotAToken", "Garbage", "NewLine", "Comment", "VariableIdentifier", "FunctionIdentifier",
   "BuiltIn", "Macro", "IntegerLiteral", "FloatLiteral", "StringLiteral",
   "Comma", "LParen", "RParen", "Dot", "LSquare", "RSquare",
   "PP_CommentsStart", "PP_CommentsEnd", "PP_Include", "PP_IncludeOnce", "PP_NoTrayIcon",
   "PP_OnAutoItStartRegister", "PP_Pragma", "PP_RequireAdmin",
   "KW_False", "KW_True", "KW_ContinueCase", "KW_ContinueLoop", "KW_Default", "KW_Dim",
   "KW_Local", "KW_Global", "KW_Const", "KW_Do", "KW_Until", "KW_Enum", "KW_Exit",
   "KW_ExitLoop", "KW_For", "KW_To", "KW_Step", "KW_Next", "KW_In", "KW_Func", "KW_ByRef",
   "KW_Return", "KW_EndFunc", "KW_If", "KW_Then", "KW_EndIf", "KW_ElseIf", "KW_Else",
   "KW_Null", "KW_ReDim", "KW_Select", "KW_Case", "KW_EndSelect", "KW_Static", "KW_Switch",
   "KW_EndSwitch", "KW_Volatile", "KW_While", "KW_WEnd", "KW_With", "KW_EndWith",
   "KW_And", "KW_Or", "KW_Not",
   "OP_Equals", "OP_PlusEquals", "OP_MinusEquals", "OP_MultiplyEquals", "OP_DivideEquals",
   "OP_Concatenate", "OP_ConcatenateEquals", "OP_Plus", "OP_Minus", "OP_Multiply",
   "OP_Divide", "OP_Raise", "OP_EqualsEquals", "OP_NotEqual", "OP_GreaterThan",
   "OP_GreaterThanEqual", "OP_LessThan", "OP_LessThanEqual", "OP_TernaryIf",
   "OP_TernaryElse"}

Token == [kind: TokenKind, text: STRING]

\* The errors the parser reports on the way are counted in the stream.
AnyStream == {s \in [tokens: Seq(Token), index: Nat, errors: Nat] : s.index <= Len(s.tokens)}
Stream(tokens) == [tokens |-> tokens, index |-> 0, errors |-> 0]

HasMoreTokens(s)  == s.index < Len(s.tokens)
CurrentToken(s)   == s.tokens[s.index + 1]
CurrentKind(s)    == IF HasMoreTokens(s) THEN CurrentToken(s).kind ELSE "none"
ConsumeCurrent(s) == [s EXCEPT !.index = @ + 1]
Report(s)         == [s EXCEPT !.errors = @ + 1]

\* The stream at the next token of a kind that stops, or at its end.
ConsumeTo(Stops(_), s) ==
  [s EXCEPT !.index =
     CHOOSE i \in s.index .. Len(s.tokens) :
       /\ i < Len(s.tokens) => Stops(s.tokens[i + 1].kind)
       /\ \A j \in s.index + 1 .. i : ~Stops(s.tokens[j].kind)]

ConsumeWhile(kinds, s) == ConsumeTo(LAMBDA kind : kind \notin kinds, s)
ConsumeUntil(kinds, s) == ConsumeTo(LAMBDA kind : kind \in kinds, s)

CommentKind == {"Comment", "PP_CommentsStart", "PP_CommentsEnd"}
ConsumeComments(s)           == ConsumeWhile(CommentKind, s)
ConsumeNewLineAndComments(s) == ConsumeWhile(CommentKind \cup {"NewLine"}, s)

\* Slip: the rest of the line stays when it is not empty.
RequireNewLineKeepsToken(s) ==
  LET t == ConsumeComments(s)
  IN  CASE CurrentKind(t) = "none" -> t
        [] CurrentKind(t) = "NewLine" -> ConsumeCurrent(t)
        [] OTHER -> Report(t)

\* One token more goes, the new line or what is there instead.
RequireNewLine(s) ==
  LET t == ConsumeComments(s)
  IN  CASE CurrentKind(t) = "none" -> t
        [] CurrentKind(t) = "NewLine" -> ConsumeCurrent(t)
        [] OTHER -> ConsumeCurrent(Report(t))

-----------------------------------------------------------------------------

\* What a parsing function returns: at most one tree.
Failed(s)       == [tree |-> <<>>, stream |-> s]
Parsed(tree, s) == [tree |-> <<tree>>, stream |-> s]

\* Give up when r failed, else go on with its tree and the stream behind it.
\* A set of one, so that TLC evaluates r once.
Then(r, Continue(_, _)) ==
  CHOOSE result \in {IF q.tree = <<>> THEN q ELSE Continue(q.tree[1], q.stream) : q \in {r}} : TRUE

MustParse(kind, s, Continue(_)) ==
  IF CurrentKind(s) = kind THEN Continue(ConsumeCurrent(s)) ELSE Failed(s)

\* The streams that s may become: parsing never goes back, or past the end.
Ahead(s) ==
  [tokens: {s.tokens}, index: s.index .. Len(s.tokens), errors: Nat]

\* What is parsed is some token.
MovesForward(s, r) ==
  /\ r.stream \in Ahead(s)
  /\ r.tree # <<>> => r.tree = <<r.tree[1]>> /\ r.stream.index > s.index
=============================================================================
