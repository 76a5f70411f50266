------------------------------- MODULE Lexer -------------------------------
(***************************************************************************)
(* The lexer: parser/src/Lexer.cpp.  ProcessFile calls GetNextToken until  *)
(* the source is used up; an action is one turn of GetNextToken's loop,    *)
(* one for each of its branches.                                           *)
(*                                                                         *)
(* A source is a sequence of characters.  A token's text is the part of    *)
(* the source between two offsets.  The tables of macros and built-in      *)
(* functions are the words in them, all "Macro" or "BuiltIn".              *)
(***************************************************************************)
EXTENDS Integers, FiniteSets, SequencesExt

CONSTANTS
  Source,       \* the sources
  MacroWord,    \* the words of MacroValues
  BuiltInWord   \* the words of BuiltInValues

\* A string of one; where nothing looks into a text, all of the text.
Character == STRING

ASSUME SourceAssumption == Source \subseteq Seq(Character)
ASSUME WordAssumption == MacroWord \subseteq STRING /\ BuiltInWord \subseteq STRING

VARIABLES
  source,                   \* m_Source
  iterator,                 \* m_Iterator, an offset
  insideMultiLineComment,   \* m_InsideMultiLineComment
  lineNumber, column,       \* m_LineNumber, m_Column
  stream,                   \* the tokens
  nullCharacters            \* the warnings NullCharacter

position  == <<iterator, lineNumber, column>>
lexerVars == <<source, position, insideMultiLineComment, stream, nullCharacters>>

-----------------------------------------------------------------------------
(* Characters.                                                             *)

NullChar == "NUL"
Digit    == {"0", "1", "2", "3", "4", "5", "6", "7", "8", "9"}
LowerLetters ==
  <<"a", "b", "c", "d", "e", "f", "g", "h", "i", "j", "k", "l", "m",
    "n", "o", "p", "q", "r", "s", "t", "u", "v", "w", "x", "y", "z">>
UpperLetters ==
  <<"A", "B", "C", "D", "E", "F", "G", "H", "I", "J", "K", "L", "M",
    "N", "O", "P", "Q", "R", "S", "T", "U", "V", "W", "X", "Y", "Z">>
AlphaNumeric == Digit \cup ToSet(LowerLetters) \cup ToSet(UpperLetters)
HexDigit == Digit \cup {"a", "b", "c", "d", "e", "f", "A", "B", "C", "D", "E", "F"}

SkipChar        == {" ", "\t", "\f", "VT", "BS"}
IdentifierChar  == AlphaNumeric \cup {"_"}
PPChar          == AlphaNumeric \cup {"-"}
TwoPartOperator == {"=", "+", "-", "*", "/", "&", "<", ">"}
SingleOperator  == {"^", "?", ":"}
Quote           == {"'", "\""}

ToLowerCase(c) ==
  IF \E i \in 1 .. 26 : UpperLetters[i] = c
    THEN LowerLetters[CHOOSE i \in 1 .. 26 : UpperLetters[i] = c]
    ELSE c

-----------------------------------------------------------------------------
(* Words.                                                                  *)

KeyWord ==
  [false |-> "KW_False", true |-> "KW_True", continuecase |-> "KW_ContinueCase",
   continueloop |-> "KW_ContinueLoop", default |-> "KW_Default", dim |-> "KW_Dim",
   local |-> "KW_Local", global |-> "KW_Global", const |-> "KW_Const", do |-> "KW_Do",
   until |-> "KW_Until", enum |-> "KW_Enum", exit |-> "KW_Exit",
   exitloop |-> "KW_ExitLoop", for |-> "KW_For", to |-> "KW_To", step |-> "KW_Step",
   next |-> "KW_Next", in |-> "KW_In", func |-> "KW_Func", byref |-> "KW_ByRef",
   return |-> "KW_Return", endfunc |-> "KW_EndFunc", if |-> "KW_If", then |-> "KW_Then",
   endif |-> "KW_EndIf", elseif |-> "KW_ElseIf", else |-> "KW_Else", null |-> "KW_Null",
   redim |-> "KW_ReDim", select |-> "KW_Select", case |-> "KW_Case",
   endselect |-> "KW_EndSelect", static |-> "KW_Static", switch |-> "KW_Switch",
   endswitch |-> "KW_EndSwitch", volatile |-> "KW_Volatile", while |-> "KW_While",
   wend |-> "KW_WEnd", with |-> "KW_With", endwith |-> "KW_EndWith", and |-> "KW_And",
   or |-> "KW_Or", not |-> "KW_Not"]

LookupIdentifier(word) ==
  CASE word \in DOMAIN KeyWord -> KeyWord[word]
    [] word \notin DOMAIN KeyWord /\ word \in BuiltInWord -> "BuiltIn"
    [] OTHER -> "FunctionIdentifier"

LookupMacro(word) == IF word \in MacroWord THEN "Macro" ELSE "NotAToken"

LookupPreProcessor(word) ==
  CASE word \in {"#comments-start", "#cs"} -> "PP_CommentsStart"
    [] word \in {"#comments-end", "#ce"}   -> "PP_CommentsEnd"
    [] word = "#include"               -> "PP_Include"
    [] word = "#include-once"          -> "PP_IncludeOnce"
    [] word = "#notrayicon"            -> "PP_NoTrayIcon"
    [] word = "#onautoitstartregister" -> "PP_OnAutoItStartRegister"
    [] word = "#pragma"                -> "PP_Pragma"
    [] word = "#requireadmin"          -> "PP_RequireAdmin"
    [] OTHER -> "NotAToken"

\* Slip: the two characters of <> make no operator.
LookupOperatorWithoutNotEqual(text) ==
  CASE text = <<"<">> -> "OP_LessThan"    [] text = <<"<", "=">> -> "OP_LessThanEqual"
    [] text = <<">">> -> "OP_GreaterThan" [] text = <<">", "=">> -> "OP_GreaterThanEqual"
    [] text = <<"=">> -> "OP_Equals"      [] OTHER -> "NotAToken"

LookupOperator(text) ==
  CASE text = <<"=">> -> "OP_Equals"           [] text = <<"=", "=">> -> "OP_EqualsEquals"
    [] text = <<"+">> -> "OP_Plus"             [] text = <<"+", "=">> -> "OP_PlusEquals"
    [] text = <<"-">> -> "OP_Minus"            [] text = <<"-", "=">> -> "OP_MinusEquals"
    [] text = <<"*">> -> "OP_Multiply"         [] text = <<"*", "=">> -> "OP_MultiplyEquals"
    [] text = <<"/">> -> "OP_Divide"           [] text = <<"/", "=">> -> "OP_DivideEquals"
    [] text = <<"&">> -> "OP_Concatenate"      [] text = <<"&", "=">> -> "OP_ConcatenateEquals"
    [] text = <<"<">> -> "OP_LessThan"         [] text = <<"<", "=">> -> "OP_LessThanEqual"
    [] text = <<">">> -> "OP_GreaterThan"      [] text = <<">", "=">> -> "OP_GreaterThanEqual"
    [] text = <<"<", ">">> -> "OP_NotEqual"    [] text = <<"^">> -> "OP_Raise"
    [] text = <<"?">> -> "OP_TernaryIf"        [] text = <<":">> -> "OP_TernaryElse"
    [] OTHER -> "NotAToken"

LookupPunctuation(c) ==
  CASE c = "," -> "Comma"  [] c = "(" -> "LParen"  [] c = ")" -> "RParen"
    [] c = "[" -> "LSquare" [] c = "]" -> "RSquare"
Punctuation == {",", "(", ")", "[", "]"}

-----------------------------------------------------------------------------
(* The source and the place in it.                                         *)

Offset     == 0 .. Len(source)
IsFinished == iterator = Len(source)
At(i)      == source[i + 1]
Current    == At(iterator)

\* The first offset from i on at which there is no character of S, or the end.
EndOfRun(S, i) ==
  Min({j \in i .. Len(source) : j < Len(source) => At(j) \notin S})

\* The offsets of S between i and j.
PlacesOf(S, i, j) == {k \in i .. j - 1 : At(k) \in S}

\* The text between two offsets, and in lower case.
Slice(i, j) == SubSeq(source, i + 1, j)
FoldedText(i, j) ==
  LET upTo[k \in i .. j] == IF k = i THEN "" ELSE upTo[k - 1] \o ToLowerCase(At(k - 1))
  IN  upTo[j]

PreProcessorEnd(i)  == EndOfRun(PPChar, i + 1)
PreProcessorKind(i) == LookupPreProcessor(FoldedText(i, PreProcessorEnd(i)))

Token(kind, end) ==
  [kind |-> kind, begin |-> iterator, end |-> end, line |-> lineNumber, column |-> column]

MoveTo(end) ==
  /\ iterator' = end
  /\ column' = column + (end - iterator)
  /\ UNCHANGED lineNumber

\* ConstructToken: the token up to an offset, which is where lexing goes on.
Emit(kind, end) ==
  /\ stream' = Append(stream, Token(kind, end))
  /\ MoveTo(end)

-----------------------------------------------------------------------------
(* GetNextToken.                                                           *)

\* A character of S is next, outside a comment.  A null character comes before
\* everything else, in a comment too.
Upcoming(S) ==
  /\ ~IsFinished /\ ~insideMultiLineComment
  /\ Current \in S

NullCharacter ==
  /\ ~IsFinished /\ Current = NullChar
  /\ nullCharacters' = nullCharacters + 1
  /\ MoveTo(iterator + 1)
  /\ UNCHANGED <<source, insideMultiLineComment, stream>>

\* Where #comments-end or #ce begins behind i.
CommentEnds(i) ==
  {j \in PlacesOf({"#"}, i, Len(source)) : PreProcessorKind(j) = "PP_CommentsEnd"}

\* The characters between i and j of words that begin with #: these are
\* consumed without the column.
InPreProcessorWords(i, j) ==
  UNION {h .. PreProcessorEnd(h) - 1 : h \in PlacesOf({"#"}, i, j)}

\* Lines and columns over the text of a comment.
AdvanceOverComment(end) ==
  LET lines == PlacesOf({"\n"}, iterator, end)
      from  == IF lines = {} THEN iterator ELSE Max(lines) + 1
      words == InPreProcessorWords(iterator, end) \cap from .. end - 1
  IN  /\ lineNumber' = lineNumber + Cardinality(lines)
      /\ column' = (IF lines = {} THEN column ELSE 1) + (end - from) - Cardinality(words)

\* Slip: the closing word is taken into the comment, but not consumed.
MultiLineCommentTooLong ==
  /\ ~IsFinished /\ insideMultiLineComment /\ Current # NullChar
  /\ CommentEnds(iterator) # {}
  /\ LET end == Min(CommentEnds(iterator))
     IN  /\ stream' = Append(stream, Token("Comment", PreProcessorEnd(end)))
         /\ iterator' = end
         /\ AdvanceOverComment(end)
  /\ insideMultiLineComment' = FALSE
  /\ UNCHANGED <<source, nullCharacters>>

\* The text up to the closing word, which is lexed again on its own.
MultiLineComment ==
  /\ ~IsFinished /\ insideMultiLineComment /\ Current # NullChar
  /\ CommentEnds(iterator) # {}
  /\ LET end == Min(CommentEnds(iterator))
     IN  /\ stream' = Append(stream, Token("Comment", end))
         /\ iterator' = end
         /\ AdvanceOverComment(end)
  /\ insideMultiLineComment' = FALSE
  /\ UNCHANGED <<source, nullCharacters>>

\* The rest of the source goes, without a token or a word.
UnterminatedComment ==
  /\ ~IsFinished /\ insideMultiLineComment /\ Current # NullChar
  /\ CommentEnds(iterator) = {}
  /\ iterator' = Len(source)
  /\ AdvanceOverComment(Len(source))
  /\ UNCHANGED <<source, insideMultiLineComment, stream, nullCharacters>>

\* Slip: the column is not advanced.
SkipWithoutColumn ==
  /\ Upcoming(SkipChar)
  /\ iterator' = iterator + 1
  /\ UNCHANGED <<source, lineNumber, column, insideMultiLineComment, stream,
                 nullCharacters>>

SkipCharacter ==
  /\ Upcoming(SkipChar)
  /\ MoveTo(iterator + 1)
  /\ UNCHANGED <<source, insideMultiLineComment, stream, nullCharacters>>

\* Slip: the columns begin at zero.
NewLineFromZero ==
  /\ Upcoming({"\n"})
  /\ stream' = Append(stream, Token("NewLine", iterator + 1))
  /\ iterator' = iterator + 1
  /\ lineNumber' = lineNumber + 1
  /\ column' = 0
  /\ UNCHANGED <<source, insideMultiLineComment, nullCharacters>>

\* Slip: the line is not counted.
NewLineUncounted ==
  /\ Upcoming({"\n"})
  /\ Emit("NewLine", iterator + 1)
  /\ UNCHANGED <<source, insideMultiLineComment, nullCharacters>>

NewLine ==
  /\ Upcoming({"\n"})
  /\ stream' = Append(stream, Token("NewLine", iterator + 1))
  /\ iterator' = iterator + 1
  /\ lineNumber' = lineNumber + 1
  /\ column' = 1
  /\ UNCHANGED <<source, insideMultiLineComment, nullCharacters>>

Comment ==
  /\ Upcoming({";"})
  /\ LET lineEnds == PlacesOf({"\n"}, iterator, Len(source))
     IN  Emit("Comment", IF lineEnds = {} THEN Len(source) ELSE Min(lineEnds))
  /\ UNCHANGED <<source, insideMultiLineComment, nullCharacters>>

Macro ==
  /\ Upcoming({"@"})
  /\ LET end == EndOfRun(IdentifierChar, iterator + 1)
     IN  Emit(LookupMacro(FoldedText(iterator, end)), end)
  /\ UNCHANGED <<source, insideMultiLineComment, nullCharacters>>

\* Slip: a $ alone is passed over.
VariableOrNothing ==
  /\ Upcoming({"$"})
  /\ LET end == EndOfRun(IdentifierChar, iterator + 1)
     IN  IF end = iterator + 1 THEN MoveTo(end) /\ UNCHANGED stream
                               ELSE Emit("VariableIdentifier", end)
  /\ UNCHANGED <<source, insideMultiLineComment, nullCharacters>>

VariableIdentifier ==
  /\ Upcoming({"$"})
  /\ LET end == EndOfRun(IdentifierChar, iterator + 1)
     IN  Emit(IF end = iterator + 1 THEN "Garbage" ELSE "VariableIdentifier", end)
  /\ UNCHANGED <<source, insideMultiLineComment, nullCharacters>>

\* Slip: a comment that is opened is not noted.
PreProcessorAlone ==
  /\ Upcoming({"#"})
  /\ Emit(PreProcessorKind(iterator), PreProcessorEnd(iterator))
  /\ UNCHANGED <<source, insideMultiLineComment, nullCharacters>>

PreProcessor ==
  /\ Upcoming({"#"})
  /\ Emit(PreProcessorKind(iterator), PreProcessorEnd(iterator))
  /\ insideMultiLineComment' = (PreProcessorKind(iterator) = "PP_CommentsStart")
  /\ UNCHANGED <<source, nullCharacters>>

\* The same quote again, with anything in between, line ends too, which are
\* not counted.
StringLiteral ==
  /\ Upcoming(Quote)
  /\ LET closing == PlacesOf({Current}, iterator + 1, Len(source))
     IN  /\ closing # {}
         /\ Emit("StringLiteral", Min(closing) + 1)
  /\ UNCHANGED <<source, insideMultiLineComment, nullCharacters>>

\* The rest of the source goes, without a token or a word.
UnterminatedString ==
  /\ Upcoming(Quote)
  /\ PlacesOf({Current}, iterator + 1, Len(source)) = {}
  /\ iterator' = Len(source)
  /\ UNCHANGED <<source, lineNumber, column, insideMultiLineComment, stream, nullCharacters>>

\* Is the character at i, if there is one, in S?
IsAt(S, i) == i < Len(source) /\ At(i) \in S

HexLiteral ==
  /\ Upcoming({"0"}) /\ IsAt({"x", "X"}, iterator + 1)
  /\ Emit("IntegerLiteral", EndOfRun(HexDigit, iterator + 2))
  /\ UNCHANGED <<source, insideMultiLineComment, nullCharacters>>

\* A float ends in a digit and is not followed by a second dot.
DecimalLiteral ==
  /\ Upcoming(Digit \cup {"."})
  /\ ~(Current = "0" /\ IsAt({"x", "X"}, iterator + 1))
  /\ LET whole    == EndOfRun(Digit, iterator)
         fraction == EndOfRun(Digit, whole + 1)
     IN  CASE ~IsAt({"."}, whole) -> Emit("IntegerLiteral", whole)
           [] IsAt({"."}, whole) /\ fraction > whole + 1 /\ ~IsAt({"."}, fraction) ->
                Emit("FloatLiteral", fraction)
           [] OTHER -> Emit("Garbage", fraction)
  /\ UNCHANGED <<source, insideMultiLineComment, nullCharacters>>

\* All of these followed by = are operators, and <>.
Operator ==
  /\ Upcoming(TwoPartOperator)
  /\ LET second == IF Current = "<" THEN {"=", ">"} ELSE {"="}
         end    == iterator + (IF IsAt(second, iterator + 1) THEN 2 ELSE 1)
     IN  Emit(LookupOperator(Slice(iterator, end)), end)
  /\ UNCHANGED <<source, insideMultiLineComment, nullCharacters>>

OneCharacterToken ==
  /\ Upcoming(SingleOperator \cup Punctuation)
  /\ Emit(IF Current \in Punctuation THEN LookupPunctuation(Current)
                                     ELSE LookupOperator(<<Current>>), iterator + 1)
  /\ UNCHANGED <<source, insideMultiLineComment, nullCharacters>>

Identifier ==
  /\ Upcoming(IdentifierChar \ Digit)
  /\ LET end == EndOfRun(IdentifierChar, iterator)
     IN  Emit(LookupIdentifier(FoldedText(iterator, end)), end)
  /\ UNCHANGED <<source, insideMultiLineComment, nullCharacters>>

KnownChar ==
  {NullChar, "\n", ";", "@", "$", "#", "."} \cup SkipChar \cup Quote \cup TwoPartOperator
    \cup SingleOperator \cup Punctuation \cup IdentifierChar

\* Slip: nothing is consumed.
UnknownCharacterStays ==
  /\ ~IsFinished /\ ~insideMultiLineComment
  /\ Current \notin KnownChar
  /\ UNCHANGED lexerVars

\* A carriage return, for one.
UnknownCharacter ==
  /\ ~IsFinished /\ ~insideMultiLineComment
  /\ Current \notin KnownChar
  /\ MoveTo(iterator + 1)
  /\ UNCHANGED <<source, insideMultiLineComment, stream, nullCharacters>>

\* There is no branch for a lone dot: the one the code has comes after that of
\* the numbers, which takes it.
GetNextToken ==
  \/ NullCharacter
  \/ MultiLineComment
  \/ UnterminatedComment
  \/ SkipCharacter
  \/ NewLine
  \/ Comment
  \/ Macro
  \/ VariableIdentifier
  \/ PreProcessor
  \/ StringLiteral
  \/ UnterminatedString
  \/ HexLiteral
  \/ DecimalLiteral
  \/ Operator
  \/ OneCharacterToken
  \/ Identifier
  \/ UnknownCharacter

\* The source, from its beginning: Reset and a new stream.
Begin(text) ==
  /\ source' = text
  /\ iterator' = 0
  /\ lineNumber' = 1 /\ column' = 1
  /\ insideMultiLineComment' = FALSE
  /\ stream' = <<>>
  /\ nullCharacters' = 0

\* The members of a lexer, before anything else is known of the source.
Fresh ==
  /\ iterator = 0
  /\ lineNumber = 1 /\ column = 1
  /\ insideMultiLineComment = FALSE
  /\ stream = <<>>
  /\ nullCharacters = 0

LexerInit == source \in Source /\ Fresh

LexerSpec == LexerInit /\ [][GetNextToken]_lexerVars /\ WF_lexerVars(GetNextToken)

-----------------------------------------------------------------------------
(* Types.                                                                  *)

TokenKind ==
  {"NotAToken", "Garbage", "NewLine", "Comment", "Macro", "BuiltIn", "VariableIdentifier",
   "FunctionIdentifier", "StringLiteral", "IntegerLiteral", "FloatLiteral"}
  \cup {KeyWord[word] : word \in DOMAIN KeyWord}
  \cup {LookupPreProcessor(word) : word \in
          {"#cs", "#ce", "#include", "#include-once", "#notrayicon",
           "#onautoitstartregister", "#pragma", "#requireadmin"}}
  \cup {LookupOperator(text) : text \in
          {<<c>> : c \in TwoPartOperator \cup SingleOperator}
            \cup {<<c, "=">> : c \in TwoPartOperator} \cup {<<"<", ">">>}}
  \cup {LookupPunctuation(c) : c \in Punctuation}

LexerTypeOK ==
  /\ source \in Seq(Character)
  /\ iterator \in Offset
  /\ lineNumber \in Nat \ {0} /\ column \in Nat \ {0}
  /\ insideMultiLineComment \in BOOLEAN
  /\ stream \in Seq([kind: TokenKind, begin: Offset, end: Offset,
                     line: Nat \ {0}, column: Nat \ {0}])
  /\ nullCharacters \in Nat

-----------------------------------------------------------------------------
(* Safety.                                                                 *)

\* The tokens stand in the stream as they stand in the source: each ends where
\* the next begins or before, and none reaches beyond the place the lexer is
\* at, whatever closing word of a comment it went back to.
TokensInOrder ==
  /\ \A n \in DOMAIN stream : stream[n].begin <= stream[n].end /\ stream[n].end <= iterator
  /\ \A m, n \in DOMAIN stream : m < n => stream[m].end <= stream[n].begin

InTokens == UNION {stream[n].begin .. stream[n].end - 1 : n \in DOMAIN stream}

\* Nothing from i to the end is in a token: a string or a comment is left open.
LeftOpen(i) ==
  /\ i .. Len(source) - 1 \cap InTokens = {}
  /\ \/ At(i) \in Quote /\ PlacesOf({At(i)}, i + 1, Len(source)) = {}
     \/ /\ stream # <<>> /\ Last(stream).kind = "PP_CommentsStart"
        /\ i >= Last(stream).end /\ CommentEnds(i) = {}

\* Behind the lexer every character is part of a token, is one that says nothing
\* (a blank, a null or an unknown character), or is swallowed by a string or a
\* comment that has no end, in which case the source is over.
NothingIsLost ==
  \A k \in 0 .. iterator - 1 :
    \/ k \in InTokens
    \/ At(k) \in SkipChar \cup {NullChar} \/ At(k) \notin KnownChar
    \/ IsFinished /\ \E i \in 0 .. k : LeftOpen(i)

\* Do all the characters between two offsets belong to S?
AllIn(S, i, j) == \A k \in i .. j - 1 : At(k) \in S

\* What the text between two offsets may be.
Forms(i, j) ==
  {form \in {"name", "directive", "macro", "variable", "integer", "float", "string", "operator"} :
     CASE form = "name" -> At(i) \in IdentifierChar \ Digit /\ AllIn(IdentifierChar, i, j)
       [] form = "directive" -> At(i) = "#" /\ AllIn(PPChar, i + 1, j)
       [] form = "macro"     -> At(i) = "@" /\ AllIn(IdentifierChar, i + 1, j)
       [] form = "variable"  -> At(i) = "$" /\ i + 1 < j /\ AllIn(IdentifierChar, i + 1, j)
       [] form = "integer"   ->
            \/ AllIn(Digit, i, j)
            \/ i + 1 < j /\ At(i) = "0" /\ At(i + 1) \in {"x", "X"} /\ AllIn(HexDigit, i + 2, j)
       [] form = "float" ->
            \E k \in i .. j - 2 : At(k) = "." /\ AllIn(Digit, i, k) /\ AllIn(Digit, k + 1, j)
       [] form = "string" ->
            /\ i + 1 < j /\ At(i) \in Quote /\ At(j - 1) = At(i)
            /\ At(i) \notin {At(k) : k \in i + 1 .. j - 2}
       [] form = "operator" -> LookupOperator(Slice(i, j)) # "NotAToken"}

FormOf(kind, i) ==
  CASE kind = "VariableIdentifier" -> "variable"
    [] kind = "IntegerLiteral" -> "integer"
    [] kind = "FloatLiteral"   -> "float"
    [] kind = "StringLiteral"  -> "string"
    [] kind = "Macro" \/ (kind = "NotAToken" /\ At(i) = "@") -> "macro"
    [] At(i) = "#" -> "directive"
    [] At(i) \in TwoPartOperator \cup SingleOperator -> "operator"
    [] OTHER -> "name"

\* The token emitted last.  Every token is that once.
Newest == {Len(stream)} \ {0}

\* A token is what its kind says, and as long as it can be: nothing longer that
\* begins where it does is a name, a literal, a directive, a macro, a variable
\* or an operator.
LongestTokens ==
  \A n \in Newest :
    LET t == stream[n]
    IN  t.kind \notin {"Garbage", "Comment", "NewLine"} /\ At(t.begin) \notin Punctuation =>
          /\ FormOf(t.kind, t.begin) \in Forms(t.begin, t.end)
          /\ \A j \in t.end + 1 .. Len(source) : Forms(t.begin, j) = {}

LineEnds(i, j)  == PlacesOf({"\n"}, i, j)
StringLineEnds(n) ==
  UNION {LineEnds(stream[m].begin, stream[m].end) :
           m \in {m \in 1 .. n - 1 : stream[m].kind = "StringLiteral"}}

\* The line of a token is that of its first character, less the line ends in the
\* strings before it.
LinesLagByStrings ==
  \A n \in Newest :
    stream[n].line = 1 + Cardinality(LineEnds(0, stream[n].begin) \ StringLineEnds(n))

\* The column of a token is that of its first character on a line that begins
\* outside a string and holds no # of a comment.
ColumnsTell ==
  \A n \in Newest :
    LET ends  == LineEnds(0, stream[n].begin)
        from  == IF ends = {} THEN 0 ELSE Max(ends) + 1
        inComments == UNION {stream[m].begin .. stream[m].end - 1 :
                               m \in {m \in 1 .. n - 1 : stream[m].kind = "Comment"}}
    IN  /\ from - 1 \notin StringLineEnds(n)
        /\ PlacesOf({"#"}, from, stream[n].begin) \cap inComments = {}
        => stream[n].column = 1 + stream[n].begin - from

\* A comment between directives is one token: behind the opening directive comes
\* at most the comment, and behind it the closing directive.
CommentsBracketed ==
  \A n \in DOMAIN stream :
    stream[n].kind = "PP_CommentsStart" =>
      /\ n + 1 \in DOMAIN stream => stream[n + 1].kind = "Comment"
      /\ n + 2 \in DOMAIN stream => stream[n + 2].kind = "PP_CommentsEnd"
                                    /\ stream[n + 2].begin = stream[n + 1].end
=============================================================================
