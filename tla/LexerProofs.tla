---------------------------- MODULE LexerProofs ----------------------------
(***************************************************************************)
(* The lexer keeps its types, its tokens stand in the order of the source, *)
(* tell their lines and columns and are as long as they can be, and no     *)
(* character is lost, for all sources.                                     *)
(***************************************************************************)
EXTENDS Lexer, Lemmas

-----------------------------------------------------------------------------
(* Offsets.                                                                *)

LEMMA SourceLength ==
  ASSUME LexerTypeOK
  PROVE  /\ Len(source) \in Nat /\ iterator \in 0 .. Len(source)
         /\ ~IsFinished => iterator + 1 \in 0 .. Len(source)
BY DEF LexerTypeOK, Offset, IsFinished

\* A run of characters ends at or behind its beginning, in the source.
LEMMA EndOfRunType ==
  ASSUME LexerTypeOK, NEW S, NEW i \in Nat, i <= Len(source)
  PROVE  EndOfRun(S, i) \in i .. Len(source)
<1> DEFINE ends == {j \in i .. Len(source) : j < Len(source) => At(j) \notin S}
<1>1. Len(source) \in Nat
  BY SourceLength
<1>2. ends \in SUBSET Nat /\ Len(source) \in ends
  BY <1>1
<1>3. EndOfRun(S, i) = Min(ends)
  BY DEF EndOfRun
<1>4. Min(ends) \in ends
  <2> HIDE DEF ends
  <2> QED BY <1>2, MinLeast
<1> QED BY <1>3, <1>4

LEMMA PlacesOfType ==
  ASSUME LexerTypeOK, NEW S, NEW i \in Nat, NEW j \in Nat
  PROVE  PlacesOf(S, i, j) \in SUBSET (i .. j - 1)
BY DEF PlacesOf

\* The first place of a set that is not empty.
LEMMA FirstPlace ==
  ASSUME LexerTypeOK, NEW i \in Nat, NEW places \in SUBSET (i .. Len(source) - 1), places # {}
  PROVE  Min(places) \in places /\ Min(places) \in i .. Len(source) - 1
<1>1. places \in SUBSET Nat
  BY SourceLength
<1> QED BY <1>1, MinLeast

-----------------------------------------------------------------------------
(* Kinds.                                                                  *)

\* All kinds but that of the directive that opens a comment.
PlainKind == TokenKind \ {"PP_CommentsStart"}

LEMMA IdentifierKind ==
  ASSUME NEW word
  PROVE  LookupIdentifier(word) \in PlainKind
<1>1. word \in DOMAIN KeyWord => KeyWord[word] \in TokenKind
  BY DEF TokenKind
<1>2. word \in DOMAIN KeyWord => KeyWord[word] # "PP_CommentsStart"
  BY DEF KeyWord
<1>3. {"BuiltIn", "FunctionIdentifier"} \subseteq PlainKind
  BY DEF TokenKind, PlainKind
<1> QED BY <1>1, <1>2, <1>3 DEF LookupIdentifier, PlainKind

LEMMA MacroKind ==
  ASSUME NEW word
  PROVE  LookupMacro(word) \in PlainKind
BY DEF LookupMacro, TokenKind, PlainKind

LEMMA PreProcessorKindType ==
  ASSUME NEW word
  PROVE  LookupPreProcessor(word) \in TokenKind
<1> DEFINE words == {"#cs", "#ce", "#include", "#include-once", "#notrayicon",
                     "#onautoitstartregister", "#pragma", "#requireadmin"}
<1>1. \/ LookupPreProcessor(word) = "NotAToken"
      \/ \E w \in words : LookupPreProcessor(word) = LookupPreProcessor(w)
  BY DEF LookupPreProcessor
<1> QED BY <1>1 DEF TokenKind

LEMMA OperatorKind ==
  ASSUME NEW text
  PROVE  LookupOperator(text) \in PlainKind
<1> DEFINE texts == {<<c>> : c \in TwoPartOperator \cup SingleOperator}
                      \cup {<<c, "=">> : c \in TwoPartOperator} \cup {<<"<", ">">>}
<1>1. text \notin texts => LookupOperator(text) = "NotAToken"
  BY DEF LookupOperator, TwoPartOperator, SingleOperator
<1>2. "NotAToken" \in PlainKind /\ \A t \in texts : LookupOperator(t) \in TokenKind
  BY DEF TokenKind, PlainKind
<1>3. LookupOperator(text) # "PP_CommentsStart"
  BY DEF LookupOperator
<1> QED BY <1>1, <1>2, <1>3 DEF PlainKind

LEMMA PunctuationKind ==
  ASSUME NEW c \in Punctuation
  PROVE  LookupPunctuation(c) \in PlainKind
<1>1. LookupPunctuation(c) \in TokenKind
  BY DEF TokenKind
<1>2. LookupPunctuation(c) # "PP_CommentsStart"
  BY DEF LookupPunctuation, Punctuation
<1> QED BY <1>1, <1>2 DEF PlainKind

LEMMA PlainKinds ==
  {"Garbage", "NewLine", "Comment", "VariableIdentifier", "StringLiteral",
   "IntegerLiteral", "FloatLiteral"} \subseteq PlainKind
BY DEF TokenKind, PlainKind

-----------------------------------------------------------------------------
(* The forms a turn of the loop can take.                                  *)

Tokens == [kind: TokenKind, begin: Offset, end: Offset, line: Nat \ {0}, column: Nat \ {0}]

Silent(c) == c \in SkipChar \cup {NullChar} \/ c \notin KnownChar

\* What every turn keeps.
Counts ==
  /\ ~IsFinished
  /\ source' = source
  /\ lineNumber' \in Nat \ {0} /\ column' \in Nat \ {0} /\ nullCharacters' \in Nat

\* A character is passed over.
Passes ==
  /\ Counts
  /\ Silent(Current)
  /\ iterator' = iterator + 1
  /\ UNCHANGED <<stream, insideMultiLineComment>>

\* A token ends where the lexer goes on.
Takes(kind, end) ==
  /\ Counts
  /\ kind \in TokenKind /\ end \in iterator .. Len(source)
  /\ stream' = Append(stream, Token(kind, end))
  /\ iterator' = end

TakesPlain ==
  /\ ~insideMultiLineComment /\ Current # "#"
  /\ \E kind \in PlainKind, end \in iterator + 1 .. Len(source) :
       Takes(kind, end)
  /\ UNCHANGED insideMultiLineComment

TakesDirective ==
  /\ ~insideMultiLineComment /\ Current = "#"
  /\ Takes(PreProcessorKind(iterator), PreProcessorEnd(iterator))
  /\ PreProcessorEnd(iterator) > iterator
  /\ insideMultiLineComment' = (PreProcessorKind(iterator) = "PP_CommentsStart")

TakesComment ==
  /\ insideMultiLineComment
  /\ \E end \in CommentEnds(iterator) : Takes("Comment", end)
  /\ insideMultiLineComment' = FALSE

\* The rest of the source goes.
Swallows ==
  /\ Counts
  /\ \/ insideMultiLineComment /\ CommentEnds(iterator) = {}
     \/ /\ ~insideMultiLineComment /\ Current \in Quote
        /\ PlacesOf({Current}, iterator + 1, Len(source)) = {}
  /\ iterator' = Len(source)
  /\ UNCHANGED <<stream, insideMultiLineComment>>

LEMMA MoveToType ==
  ASSUME LexerTypeOK, NEW end \in iterator .. Len(source), MoveTo(end)
  PROVE  iterator' = end /\ lineNumber' \in Nat \ {0} /\ column' \in Nat \ {0}
BY SourceLength DEF LexerTypeOK, MoveTo

\* The lines and the column behind the text of a comment.
LEMMA AdvanceOverCommentType ==
  ASSUME LexerTypeOK, NEW end \in iterator .. Len(source), AdvanceOverComment(end)
  PROVE  lineNumber' \in Nat \ {0} /\ column' \in Nat \ {0}
<1> DEFINE lines == PlacesOf({"\n"}, iterator, end)
           from  == IF lines = {} THEN iterator ELSE Max(lines) + 1
           words == InPreProcessorWords(iterator, end) \cap from .. end - 1
<1>1. /\ Len(source) \in Nat /\ iterator \in Nat /\ end \in Nat
      /\ lineNumber \in Nat \ {0} /\ column \in Nat \ {0}
  BY SourceLength DEF LexerTypeOK
<1>2. lines \in SUBSET (iterator .. end - 1)
  BY <1>1, PlacesOfType
<1>3. IsFiniteSet(lines) /\ Cardinality(lines) \in Nat
  <2>1. IsFiniteSet(iterator .. end - 1)
    BY <1>1, FS_Interval
  <2> QED BY <1>2, <2>1, FS_Subset, FS_CardinalityType
<1>4. from \in iterator .. end
  <2>1. CASE lines = {}
    BY <1>1, <2>1
  <2>2. CASE lines # {}
    <3>1. lines \in SUBSET (0 .. end)
      BY <1>1, <1>2
    <3>2. Max(lines) \in lines
      <4> HIDE DEF lines
      <4> QED BY <1>1, <2>2, <3>1, MaxGreatest
    <3> QED BY <1>1, <1>2, <2>2, <3>2
  <2> QED BY <2>1, <2>2
<1>5. Cardinality(words) \in Nat /\ Cardinality(words) <= end - from
  <2> HIDE DEF from
  <2>1. from \in Nat /\ from <= end
    BY <1>1, <1>4
  <2>2. /\ IsFiniteSet(from .. end - 1)
        /\ Cardinality(from .. end - 1) = IF from > end - 1 THEN 0 ELSE end - 1 - from + 1
    <3>1. \A i, j \in Int : /\ IsFiniteSet(i .. j)
                            /\ Cardinality(i .. j) = IF i > j THEN 0 ELSE j - i + 1
      BY FS_Interval
    <3>2. from \in Int /\ end - 1 \in Int
      BY <1>1, <2>1
    <3> QED BY <3>1, <3>2
  <2>3. IsFiniteSet(words) /\ Cardinality(words) <= Cardinality(from .. end - 1)
    <3>1. words \subseteq from .. end - 1
      OBVIOUS
    <3> HIDE DEF words
    <3> QED BY <2>2, <3>1, FS_Subset
  <2>4. Cardinality(words) \in Nat
    BY <2>3, FS_CardinalityType
  <2> HIDE DEF words
  <2> QED BY <1>1, <2>1, <2>2, <2>3, <2>4
<1>6. /\ lineNumber' = lineNumber + Cardinality(lines)
      /\ column' = (IF lines = {} THEN column ELSE 1) + (end - from) - Cardinality(words)
  BY DEF AdvanceOverComment
<1> HIDE DEF lines, from, words
<1> QED BY <1>1, <1>3, <1>4, <1>5, <1>6

LEMMA PassesOver ==
  ASSUME LexerTypeOK, ~IsFinished, Silent(Current), MoveTo(iterator + 1),
         UNCHANGED <<source, insideMultiLineComment, stream>>, nullCharacters' \in Nat
  PROVE  Passes
<1>1. iterator + 1 \in iterator .. Len(source)
  BY SourceLength
<1> QED BY <1>1, MoveToType DEF Passes, Counts

LEMMA EmitTakes ==
  ASSUME LexerTypeOK, ~IsFinished, UNCHANGED <<source, nullCharacters>>,
         NEW kind \in TokenKind, NEW end \in iterator .. Len(source), Emit(kind, end)
  PROVE  Takes(kind, end)
<1>1. nullCharacters' \in Nat
  BY DEF LexerTypeOK
<1> QED BY <1>1, MoveToType DEF Emit, Takes, Counts

LEMMA EmitTakesPlain ==
  ASSUME LexerTypeOK, NEW S, Upcoming(S), "#" \notin S,
         UNCHANGED <<source, insideMultiLineComment, nullCharacters>>,
         NEW kind \in PlainKind, NEW end \in iterator + 1 .. Len(source),
         Emit(kind, end)
  PROVE  TakesPlain
<1>1. ~IsFinished /\ ~insideMultiLineComment /\ Current # "#"
  BY DEF Upcoming
<1>2. Takes(kind, end)
  <2>1. kind \in TokenKind /\ UNCHANGED <<source, nullCharacters>>
    BY DEF PlainKind
  <2>2. end \in iterator .. Len(source)
    BY SourceLength
  <2> QED BY <1>1, <2>1, <2>2, EmitTakes
<1> QED BY <1>1, <1>2 DEF TakesPlain

-----------------------------------------------------------------------------
(* Every branch of GetNextToken takes one of the forms.                    *)

LEMMA PassingBranches ==
  ASSUME LexerTypeOK, NullCharacter \/ SkipCharacter \/ UnknownCharacter
  PROVE  Passes
<1>1. nullCharacters \in Nat
  BY DEF LexerTypeOK
<1>2. CASE NullCharacter
  BY <1>1, <1>2, PassesOver DEF NullCharacter, Silent
<1>3. CASE SkipCharacter
  BY <1>1, <1>3, PassesOver DEF SkipCharacter, Upcoming, Silent
<1>4. CASE UnknownCharacter
  BY <1>1, <1>4, PassesOver DEF UnknownCharacter, Silent
<1> QED BY <1>2, <1>3, <1>4

LEMMA SwallowingBranches ==
  ASSUME LexerTypeOK, UnterminatedComment \/ UnterminatedString
  PROVE  Swallows
<1>1. /\ Len(source) \in iterator .. Len(source)
      /\ lineNumber \in Nat \ {0} /\ column \in Nat \ {0} /\ nullCharacters \in Nat
  BY SourceLength DEF LexerTypeOK
<1>2. CASE UnterminatedComment
  BY <1>1, <1>2, AdvanceOverCommentType DEF UnterminatedComment, Swallows, Counts
<1>3. CASE UnterminatedString
  BY <1>1, <1>3 DEF UnterminatedString, Upcoming, Swallows, Counts
<1> QED BY <1>2, <1>3

LEMMA CommentBranch ==
  ASSUME LexerTypeOK, MultiLineComment
  PROVE  TakesComment
<1> DEFINE end == Min(CommentEnds(iterator))
<1>1. CommentEnds(iterator) \in SUBSET (iterator .. Len(source) - 1)
  BY SourceLength, PlacesOfType DEF CommentEnds
<1>2. end \in CommentEnds(iterator) /\ end \in iterator .. Len(source)
  <2>1. CommentEnds(iterator) # {} /\ iterator \in Nat
    BY SourceLength DEF MultiLineComment
  <2>2. end \in CommentEnds(iterator) /\ end \in iterator .. Len(source) - 1
    BY <1>1, <2>1, FirstPlace
  <2> HIDE DEF end
  <2> QED BY <2>1, <2>2, SourceLength
<1>3. /\ ~IsFinished /\ insideMultiLineComment
      /\ stream' = Append(stream, Token("Comment", end)) /\ iterator' = end
      /\ AdvanceOverComment(end)
      /\ insideMultiLineComment' = FALSE /\ UNCHANGED <<source, nullCharacters>>
  BY DEF MultiLineComment
<1> HIDE DEF end
<1>4. "Comment" \in TokenKind /\ nullCharacters' \in Nat
  BY <1>3, PlainKinds DEF PlainKind, LexerTypeOK
<1>5. Takes("Comment", end)
  BY <1>2, <1>3, <1>4, AdvanceOverCommentType DEF Takes, Counts
<1> QED BY <1>2, <1>3, <1>5 DEF TakesComment

LEMMA DirectiveBranch ==
  ASSUME LexerTypeOK, PreProcessor
  PROVE  TakesDirective
<1>1. ~IsFinished /\ ~insideMultiLineComment /\ Current = "#"
  BY DEF PreProcessor, Upcoming
<1>2. PreProcessorKind(iterator) \in TokenKind
  BY PreProcessorKindType DEF PreProcessorKind
<1>3. PreProcessorEnd(iterator) \in iterator .. Len(source) /\ PreProcessorEnd(iterator) > iterator
  <2>1. iterator + 1 \in Nat /\ iterator + 1 <= Len(source)
    BY <1>1, SourceLength
  <2>2. PreProcessorEnd(iterator) \in iterator + 1 .. Len(source)
    BY <2>1, EndOfRunType DEF PreProcessorEnd
  <2> QED BY <2>1, <2>2, SourceLength
<1>4. Takes(PreProcessorKind(iterator), PreProcessorEnd(iterator))
  BY <1>1, <1>2, <1>3, EmitTakes DEF PreProcessor
<1> QED BY <1>1, <1>3, <1>4 DEF PreProcessor, TakesDirective

LEMMA NewLineBranch ==
  ASSUME LexerTypeOK, NewLine
  PROVE  TakesPlain
<1>1. iterator + 1 \in iterator .. Len(source)
  BY SourceLength DEF NewLine, Upcoming
<1>2. "NewLine" \in PlainKind /\ "NewLine" \in TokenKind
  BY PlainKinds DEF PlainKind
<1>3. Takes("NewLine", iterator + 1)
  BY <1>1, <1>2 DEF NewLine, Upcoming, Takes, Counts, LexerTypeOK
<1>4. iterator + 1 \in iterator + 1 .. Len(source)
  BY <1>1, SourceLength
<1> QED BY <1>2, <1>3, <1>4 DEF NewLine, Upcoming, TakesPlain

LEMMA LineCommentBranch ==
  ASSUME LexerTypeOK, Comment
  PROVE  TakesPlain
<1> DEFINE lineEnds == PlacesOf({"\n"}, iterator, Len(source))
           end      == IF lineEnds = {} THEN Len(source) ELSE Min(lineEnds)
<1>1. lineEnds \in SUBSET (iterator .. Len(source) - 1)
  BY SourceLength, PlacesOfType
<1>2. end \in iterator + 1 .. Len(source)
  <2>1. ~IsFinished /\ iterator \notin lineEnds
    BY DEF Comment, Upcoming, PlacesOf, Current
  <2>2. lineEnds # {} => Min(lineEnds) \in lineEnds
    BY <1>1, SourceLength, FirstPlace
  <2> HIDE DEF lineEnds
  <2>3. lineEnds # {} => Min(lineEnds) \in iterator .. Len(source) - 1 /\ Min(lineEnds) # iterator
    BY <1>1, <2>1, <2>2
  <2> QED BY <2>1, <2>3, SourceLength
<1>3. "Comment" \in PlainKind /\ "#" \notin {";"}
  BY PlainKinds
<1> QED BY <1>2, <1>3, EmitTakesPlain DEF Comment

\* A run of characters behind the one that is next.
LEMMA RunBehind ==
  ASSUME LexerTypeOK, ~IsFinished, NEW S
  PROVE  EndOfRun(S, iterator + 1) \in iterator + 1 .. Len(source)
<1>1. iterator + 1 \in Nat /\ iterator + 1 <= Len(source)
  BY SourceLength
<1> QED BY <1>1, EndOfRunType

\* A run of characters the next one belongs to.
LEMMA RunFrom ==
  ASSUME LexerTypeOK, ~IsFinished, NEW S, Current \in S
  PROVE  EndOfRun(S, iterator) \in iterator + 1 .. Len(source)
<1> DEFINE ends == {j \in iterator .. Len(source) : j < Len(source) => At(j) \notin S}
<1>1. Len(source) \in Nat /\ iterator \in Nat /\ iterator < Len(source)
  BY SourceLength DEF IsFinished
<1>2. ends \in SUBSET Nat /\ Len(source) \in ends /\ iterator \notin ends
  BY <1>1 DEF Current
<1>3. Min(ends) \in ends
  <2> HIDE DEF ends
  <2> QED BY <1>2, MinLeast
<1>4. Min(ends) \in iterator .. Len(source) /\ Min(ends) # iterator
  <2>1. ends \subseteq iterator .. Len(source)
    OBVIOUS
  <2> HIDE DEF ends
  <2> QED BY <1>2, <1>3, <2>1
<1>5. EndOfRun(S, iterator) = Min(ends)
  BY DEF EndOfRun
<1> HIDE DEF ends
<1> QED BY <1>1, <1>4, <1>5

LEMMA MacroBranch ==
  ASSUME LexerTypeOK, Macro
  PROVE  TakesPlain
<1> DEFINE end == EndOfRun(IdentifierChar, iterator + 1)
<1>1. ~IsFinished /\ "#" \notin {"@"}
  BY DEF Macro, Upcoming
<1>2. end \in iterator + 1 .. Len(source)
  BY <1>1, RunBehind
<1>3. LookupMacro(FoldedText(iterator, end)) \in PlainKind
  BY MacroKind
<1> QED BY <1>1, <1>2, <1>3, EmitTakesPlain DEF Macro

LEMMA VariableBranch ==
  ASSUME LexerTypeOK, VariableIdentifier
  PROVE  TakesPlain
<1> DEFINE end  == EndOfRun(IdentifierChar, iterator + 1)
           kind == IF end = iterator + 1 THEN "Garbage" ELSE "VariableIdentifier"
<1>1. ~IsFinished /\ "#" \notin {"$"}
  BY DEF VariableIdentifier, Upcoming
<1>2. end \in iterator + 1 .. Len(source)
  BY <1>1, RunBehind
<1>3. kind \in PlainKind
  BY PlainKinds
<1> QED BY <1>1, <1>2, <1>3, EmitTakesPlain DEF VariableIdentifier

LEMMA StringBranch ==
  ASSUME LexerTypeOK, StringLiteral
  PROVE  TakesPlain
<1> DEFINE closing == PlacesOf({Current}, iterator + 1, Len(source))
           end     == Min(closing) + 1
<1>1. ~IsFinished /\ closing # {} /\ "#" \notin Quote
  BY DEF StringLiteral, Upcoming, Quote
<1>2. closing \in SUBSET (iterator + 1 .. Len(source) - 1)
  BY <1>1, SourceLength, PlacesOfType
<1>3. Min(closing) \in iterator + 1 .. Len(source) - 1
  <2>1. iterator + 1 \in Nat
    BY SourceLength
  <2> HIDE DEF closing
  <2> QED BY <1>1, <1>2, <2>1, FirstPlace
<1>4. end \in iterator + 1 .. Len(source)
  BY <1>3, SourceLength
<1>5. "StringLiteral" \in PlainKind
  BY PlainKinds
<1> QED BY <1>1, <1>4, <1>5, EmitTakesPlain DEF StringLiteral

LEMMA HexBranch ==
  ASSUME LexerTypeOK, HexLiteral
  PROVE  TakesPlain
<1> DEFINE end == EndOfRun(HexDigit, iterator + 2)
<1>1. ~IsFinished /\ "#" \notin {"0"} /\ iterator + 1 < Len(source)
  BY DEF HexLiteral, Upcoming, IsAt
<1>2. end \in iterator + 1 .. Len(source)
  <2>1. iterator + 2 \in Nat /\ iterator + 2 <= Len(source)
    BY <1>1, SourceLength
  <2>2. end \in iterator + 2 .. Len(source)
    BY <2>1, EndOfRunType
  <2> HIDE DEF end
  <2> QED BY <2>1, <2>2, SourceLength
<1>3. "IntegerLiteral" \in PlainKind
  BY PlainKinds
<1> QED BY <1>1, <1>2, <1>3, EmitTakesPlain DEF HexLiteral

LEMMA DecimalBranch ==
  ASSUME LexerTypeOK, DecimalLiteral
  PROVE  TakesPlain
<1> DEFINE whole    == EndOfRun(Digit, iterator)
           fraction == EndOfRun(Digit, whole + 1)
<1>1. Upcoming(Digit \cup {"."}) /\ ~IsFinished /\ "#" \notin Digit \cup {"."}
  BY DEF DecimalLiteral, Upcoming, Digit
<1>2. whole \in iterator .. Len(source) /\ (~IsAt({"."}, whole) => whole \in iterator + 1 .. Len(source))
  <2>1. whole \in iterator .. Len(source)
    BY SourceLength, EndOfRunType
  <2>2. CASE Current \in Digit
    BY <1>1, <2>1, <2>2, RunFrom
  <2>3. CASE Current = "."
    <3>1. ~IsAt({"."}, whole) => whole # iterator
      BY <1>1, <2>3, SourceLength DEF IsAt, Current, IsFinished
    <3> HIDE DEF whole
    <3> QED BY <2>1, <3>1, SourceLength
  <2> QED BY <1>1, <2>2, <2>3, <2>1 DEF Upcoming
<1>3. IsAt({"."}, whole) => fraction \in iterator + 1 .. Len(source)
  <2> SUFFICES ASSUME whole < Len(source) PROVE fraction \in iterator + 1 .. Len(source)
    BY DEF IsAt
  <2> HIDE DEF whole
  <2>1. whole + 1 \in Nat /\ whole + 1 <= Len(source)
    BY <1>2, SourceLength
  <2>2. fraction \in whole + 1 .. Len(source)
    BY <2>1, EndOfRunType
  <2> HIDE DEF fraction
  <2> QED BY <1>2, <2>1, <2>2, SourceLength
<1>4. {"IntegerLiteral", "FloatLiteral", "Garbage"} \subseteq PlainKind
  BY PlainKinds
<1>5. UNCHANGED <<source, insideMultiLineComment, nullCharacters>>
  BY DEF DecimalLiteral
<1>6. \/ ~IsAt({"."}, whole) /\ Emit("IntegerLiteral", whole)
      \/ /\ IsAt({"."}, whole)
         /\ Emit("FloatLiteral", fraction) \/ Emit("Garbage", fraction)
  BY DEF DecimalLiteral
<1> HIDE DEF whole, fraction
<1> QED BY <1>1, <1>2, <1>3, <1>4, <1>5, <1>6, EmitTakesPlain

LEMMA OperatorBranch ==
  ASSUME LexerTypeOK, Operator
  PROVE  TakesPlain
<1> DEFINE second == IF Current = "<" THEN {"=", ">"} ELSE {"="}
           end    == iterator + (IF IsAt(second, iterator + 1) THEN 2 ELSE 1)
<1>1. Upcoming(TwoPartOperator) /\ ~IsFinished /\ "#" \notin TwoPartOperator
  BY DEF Operator, Upcoming, TwoPartOperator
<1>2. end \in iterator + 1 .. Len(source)
  <2>1. IsAt(second, iterator + 1) => iterator + 1 < Len(source)
    BY DEF IsAt
  <2> HIDE DEF second
  <2> QED BY <1>1, <2>1, SourceLength
<1>3. LookupOperator(Slice(iterator, end)) \in PlainKind
  BY OperatorKind
<1> QED BY <1>1, <1>2, <1>3, EmitTakesPlain DEF Operator

LEMMA OneCharacterBranch ==
  ASSUME LexerTypeOK, OneCharacterToken
  PROVE  TakesPlain
<1> DEFINE S    == SingleOperator \cup Punctuation
           kind == IF Current \in Punctuation THEN LookupPunctuation(Current)
                                              ELSE LookupOperator(<<Current>>)
<1>1. Upcoming(S) /\ ~IsFinished /\ "#" \notin S
  BY DEF OneCharacterToken, Upcoming, SingleOperator, Punctuation
<1>2. iterator + 1 \in iterator + 1 .. Len(source)
  BY <1>1, SourceLength
<1>3. kind \in PlainKind
  BY OperatorKind, PunctuationKind
<1> QED BY <1>1, <1>2, <1>3, EmitTakesPlain DEF OneCharacterToken

LEMMA NotAlphaNumeric == "#" \notin IdentifierChar
<1>1. \A i \in 1 .. 26 : LowerLetters[i] # "#" /\ UpperLetters[i] # "#"
  BY DEF LowerLetters, UpperLetters
<1>2. DOMAIN LowerLetters = 1 .. 26 /\ DOMAIN UpperLetters = 1 .. 26
  BY DEF LowerLetters, UpperLetters
<1> QED BY <1>1, <1>2 DEF IdentifierChar, AlphaNumeric, Digit, ToSet

LEMMA IdentifierBranch ==
  ASSUME LexerTypeOK, Identifier
  PROVE  TakesPlain
<1> DEFINE end == EndOfRun(IdentifierChar, iterator)
<1>1. end \in iterator + 1 .. Len(source)
  BY RunFrom DEF Identifier, Upcoming
<1>2. LookupIdentifier(FoldedText(iterator, end)) \in PlainKind
  BY IdentifierKind
<1>3. "#" \notin IdentifierChar \ Digit
  BY NotAlphaNumeric
<1> QED BY <1>1, <1>2, <1>3, EmitTakesPlain DEF Identifier

LEMMA FormOfTurn ==
  ASSUME LexerTypeOK, GetNextToken
  PROVE  Passes \/ TakesPlain \/ TakesDirective \/ TakesComment \/ Swallows
BY PassingBranches, SwallowingBranches, CommentBranch, DirectiveBranch, NewLineBranch,
   LineCommentBranch, MacroBranch, VariableBranch, StringBranch, HexBranch, DecimalBranch,
   OperatorBranch, OneCharacterBranch, IdentifierBranch DEF GetNextToken

-----------------------------------------------------------------------------
(* Types and order.                                                        *)

LEMMA TokenType ==
  ASSUME LexerTypeOK, NEW kind \in TokenKind, NEW end \in iterator .. Len(source)
  PROVE  /\ Token(kind, end) \in Tokens
         /\ Token(kind, end).begin = iterator /\ Token(kind, end).end = end
         /\ Token(kind, end).kind = kind
BY SourceLength DEF LexerTypeOK, Token, Tokens, Offset

LEMMA Offsets ==
  ASSUME LexerTypeOK
  PROVE  /\ stream \in Seq(Tokens) /\ Len(stream) \in Nat
         /\ DOMAIN stream = 1 .. Len(stream)
         /\ \A n \in DOMAIN stream : stream[n].begin \in Nat /\ stream[n].end \in Nat
<1>1. stream \in Seq(Tokens) /\ Offset \subseteq Nat
  BY SourceLength DEF LexerTypeOK, Tokens, Offset
<1>2. Len(stream) \in Nat /\ DOMAIN stream = 1 .. Len(stream)
  BY <1>1
<1>3. \A n \in DOMAIN stream : stream[n] \in Tokens
  BY <1>1
<1>4. \A t \in Tokens : t.begin \in Offset /\ t.end \in Offset
  BY DEF Tokens
<1> QED BY <1>1, <1>2, <1>3, <1>4

\* The stream behind a token that is taken.
LEMMA Taken ==
  ASSUME LexerTypeOK, NEW kind, NEW end, Takes(kind, end)
  PROVE  /\ end \in iterator .. Len(source)
         /\ stream' \in Seq(Tokens)
         /\ Len(stream') = Len(stream) + 1
         /\ DOMAIN stream' = 1 .. Len(stream) + 1
         /\ \A n \in 1 .. Len(stream) : stream'[n] = stream[n]
         /\ stream'[Len(stream) + 1].begin = iterator
         /\ stream'[Len(stream) + 1].end = end
         /\ stream'[Len(stream) + 1].kind = kind
<1> DEFINE t == Token(kind, end)
<1>1. /\ t \in Tokens /\ t.begin = iterator /\ t.end = end /\ t.kind = kind
      /\ stream' = Append(stream, t) /\ end \in iterator .. Len(source)
  BY TokenType DEF Takes
<1>2. stream \in Seq(Tokens)
  BY Offsets
<1> HIDE DEF t
<1> QED BY <1>1, <1>2

LEMMA TypesKept ==
  ASSUME LexerTypeOK, Passes \/ TakesPlain \/ TakesDirective \/ TakesComment \/ Swallows
  PROVE  LexerTypeOK'
<1>1. /\ Counts => Offset' = Offset
      /\ iterator \in Nat /\ Len(source) \in Nat
      /\ ~IsFinished => iterator + 1 \in Offset
  BY SourceLength DEF Counts, Offset
<1>2. ASSUME UNCHANGED stream, insideMultiLineComment' \in BOOLEAN, Counts, iterator' \in Offset
      PROVE  LexerTypeOK'
  BY <1>1, <1>2 DEF LexerTypeOK, Counts
<1>3. ASSUME NEW kind, NEW end, Takes(kind, end), insideMultiLineComment' \in BOOLEAN
      PROVE  LexerTypeOK'
  <2>1. stream' \in Seq(Tokens) /\ end \in Offset /\ Counts /\ iterator' = end
    <3>1. stream' \in Seq(Tokens) /\ end \in iterator .. Len(source)
      BY <1>3, Taken
    <3> QED BY <1>1, <1>3, <3>1 DEF Takes, Offset
  <2>2. Tokens' = Tokens
    BY <1>1, <2>1 DEF Tokens, Counts
  <2> QED BY <1>1, <1>3, <2>1, <2>2 DEF LexerTypeOK, Counts, Tokens
<1>4. insideMultiLineComment \in BOOLEAN /\ iterator \in Offset
  BY DEF LexerTypeOK
<1>5. CASE Passes
  BY <1>1, <1>2, <1>4, <1>5 DEF Passes, Counts
<1>6. CASE Swallows
  BY <1>1, <1>2, <1>4, <1>6 DEF Swallows, Offset
<1>7. CASE TakesPlain
  BY <1>3, <1>4, <1>7 DEF TakesPlain
<1>8. CASE TakesDirective
  BY <1>3, <1>8 DEF TakesDirective
<1>9. CASE TakesComment
  BY <1>3, <1>9 DEF TakesComment
<1> QED BY <1>5, <1>6, <1>7, <1>8, <1>9

\* A turn takes a token, or goes on without one.
LEMMA TakesOrNot ==
  ASSUME LexerTypeOK, Passes \/ TakesPlain \/ TakesDirective \/ TakesComment \/ Swallows
  PROVE  \/ \E kind, end : Takes(kind, end)
         \/ UNCHANGED stream /\ iterator <= iterator' /\ iterator' \in Nat
BY SourceLength DEF Passes, Swallows, TakesPlain, TakesDirective, TakesComment

LEMMA OrderKept ==
  ASSUME LexerTypeOK, TokensInOrder,
         Passes \/ TakesPlain \/ TakesDirective \/ TakesComment \/ Swallows
  PROVE  TokensInOrder'
<1> DEFINE m == Len(stream)
<1>1. /\ m \in Nat /\ DOMAIN stream = 1 .. m /\ iterator \in Nat
      /\ \A n \in 1 .. m : stream[n].begin \in Nat /\ stream[n].end \in Nat
      /\ \A n \in 1 .. m : stream[n].begin <= stream[n].end /\ stream[n].end <= iterator
      /\ \A l, n \in 1 .. m : l < n => stream[l].end <= stream[n].begin
  BY SourceLength, Offsets DEF TokensInOrder
<1>2. ASSUME UNCHANGED stream, iterator <= iterator', iterator' \in Nat
      PROVE  TokensInOrder'
  BY <1>1, <1>2 DEF TokensInOrder
<1>3. ASSUME NEW kind, NEW end, Takes(kind, end)
      PROVE  TokensInOrder'
  <2>1. /\ DOMAIN stream' = 1 .. m + 1
        /\ \A n \in 1 .. m : stream'[n] = stream[n]
        /\ stream'[m + 1].begin = iterator /\ stream'[m + 1].end = iterator'
        /\ iterator' \in Nat /\ iterator <= iterator'
    BY <1>1, <1>3, SourceLength, Taken DEF Takes
  <2>2. ASSUME NEW n \in 1 .. m + 1
        PROVE  stream'[n].begin <= stream'[n].end /\ stream'[n].end <= iterator'
    BY <1>1, <2>1
  <2>3. ASSUME NEW l \in 1 .. m + 1, NEW n \in 1 .. m + 1, l < n
        PROVE  stream'[l].end <= stream'[n].begin
    <3>1. l \in 1 .. m
      BY <1>1, <2>3
    <3>2. CASE n = m + 1
      BY <1>1, <2>1, <3>1, <3>2
    <3>3. CASE n \in 1 .. m
      BY <1>1, <2>1, <2>3, <3>1, <3>3
    <3> QED BY <1>1, <3>2, <3>3
  <2> QED BY <2>1, <2>2, <2>3 DEF TokensInOrder
<1> QED BY <1>2, <1>3, TakesOrNot

-----------------------------------------------------------------------------
(* Comments between directives.                                            *)

\* The lexer is in a comment exactly behind the directive that opens it; and
\* behind the comment it stands before the directive that closes it.
Bracketing ==
  /\ insideMultiLineComment <=> stream # <<>> /\ Last(stream).kind = "PP_CommentsStart"
  /\ \A n \in DOMAIN stream :
       n + 1 = Len(stream) /\ stream[n].kind = "PP_CommentsStart" =>
         /\ stream[n + 1].kind = "Comment" /\ stream[n + 1].end = iterator
         /\ iterator \in CommentEnds(iterator)

LEMMA ClosingWord ==
  ASSUME LexerTypeOK, NEW i \in Nat, NEW j \in CommentEnds(i)
  PROVE  /\ j \in CommentEnds(j) /\ At(j) = "#" /\ PreProcessorKind(j) = "PP_CommentsEnd"
         /\ j \in i .. Len(source) - 1
BY SourceLength DEF CommentEnds, PlacesOf

LEMMA CommentEndsStay ==
  ASSUME source' = source, NEW i, iterator' = i
  PROVE  CommentEnds(iterator)' = CommentEnds(i)
BY DEF CommentEnds, PlacesOf, PreProcessorKind, PreProcessorEnd, FoldedText, At, EndOfRun

LEMMA LastIsLast ==
  ASSUME LexerTypeOK
  PROVE  stream # <<>> <=> Len(stream) \in DOMAIN stream
BY Offsets

\* A token that is taken, whose kind goes with the comments.
LEMMA TakenBracketing ==
  ASSUME LexerTypeOK, Bracketing, CommentsBracketed, NEW kind, NEW end, Takes(kind, end),
         insideMultiLineComment' <=> kind = "PP_CommentsStart",
         insideMultiLineComment => kind = "Comment" /\ end \in CommentEnds(iterator),
         \A n \in DOMAIN stream :
           n + 1 = Len(stream) /\ stream[n].kind = "PP_CommentsStart" => kind = "PP_CommentsEnd"
  PROVE  Bracketing' /\ CommentsBracketed'
<1> DEFINE m == Len(stream)
<1>1. /\ m \in Nat /\ DOMAIN stream = 1 .. m /\ iterator \in Nat
      /\ m \in 1 .. m /\ stream[m].kind = "PP_CommentsStart" => insideMultiLineComment
  BY SourceLength, Offsets, LastIsLast DEF Bracketing, Last
<1>2. /\ DOMAIN stream' = 1 .. m + 1 /\ Len(stream') = m + 1 /\ stream' # <<>>
      /\ \A n \in 1 .. m : stream'[n] = stream[n]
      /\ stream'[m + 1].begin = iterator /\ stream'[m + 1].end = end
      /\ stream'[m + 1].kind = kind
      /\ iterator' = end /\ source' = source
  <2>1. stream' \in Seq(Tokens) /\ Len(stream') = m + 1
    BY <1>1, Taken
  <2>2. stream' # <<>>
    BY <1>1, <2>1
  <2> QED BY <2>1, <2>2, Taken DEF Takes, Counts
<1>3. ASSUME m \in 1 .. m, stream[m].kind = "PP_CommentsStart"
      PROVE  kind = "Comment" /\ end \in CommentEnds(end)
  BY <1>1, <1>3, ClosingWord
<1>4. insideMultiLineComment' <=> stream' # <<>> /\ Last(stream').kind = "PP_CommentsStart"
  BY <1>2 DEF Last
<1>5. ASSUME NEW n \in 1 .. m + 1, n + 1 = m + 1, stream'[n].kind = "PP_CommentsStart"
      PROVE  /\ stream'[n + 1].kind = "Comment" /\ stream'[n + 1].end = iterator'
             /\ iterator' \in CommentEnds(iterator)'
  <2>1. n = m /\ m \in 1 .. m
    <3>1. m \in Nat /\ n \in 1 .. m + 1 /\ n + 1 = m + 1
      BY <1>1, <1>5
    <3> HIDE DEF m
    <3> QED BY <3>1
  <2>2. kind = "Comment" /\ end \in CommentEnds(end)
    BY <1>2, <1>3, <1>5, <2>1
  <2>3. CommentEnds(iterator)' = CommentEnds(end)
    BY <1>2, CommentEndsStay
  <2> QED BY <1>2, <2>1, <2>2, <2>3
<1>6. ASSUME NEW n \in 1 .. m + 1, stream'[n].kind = "PP_CommentsStart"
      PROVE  /\ n + 1 \in 1 .. m + 1 => stream'[n + 1].kind = "Comment"
             /\ n + 2 \in 1 .. m + 1 => stream'[n + 2].kind = "PP_CommentsEnd"
                                        /\ stream'[n + 2].begin = stream'[n + 1].end
  <2>1. CASE n = m + 1
    BY <1>1, <2>1
  <2>2. CASE n = m
    <3>1. n + 1 = m + 1 /\ n + 2 \notin 1 .. m + 1
      BY <1>1, <2>2
    <3> QED BY <1>2, <1>3, <1>6, <2>2, <3>1
  <2>3. CASE n + 1 = m
    <3>1. n \in 1 .. m /\ n + 1 \in 1 .. m /\ n + 2 = m + 1
      BY <1>1, <2>3
    <3>2. stream[n].kind = "PP_CommentsStart"
      BY <1>2, <1>6, <3>1
    <3>3. /\ stream[n + 1].kind = "Comment" /\ stream[n + 1].end = iterator
          /\ kind = "PP_CommentsEnd"
      BY <1>1, <2>3, <3>1, <3>2 DEF Bracketing
    <3> QED BY <1>2, <3>1, <3>3
  <2>4. CASE n + 2 \in 1 .. m
    <3>1. n \in 1 .. m /\ n + 1 \in 1 .. m
      BY <1>1, <2>4
    <3>2. stream[n].kind = "PP_CommentsStart"
      BY <1>2, <1>6, <3>1
    <3>3. /\ stream[n + 1].kind = "Comment" /\ stream[n + 2].kind = "PP_CommentsEnd"
          /\ stream[n + 2].begin = stream[n + 1].end
      BY <1>1, <2>4, <3>1, <3>2 DEF CommentsBracketed
    <3> QED BY <1>2, <2>4, <3>1, <3>3
  <2>5. n = m + 1 \/ n = m \/ n + 1 = m \/ n + 2 \in 1 .. m
    <3>1. m \in Nat /\ n \in 1 .. m + 1
      BY <1>1, <1>6
    <3> HIDE DEF m
    <3> QED BY <3>1
  <2> QED BY <2>1, <2>2, <2>3, <2>4, <2>5
<1>7. Bracketing'
  BY <1>2, <1>4, <1>5 DEF Bracketing
<1> QED BY <1>2, <1>6, <1>7 DEF CommentsBracketed

LEMMA BracketingKept ==
  ASSUME LexerTypeOK, Bracketing, CommentsBracketed,
         Passes \/ TakesPlain \/ TakesDirective \/ TakesComment \/ Swallows
  PROVE  Bracketing' /\ CommentsBracketed'
<1> DEFINE m == Len(stream)
<1>1. /\ m \in Nat /\ DOMAIN stream = 1 .. m /\ iterator \in Nat
      /\ insideMultiLineComment \in BOOLEAN
      /\ insideMultiLineComment <=> m \in 1 .. m /\ stream[m].kind = "PP_CommentsStart"
  BY SourceLength, Offsets, LastIsLast DEF Bracketing, Last, LexerTypeOK
\* Before the directive that closes a comment a turn can only take that.
<1>2. ASSUME NEW n \in 1 .. m, n + 1 = m, stream[n].kind = "PP_CommentsStart"
      PROVE  /\ TakesDirective /\ PreProcessorKind(iterator) = "PP_CommentsEnd"
             /\ stream[m].end = iterator /\ ~insideMultiLineComment
  <2>1. stream[m].kind = "Comment" /\ stream[m].end = iterator /\ iterator \in CommentEnds(iterator)
    BY <1>1, <1>2 DEF Bracketing
  <2>2. Current = "#" /\ PreProcessorKind(iterator) = "PP_CommentsEnd"
    BY <1>1, <2>1, ClosingWord DEF Current
  <2>3. ~insideMultiLineComment
    BY <1>1, <2>1
  <2>4. ~Silent("#") /\ "#" \notin Quote
    BY DEF Silent, SkipChar, NullChar, KnownChar, Quote
  <2> QED BY <2>1, <2>2, <2>3, <2>4 DEF Passes, TakesPlain, TakesComment, Swallows
<1>3. CASE Passes \/ Swallows
  <2>1. UNCHANGED <<stream, insideMultiLineComment>>
    BY <1>3 DEF Passes, Swallows
  <2>2. ~\E n \in 1 .. m : n + 1 = m /\ stream[n].kind = "PP_CommentsStart"
    <3>1. ~Silent("#") /\ "#" \notin Quote
      BY DEF Silent, SkipChar, NullChar, KnownChar, Quote
    <3> QED BY <1>2, <1>3, <3>1 DEF Passes, Swallows, TakesDirective
  <2> QED BY <1>1, <2>1, <2>2 DEF Bracketing, CommentsBracketed
<1>4. CASE TakesPlain
  <2>1. PICK kind \in PlainKind, end \in iterator + 1 .. Len(source) : Takes(kind, end)
    BY <1>4 DEF TakesPlain
  <2>2. kind # "PP_CommentsStart" /\ ~insideMultiLineComment /\ ~insideMultiLineComment'
        /\ Current # "#"
    BY <1>1, <1>4 DEF TakesPlain, PlainKind
  <2>3. ~\E n \in 1 .. m : n + 1 = m /\ stream[n].kind = "PP_CommentsStart"
    BY <1>2, <2>2 DEF TakesDirective
  <2> QED BY <1>1, <2>1, <2>2, <2>3, TakenBracketing
<1>5. CASE TakesDirective
  BY <1>1, <1>2, <1>5, TakenBracketing DEF TakesDirective
<1>6. CASE TakesComment
  <2>1. PICK end \in CommentEnds(iterator) : Takes("Comment", end)
    BY <1>6 DEF TakesComment
  <2>2. insideMultiLineComment /\ ~insideMultiLineComment'
    BY <1>6 DEF TakesComment
  <2> QED BY <1>1, <1>2, <2>1, <2>2, TakenBracketing
<1> QED BY <1>3, <1>4, <1>5, <1>6

-----------------------------------------------------------------------------
(* No character is lost.                                                   *)

LEMMA NothingLostKept ==
  ASSUME LexerTypeOK, TokensInOrder, Bracketing, NothingIsLost,
         Passes \/ TakesPlain \/ TakesDirective \/ TakesComment \/ Swallows
  PROVE  NothingIsLost'
<1> DEFINE m == Len(stream)
<1>1. /\ m \in Nat /\ DOMAIN stream = 1 .. m /\ iterator \in Nat /\ Len(source) \in Nat
      /\ iterator <= Len(source) /\ ~IsFinished /\ source' = source
      /\ \A n \in 1 .. m : stream[n].begin \in Nat /\ stream[n].end \in Nat
                           /\ stream[n].end <= iterator
  BY SourceLength, Offsets
     DEF TokensInOrder, Passes, Swallows, TakesPlain, TakesDirective, TakesComment, Takes, Counts
<1>2. \A k \in 0 .. iterator - 1 : k \in InTokens \/ Silent(At(k))
  BY <1>1 DEF NothingIsLost, Silent
<1>3. ASSUME \A k \in 0 .. iterator' - 1 :
               k \in InTokens' \/ Silent(At(k)) \/ (IsFinished' /\ \E i \in 0 .. k : LeftOpen(i)')
      PROVE  NothingIsLost'
  BY <1>1, <1>3 DEF NothingIsLost, Silent, At
<1>4. ASSUME NEW kind, NEW end, Takes(kind, end)
      PROVE  NothingIsLost'
  <2>1. /\ DOMAIN stream' = 1 .. m + 1
        /\ \A n \in 1 .. m : stream'[n] = stream[n]
        /\ stream'[m + 1].begin = iterator /\ stream'[m + 1].end = end
        /\ iterator' = end /\ end \in iterator .. Len(source)
    BY <1>4, Taken DEF Takes
  <2>2. InTokens \subseteq InTokens'
    BY <1>1, <2>1 DEF InTokens
  <2>3. iterator .. end - 1 \subseteq InTokens'
    BY <1>1, <2>1 DEF InTokens
  <2>4. ASSUME NEW k \in 0 .. end - 1
        PROVE  k \in 0 .. iterator - 1 \/ k \in iterator .. end - 1
    BY <1>1, <2>1
  <2> QED BY <1>2, <1>3, <2>1, <2>2, <2>3, <2>4
<1>5. CASE Passes
  <2>1. InTokens' = InTokens /\ iterator' = iterator + 1 /\ Silent(At(iterator))
    BY <1>5 DEF Passes, InTokens, Current
  <2>2. ASSUME NEW k \in 0 .. iterator' - 1
        PROVE  k \in 0 .. iterator - 1 \/ k = iterator
    BY <1>1, <2>1
  <2> QED BY <1>2, <1>3, <2>1, <2>2
<1>6. CASE Swallows
  <2>1. InTokens' = InTokens /\ iterator' = Len(source) /\ stream' = stream /\ IsFinished'
    BY <1>1, <1>6 DEF Swallows, InTokens, IsFinished
  <2>2. iterator .. Len(source) - 1 \cap InTokens = {}
    BY <1>1 DEF InTokens
  <2>3. \/ At(iterator) \in Quote /\ PlacesOf({At(iterator)}, iterator + 1, Len(source)) = {}
        \/ /\ stream # <<>> /\ Last(stream).kind = "PP_CommentsStart"
           /\ iterator >= Last(stream).end /\ CommentEnds(iterator) = {}
    BY <1>1, <1>6, LastIsLast DEF Swallows, Current, Bracketing, Last
  <2>4. LeftOpen(iterator)
    BY <2>2, <2>3 DEF LeftOpen
  <2>5. ASSUME NEW i \in Nat, LeftOpen(i)
        PROVE  LeftOpen(i)'
    <3>1. CommentEnds(i)' = CommentEnds(i)
      BY <1>1 DEF CommentEnds, PlacesOf, PreProcessorKind, PreProcessorEnd, FoldedText, At, EndOfRun
    <3>2. PlacesOf({At(i)}, i + 1, Len(source))' = PlacesOf({At(i)}, i + 1, Len(source))
      BY <1>1 DEF PlacesOf, At
    <3>3. At(i)' = At(i) /\ Len(source)' = Len(source)
      BY <1>1 DEF At
    <3> QED BY <2>1, <2>5, <3>1, <3>2, <3>3 DEF LeftOpen
  <2>6. ASSUME NEW k \in 0 .. iterator' - 1
        PROVE  k \in 0 .. iterator - 1 \/ iterator \in 0 .. k
    BY <1>1, <2>1
  <2> QED BY <1>1, <1>2, <1>3, <2>1, <2>4, <2>5, <2>6
<1> QED BY <1>4, <1>5, <1>6 DEF TakesPlain, TakesDirective, TakesComment

-----------------------------------------------------------------------------
(* How the branches move along the source.                                 *)

\* What a run of characters is: all in the set, and as long as it can be.
LEMMA EndOfRunIs ==
  ASSUME LexerTypeOK, NEW S, NEW i \in Nat, i <= Len(source)
  PROVE  LET end == EndOfRun(S, i)
         IN  /\ end \in i .. Len(source)
             /\ \A k \in i .. end - 1 : At(k) \in S
             /\ end < Len(source) => At(end) \notin S
<1> DEFINE ends == {j \in i .. Len(source) : j < Len(source) => At(j) \notin S}
<1>1. Len(source) \in Nat
  BY SourceLength
<1>2. ends \in SUBSET Nat /\ Len(source) \in ends
  BY <1>1
<1>3. EndOfRun(S, i) = Min(ends)
  BY DEF EndOfRun
<1>4. Min(ends) \in ends /\ \A j \in ends : Min(ends) <= j
  <2> HIDE DEF ends
  <2> QED BY <1>2, MinLeast
<1>5. ASSUME NEW k \in i .. Min(ends) - 1
      PROVE  At(k) \in S
  <2>1. k \notin ends /\ k \in i .. Len(source) /\ k < Len(source)
    <3>1. Min(ends) \in i .. Len(source)
      BY <1>4
    <3> HIDE DEF ends
    <3> QED BY <1>1, <1>4, <1>5, <3>1
  <2> QED BY <2>1
<1> QED BY <1>3, <1>4, <1>5

\* The letters of either case, as the provers need them.
LEMMA Letters ==
  /\ ToSet(LowerLetters) = {"a", "b", "c", "d", "e", "f", "g", "h", "i", "j", "k", "l", "m",
                            "n", "o", "p", "q", "r", "s", "t", "u", "v", "w", "x", "y", "z"}
  /\ ToSet(UpperLetters) = {"A", "B", "C", "D", "E", "F", "G", "H", "I", "J", "K", "L", "M",
                            "N", "O", "P", "Q", "R", "S", "T", "U", "V", "W", "X", "Y", "Z"}
<1>1. DOMAIN LowerLetters = 1 .. 26 /\ DOMAIN UpperLetters = 1 .. 26
  BY DEF LowerLetters, UpperLetters
<1> QED BY <1>1 DEF LowerLetters, UpperLetters, ToSet

\* No line ends in any of the classes of characters a token is made of.
LEMMA NoLineEnd ==
  "\n" \notin IdentifierChar \cup PPChar \cup HexDigit \cup Digit \cup TwoPartOperator
              \cup SingleOperator \cup Punctuation \cup SkipChar \cup Quote
BY Letters DEF IdentifierChar, PPChar, AlphaNumeric, HexDigit, Digit, TwoPartOperator,
               SingleOperator, Punctuation, SkipChar, Quote

\* The lexer moves along the line it is on.
AlongLine == MoveTo(iterator') /\ \A k \in iterator .. iterator' - 1 : At(k) # "\n"

LEMMA AlongOne ==
  ASSUME LexerTypeOK, Current # "\n", MoveTo(iterator + 1)
  PROVE  AlongLine
<1>1. iterator' = iterator + 1 /\ iterator \in Nat
  BY SourceLength DEF MoveTo
<1>2. \A k \in iterator .. iterator' - 1 : k = iterator
  BY <1>1
<1> QED BY <1>1, <1>2 DEF AlongLine, Current

LEMMA OneCharacterMoves ==
  ASSUME LexerTypeOK, NullCharacter \/ SkipCharacter \/ OneCharacterToken \/ UnknownCharacter
  PROVE  AlongLine
<1>1. Current # "\n"
  BY NoLineEnd DEF NullCharacter, SkipCharacter, OneCharacterToken, UnknownCharacter, Upcoming,
                   NullChar, KnownChar
<1>2. MoveTo(iterator + 1)
  BY DEF NullCharacter, SkipCharacter, OneCharacterToken, UnknownCharacter, Emit
<1> QED BY <1>1, <1>2, AlongOne

\* A run of a class of characters, behind the first character if that is not
\* part of it.
LEMMA AlongRun ==
  ASSUME LexerTypeOK, ~IsFinished, NEW S, "\n" \notin S, Current # "\n",
         NEW i \in {iterator, iterator + 1}, MoveTo(EndOfRun(S, i))
  PROVE  AlongLine
<1> DEFINE end == EndOfRun(S, i)
<1>1. iterator \in Nat /\ i \in Nat /\ i <= Len(source) /\ Len(source) \in Nat
  BY SourceLength
<1>2. end \in i .. Len(source) /\ \A k \in i .. end - 1 : At(k) \in S
  BY <1>1, EndOfRunIs
<1>3. iterator' = end
  BY DEF MoveTo
<1> HIDE DEF end
<1>4. \A k \in iterator .. end - 1 : k = iterator \/ k \in i .. end - 1
  BY <1>1, <1>2
<1> QED BY <1>2, <1>3, <1>4 DEF AlongLine, Current, end

LEMMA RunMoves ==
  ASSUME LexerTypeOK, Macro \/ VariableIdentifier \/ PreProcessor \/ Identifier
  PROVE  AlongLine
<1>1. Current # "\n" /\ ~IsFinished
  BY NoLineEnd DEF Macro, VariableIdentifier, PreProcessor, Identifier, Upcoming
<1>2. "\n" \notin IdentifierChar /\ "\n" \notin PPChar
  BY NoLineEnd
<1>3. \/ \E i \in {iterator, iterator + 1} : MoveTo(EndOfRun(IdentifierChar, i))
      \/ \E i \in {iterator, iterator + 1} : MoveTo(EndOfRun(PPChar, i))
  BY DEF Macro, VariableIdentifier, PreProcessor, Identifier, Emit, PreProcessorEnd
<1> QED BY <1>1, <1>2, <1>3, AlongRun

LEMMA HexMoves ==
  ASSUME LexerTypeOK, HexLiteral
  PROVE  AlongLine
<1> DEFINE end == EndOfRun(HexDigit, iterator + 2)
<1>1. /\ Current = "0" /\ iterator + 1 < Len(source) /\ At(iterator + 1) \in {"x", "X"}
      /\ MoveTo(end) /\ iterator' = end
  BY DEF HexLiteral, Upcoming, IsAt, Emit, MoveTo
<1>2. iterator \in Nat /\ Len(source) \in Nat
  BY SourceLength
<1>3. end \in iterator + 2 .. Len(source) /\ \A k \in iterator + 2 .. end - 1 : At(k) \in HexDigit
  <2>1. iterator + 2 \in Nat /\ iterator + 2 <= Len(source)
    BY <1>1, <1>2
  <2> QED BY <2>1, EndOfRunIs
<1> HIDE DEF end
<1>4. \A k \in iterator .. end - 1 : k = iterator \/ k = iterator + 1 \/ k \in iterator + 2 .. end - 1
  BY <1>2, <1>3
<1>5. "\n" \notin HexDigit
  BY NoLineEnd
<1> QED BY <1>1, <1>3, <1>4, <1>5 DEF AlongLine, Current

\* The digits before the dot of a number, and those behind it if there is one.
LEMMA DigitsAround ==
  ASSUME LexerTypeOK, ~IsFinished
  PROVE  LET whole    == EndOfRun(Digit, iterator)
             fraction == EndOfRun(Digit, whole + 1)
         IN  /\ whole \in iterator .. Len(source)
             /\ \A k \in iterator .. whole - 1 : At(k) \in Digit
             /\ whole < Len(source) => At(whole) \notin Digit
             /\ IsAt({"."}, whole) =>
                  /\ whole < Len(source) /\ At(whole) = "."
                  /\ fraction \in whole + 1 .. Len(source)
                  /\ \A k \in whole + 1 .. fraction - 1 : At(k) \in Digit
                  /\ fraction < Len(source) => At(fraction) \notin Digit
<1> DEFINE whole    == EndOfRun(Digit, iterator)
           fraction == EndOfRun(Digit, whole + 1)
<1>1. iterator \in Nat /\ iterator <= Len(source) /\ Len(source) \in Nat
  BY SourceLength
<1>2. /\ whole \in iterator .. Len(source)
      /\ \A k \in iterator .. whole - 1 : At(k) \in Digit
      /\ whole < Len(source) => At(whole) \notin Digit
  BY <1>1, EndOfRunIs
<1> HIDE DEF whole
<1>3. ASSUME IsAt({"."}, whole)
      PROVE  /\ whole < Len(source) /\ At(whole) = "."
             /\ fraction \in whole + 1 .. Len(source)
             /\ \A k \in whole + 1 .. fraction - 1 : At(k) \in Digit
             /\ fraction < Len(source) => At(fraction) \notin Digit
  <2>1. whole < Len(source) /\ At(whole) = "."
    BY <1>3 DEF IsAt
  <2>2. whole + 1 \in Nat /\ whole + 1 <= Len(source)
    BY <1>1, <1>2, <2>1
  <2> QED BY <2>1, <2>2, EndOfRunIs
<1> QED BY <1>2, <1>3 DEF whole

LEMMA DecimalMoves ==
  ASSUME LexerTypeOK, DecimalLiteral
  PROVE  AlongLine
<1> DEFINE whole    == EndOfRun(Digit, iterator)
           fraction == EndOfRun(Digit, whole + 1)
<1>1. /\ ~IsFinished
      /\ \/ ~IsAt({"."}, whole) /\ MoveTo(whole)
         \/ IsAt({"."}, whole) /\ MoveTo(fraction)
  BY DEF DecimalLiteral, Upcoming, Emit
<1>2. /\ whole \in iterator .. Len(source)
      /\ \A k \in iterator .. whole - 1 : At(k) \in Digit
      /\ IsAt({"."}, whole) =>
           /\ At(whole) = "." /\ fraction \in whole + 1 .. Len(source)
           /\ \A k \in whole + 1 .. fraction - 1 : At(k) \in Digit
  BY <1>1, DigitsAround
<1>3. "\n" \notin Digit /\ iterator \in Nat
  BY NoLineEnd, SourceLength
<1> HIDE DEF whole, fraction
<1>4. CASE ~IsAt({"."}, whole)
  <2>1. MoveTo(whole) /\ iterator' = whole
    BY <1>1, <1>4 DEF MoveTo
  <2> QED BY <1>2, <1>3, <2>1 DEF AlongLine
<1>5. CASE IsAt({"."}, whole)
  <2>1. MoveTo(fraction) /\ iterator' = fraction
    BY <1>1, <1>5 DEF MoveTo
  <2>2. \A k \in iterator .. fraction - 1 :
          k \in iterator .. whole - 1 \/ k = whole \/ k \in whole + 1 .. fraction - 1
    BY <1>2, <1>3, <1>5
  <2> QED BY <1>2, <1>3, <1>5, <2>1, <2>2 DEF AlongLine
<1> QED BY <1>4, <1>5

LEMMA OperatorMoves ==
  ASSUME LexerTypeOK, Operator
  PROVE  AlongLine
<1> DEFINE second == IF Current = "<" THEN {"=", ">"} ELSE {"="}
<1>1. Current # "\n"
  BY NoLineEnd DEF Operator, Upcoming
<1>2. CASE ~IsAt(second, iterator + 1)
  <2>1. MoveTo(iterator + 1)
    BY <1>2 DEF Operator, Emit
  <2> QED BY <1>1, <2>1, AlongOne
<1>3. CASE IsAt(second, iterator + 1)
  <2>1. MoveTo(iterator + 2) /\ iterator' = iterator + 2
    BY <1>3 DEF Operator, Emit, MoveTo
  <2>2. At(iterator + 1) # "\n"
    BY <1>3 DEF IsAt
  <2>3. \A k \in iterator .. iterator' - 1 : k = iterator \/ k = iterator + 1
    BY <2>1, SourceLength
  <2> QED BY <1>1, <2>1, <2>2, <2>3 DEF AlongLine, Current
<1> QED BY <1>2, <1>3

LEMMA LineCommentMoves ==
  ASSUME LexerTypeOK, Comment
  PROVE  AlongLine
<1> DEFINE lineEnds == PlacesOf({"\n"}, iterator, Len(source))
           end      == IF lineEnds = {} THEN Len(source) ELSE Min(lineEnds)
<1>1. lineEnds \in SUBSET (iterator .. Len(source) - 1) /\ iterator \in Nat /\ Len(source) \in Nat
  BY SourceLength, PlacesOfType
<1>2. MoveTo(end) /\ iterator' = end
  BY DEF Comment, Emit, MoveTo
<1>3. end \in iterator .. Len(source) /\ \A k \in lineEnds : end <= k
  <2>1. CASE lineEnds = {}
    BY <1>1, <2>1, SourceLength
  <2>2. CASE lineEnds # {}
    <3>1. lineEnds \in SUBSET Nat
      BY <1>1
    <3>2. Min(lineEnds) \in lineEnds /\ \A k \in lineEnds : Min(lineEnds) <= k
      <4> HIDE DEF lineEnds
      <4> QED BY <2>2, <3>1, MinLeast
    <3> QED BY <1>1, <2>2, <3>2
  <2> QED BY <2>1, <2>2
<1>4. ASSUME NEW k \in iterator .. end - 1 PROVE At(k) # "\n"
  <2>1. k \in iterator .. Len(source) - 1 /\ ~(end <= k)
    <3> HIDE DEF end
    <3> QED BY <1>1, <1>3
  <2> HIDE DEF end
  <2> QED BY <1>3, <2>1 DEF PlacesOf
<1> QED BY <1>2, <1>4 DEF AlongLine

LEMMA StringMoves ==
  ASSUME LexerTypeOK, StringLiteral
  PROVE  /\ Takes("StringLiteral", iterator') /\ MoveTo(iterator')
         /\ iterator' \in iterator + 1 .. Len(source)
<1> DEFINE closing == PlacesOf({Current}, iterator + 1, Len(source))
           end     == Min(closing) + 1
<1>1. ~IsFinished /\ closing # {}
  BY DEF StringLiteral, Upcoming
<1>2. closing \in SUBSET (iterator + 1 .. Len(source) - 1)
  BY <1>1, SourceLength, PlacesOfType
<1>3. Min(closing) \in iterator + 1 .. Len(source) - 1
  <2>1. iterator + 1 \in Nat
    BY SourceLength
  <2> HIDE DEF closing
  <2> QED BY <1>1, <1>2, <2>1, FirstPlace
<1>4. end \in iterator .. Len(source) /\ end \in iterator + 1 .. Len(source)
  BY <1>3, SourceLength
<1>5. "StringLiteral" \in TokenKind
  BY PlainKinds DEF PlainKind
<1>6. Emit("StringLiteral", end) /\ UNCHANGED <<source, nullCharacters>>
  BY DEF StringLiteral
<1>7. MoveTo(end) /\ iterator' = end
  BY <1>6 DEF Emit, MoveTo
<1> HIDE DEF end
<1> QED BY <1>1, <1>4, <1>5, <1>6, <1>7, EmitTakes

-----------------------------------------------------------------------------
(* Lines and columns.                                                      *)

\* The offset behind the last of some line ends; 0 if there is none.
Behind(ends) == IF ends = {} THEN 0 ELSE Max(ends) + 1

InComments(n) ==
  UNION {stream[m].begin .. stream[m].end - 1 :
           m \in {m \in 1 .. n - 1 : stream[m].kind = "Comment"}}

\* The line and the column of an offset, given the line ends before it, those in
\* strings and the characters in comments.
IsPlace(i, line, col, ends, strings, comments) ==
  /\ line = 1 + Cardinality(ends \ strings)
  /\ /\ Behind(ends) - 1 \notin strings
     /\ \A k \in Behind(ends) .. i - 1 : ~(k \in comments /\ At(k) = "#")
     => col = 1 + i - Behind(ends)

\* The lexer is where its line and column say, as long as it goes on: an open
\* string is not counted.
Places ==
  ~IsFinished =>
    IsPlace(iterator, lineNumber, column, LineEnds(0, iterator),
            StringLineEnds(Len(stream) + 1), InComments(Len(stream) + 1))

\* So is the newest token.
NewestPlaced ==
  stream # <<>> =>
    LET n == Len(stream)
        t == stream[n]
    IN  IsPlace(t.begin, t.line, t.column, LineEnds(0, t.begin), StringLineEnds(n), InComments(n))

Within(T, i, j) == T \subseteq i .. j - 1
Joined(S, T)    == S \cup T

LEMMA BehindType ==
  ASSUME NEW i \in Nat, NEW ends, Within(ends, 0, i)
  PROVE  Behind(ends) \in 0 .. i
<1>1. CASE ends = {}
  BY <1>1 DEF Behind
<1>2. CASE ends # {}
  <2>1. ends \in SUBSET (0 .. i) /\ ends \subseteq 0 .. i - 1
    BY DEF Within
  <2>2. Max(ends) \in 0 .. i - 1
    BY <1>2, <2>1, MaxGreatest
  <2>3. Behind(ends) = Max(ends) + 1
    BY <1>2 DEF Behind
  <2> QED BY <2>2, <2>3
<1> QED BY <1>1, <1>2

\* The last line end is among the later ones, if there are any.
LEMMA BehindLater ==
  ASSUME NEW i \in Nat, NEW j \in Nat, NEW ends, NEW more,
         Within(ends, 0, i), Within(more, i, j), more # {}
  PROVE  /\ Behind(Joined(ends, more)) = Max(more) + 1
         /\ Max(more) \in more /\ Max(more) \in i .. j - 1
         /\ \A k \in more : k <= Max(more)
<1>0. ends \subseteq 0 .. i - 1 /\ more \subseteq i .. j - 1
  BY DEF Within
<1>1. more \in SUBSET (0 .. j) /\ ends \cup more \in SUBSET (0 .. i + j) /\ i + j \in Nat
  BY <1>0
<1>2. Max(more) \in more /\ \A k \in more : k <= Max(more)
  BY <1>1, MaxGreatest
<1>3. /\ Max(ends \cup more) \in ends \cup more
      /\ \A k \in ends \cup more : k <= Max(ends \cup more)
  BY <1>1, MaxGreatest
<1>4. Max(ends \cup more) = Max(more)
  <2>1. /\ Max(more) \in i .. j - 1 /\ Max(more) <= Max(ends \cup more)
        /\ Max(ends \cup more) \in 0 .. i - 1 \/ Max(ends \cup more) \in more
    BY <1>0, <1>2, <1>3
  <2>2. Max(ends \cup more) \in more
    BY <2>1
  <2>3. Max(ends \cup more) <= Max(more)
    BY <1>2, <2>2
  <2>4. Max(ends \cup more) \in i .. j - 1
    BY <1>0, <2>2
  <2> QED BY <2>1, <2>3, <2>4
<1> QED BY <1>0, <1>2, <1>4 DEF Behind, Joined

\* What a turn adds to the line ends, to those in strings and to the comments.
LEMMA LineEndsGrow ==
  ASSUME LexerTypeOK, source' = source, iterator' \in iterator .. Len(source)
  PROVE  /\ LineEnds(0, iterator)' = LineEnds(0, iterator) \cup LineEnds(iterator, iterator')
         /\ Within(LineEnds(0, iterator), 0, iterator)
         /\ Within(LineEnds(iterator, iterator'), iterator, iterator')
         /\ iterator \in Nat /\ iterator' \in Nat
         /\ \A k \in LineEnds(0, iterator)' : At(k) = "\n"
<1>1. iterator \in Nat /\ iterator' \in Nat /\ iterator <= iterator'
  BY SourceLength
<1>2. /\ LineEnds(0, iterator) = {k \in 0 .. iterator - 1 : At(k) = "\n"}
      /\ LineEnds(iterator, iterator') = {k \in iterator .. iterator' - 1 : At(k) = "\n"}
      /\ LineEnds(0, iterator)' = {k \in 0 .. iterator' - 1 : At(k) = "\n"}
  BY DEF LineEnds, PlacesOf, At
<1>3. \A k : k \in 0 .. iterator' - 1 <=> k \in 0 .. iterator - 1 \/ k \in iterator .. iterator' - 1
  BY <1>1
<1> QED BY <1>1, <1>2, <1>3 DEF Within

LEMMA TokensBehind ==
  ASSUME LexerTypeOK, TokensInOrder
  PROVE  /\ Within(StringLineEnds(Len(stream) + 1), 0, iterator)
         /\ Within(InComments(Len(stream) + 1), 0, iterator)
<1> DEFINE m == Len(stream)
<1>1. /\ m \in Nat /\ iterator \in Nat /\ m + 1 - 1 = m
      /\ \A n \in 1 .. m : /\ stream[n].begin \in Nat /\ stream[n].end \in Nat
                           /\ stream[n].end <= iterator
  BY SourceLength, Offsets DEF TokensInOrder
<1>2. ASSUME NEW n \in 1 .. m
      PROVE  stream[n].begin .. stream[n].end - 1 \subseteq 0 .. iterator - 1
  BY <1>1
<1>3. \A n \in 1 .. m : LineEnds(stream[n].begin, stream[n].end) \subseteq 0 .. iterator - 1
  BY <1>2 DEF LineEnds, PlacesOf
<1> HIDE DEF m
<1> QED BY <1>1, <1>2, <1>3 DEF StringLineEnds, InComments, m, Within

LEMMA TokensStay ==
  ASSUME LexerTypeOK, source' = source, UNCHANGED stream
  PROVE  /\ StringLineEnds(Len(stream) + 1)' = StringLineEnds(Len(stream) + 1)
         /\ InComments(Len(stream) + 1)' = InComments(Len(stream) + 1)
         /\ stream # <<>> =>
              /\ StringLineEnds(Len(stream))' = StringLineEnds(Len(stream))
              /\ InComments(Len(stream))' = InComments(Len(stream))
BY DEF StringLineEnds, InComments, LineEnds, PlacesOf, At

LEMMA TokenAdded ==
  ASSUME LexerTypeOK, NEW kind, NEW end, Takes(kind, end)
  PROVE  /\ StringLineEnds(Len(stream) + 1)' =
              IF kind = "StringLiteral"
                THEN StringLineEnds(Len(stream) + 1) \cup LineEnds(iterator, end)
                ELSE StringLineEnds(Len(stream) + 1)
         /\ InComments(Len(stream) + 1)' =
              IF kind = "Comment" THEN InComments(Len(stream) + 1) \cup iterator .. end - 1
                                  ELSE InComments(Len(stream) + 1)
         /\ StringLineEnds(Len(stream))' = StringLineEnds(Len(stream) + 1)
         /\ InComments(Len(stream))' = InComments(Len(stream) + 1)
<1> DEFINE m == Len(stream)
<1>1. /\ m \in Nat /\ Len(stream') = m + 1 /\ source' = source
      /\ \A n \in 1 .. m : stream'[n] = stream[n]
      /\ stream'[m + 1].begin = iterator /\ stream'[m + 1].end = end
      /\ stream'[m + 1].kind = kind
  BY Offsets, Taken DEF Takes, Counts
<1>2. /\ m + 1 - 1 = m /\ m + 1 + 1 - 1 = m + 1
      /\ \A n : n \in 1 .. m + 1 <=> n \in 1 .. m \/ n = m + 1
      /\ m + 1 \notin 1 .. m
  BY <1>1
<1>3. \A i, j : LineEnds(i, j) = {k \in i .. j - 1 : source[k + 1] = "\n"}
  BY DEF LineEnds, PlacesOf, At
<1>4. /\ StringLineEnds(m + 1) =
           UNION {LineEnds(stream[n].begin, stream[n].end) :
                    n \in {n \in 1 .. m : stream[n].kind = "StringLiteral"}}
      /\ InComments(m + 1) =
           UNION {stream[n].begin .. stream[n].end - 1 :
                    n \in {n \in 1 .. m : stream[n].kind = "Comment"}}
  BY <1>2 DEF StringLineEnds, InComments
<1>5. /\ StringLineEnds(Len(stream) + 1)' =
           UNION {LineEnds(stream'[n].begin, stream'[n].end) :
                    n \in {n \in 1 .. m + 1 : stream'[n].kind = "StringLiteral"}}
      /\ InComments(Len(stream) + 1)' =
           UNION {stream'[n].begin .. stream'[n].end - 1 :
                    n \in {n \in 1 .. m + 1 : stream'[n].kind = "Comment"}}
  BY <1>1, <1>2, <1>3 DEF StringLineEnds, InComments, LineEnds, PlacesOf, At
<1>6. /\ StringLineEnds(Len(stream))' =
           UNION {LineEnds(stream'[n].begin, stream'[n].end) :
                    n \in {n \in 1 .. m : stream'[n].kind = "StringLiteral"}}
      /\ InComments(Len(stream))' =
           UNION {stream'[n].begin .. stream'[n].end - 1 :
                    n \in {n \in 1 .. m : stream'[n].kind = "Comment"}}
  BY <1>1, <1>2, <1>3 DEF StringLineEnds, InComments, LineEnds, PlacesOf, At
<1> HIDE DEF m
<1>7. /\ StringLineEnds(Len(stream))' = StringLineEnds(m + 1)
      /\ InComments(Len(stream))' = InComments(m + 1)
  BY <1>1, <1>4, <1>6
<1>8. ASSUME NEW k
      PROVE  {n \in 1 .. m + 1 : stream'[n].kind = k} =
               {n \in 1 .. m : stream[n].kind = k} \cup (IF kind = k THEN {m + 1} ELSE {})
  BY <1>1, <1>2
<1>9. StringLineEnds(Len(stream) + 1)' =
        IF kind = "StringLiteral" THEN StringLineEnds(m + 1) \cup LineEnds(iterator, end)
                                  ELSE StringLineEnds(m + 1)
  <2> DEFINE old == {n \in 1 .. m : stream[n].kind = "StringLiteral"}
             new == {n \in 1 .. m + 1 : stream'[n].kind = "StringLiteral"}
  <2>1. new = old \cup (IF kind = "StringLiteral" THEN {m + 1} ELSE {})
    BY <1>8
  <2>2. \A n \in old : stream'[n] = stream[n]
    BY <1>1
  <2>3. \A x : x \in StringLineEnds(m + 1) <=>
                 \E n \in old : x \in LineEnds(stream[n].begin, stream[n].end)
    BY <1>4
  <2>4. \A x : x \in StringLineEnds(Len(stream) + 1)' <=>
                 \E n \in new : x \in LineEnds(stream'[n].begin, stream'[n].end)
    BY <1>5
  <2> HIDE DEF old, new
  <2>5. CASE kind = "StringLiteral"
    BY <1>1, <2>1, <2>2, <2>3, <2>4, <2>5
  <2>6. CASE kind # "StringLiteral"
    BY <1>1, <2>1, <2>2, <2>3, <2>4, <2>6
  <2> QED BY <2>5, <2>6
<1>10. InComments(Len(stream) + 1)' =
        IF kind = "Comment" THEN InComments(m + 1) \cup iterator .. end - 1 ELSE InComments(m + 1)
  <2> DEFINE old == {n \in 1 .. m : stream[n].kind = "Comment"}
             new == {n \in 1 .. m + 1 : stream'[n].kind = "Comment"}
  <2>1. new = old \cup (IF kind = "Comment" THEN {m + 1} ELSE {})
    BY <1>8
  <2>2. \A n \in old : stream'[n] = stream[n]
    BY <1>1
  <2>3. \A x : x \in InComments(m + 1) <=>
                 \E n \in old : x \in stream[n].begin .. stream[n].end - 1
    BY <1>4
  <2>4. \A x : x \in InComments(Len(stream) + 1)' <=>
                 \E n \in new : x \in stream'[n].begin .. stream'[n].end - 1
    BY <1>5
  <2> HIDE DEF old, new
  <2>5. CASE kind = "Comment"
    BY <1>1, <2>1, <2>2, <2>3, <2>4, <2>5
  <2>6. CASE kind # "Comment"
    BY <1>1, <2>1, <2>2, <2>3, <2>4, <2>6
  <2> QED BY <2>5, <2>6
<1> QED BY <1>7, <1>9, <1>10 DEF m

\* The place behind a turn, from what the turn adds.
LEMMA PlacesBehind ==
  ASSUME source' = source,
         ~IsFinished' =>
           /\ lineNumber' = 1 + Cardinality(LineEnds(0, iterator)'
                                              \ StringLineEnds(Len(stream) + 1)')
           /\ /\ Behind(LineEnds(0, iterator)') - 1 \notin StringLineEnds(Len(stream) + 1)'
              /\ \A k \in Behind(LineEnds(0, iterator)') .. iterator' - 1 :
                   ~(k \in InComments(Len(stream) + 1)' /\ At(k) = "#")
              => column' = 1 + iterator' - Behind(LineEnds(0, iterator)')
  PROVE  Places'
BY DEF Places, IsPlace, At, Behind

LEMMA AlongKeepsPlaces ==
  ASSUME LexerTypeOK, TokensInOrder, Places, ~IsFinished, source' = source,
         iterator' \in iterator .. Len(source), AlongLine,
         UNCHANGED stream \/ \E kind : Takes(kind, iterator')
  PROVE  Places'
<1> DEFINE A == LineEnds(0, iterator)
           S == StringLineEnds(Len(stream) + 1)
           C == InComments(Len(stream) + 1)
<1>1. LineEnds(iterator, iterator') = {}
  BY DEF AlongLine, LineEnds, PlacesOf
<1>2. /\ LineEnds(0, iterator)' = A /\ Within(A, 0, iterator)
      /\ iterator \in Nat /\ iterator' \in Nat /\ iterator <= iterator'
  BY <1>1, LineEndsGrow
<1>3. /\ StringLineEnds(Len(stream) + 1)' = S
      /\ C \subseteq InComments(Len(stream) + 1)'
  BY <1>1, TokensStay, TokenAdded
<1>4. /\ lineNumber' = lineNumber /\ column' = column + (iterator' - iterator)
      /\ column \in Nat
  BY DEF AlongLine, MoveTo, LexerTypeOK
<1>5. /\ lineNumber = 1 + Cardinality(A \ S)
      /\ /\ Behind(A) - 1 \notin S
         /\ \A k \in Behind(A) .. iterator - 1 : ~(k \in C /\ At(k) = "#")
         => column = 1 + iterator - Behind(A)
  BY DEF Places, IsPlace
<1>6. Behind(A) \in 0 .. iterator
  BY <1>2, BehindType
<1> HIDE DEF A, S, C
<1>7. \A b, i, j \in Nat : i <= j => \A k \in b .. i - 1 : k \in b .. j - 1
  OBVIOUS
<1>8. column = 1 + iterator - Behind(A) => column' = 1 + iterator' - Behind(A)
  BY <1>2, <1>4, <1>6
<1>9. Behind(A) \in Nat
  BY <1>2, <1>6
<1> QED BY <1>2, <1>3, <1>4, <1>5, <1>7, <1>8, <1>9, PlacesBehind

\* The line ends in a string are not counted, and the columns behind one say
\* nothing.
LEMMA StringKeepsPlaces ==
  ASSUME LexerTypeOK, TokensInOrder, Places, ~IsFinished,
         iterator' \in iterator .. Len(source), MoveTo(iterator'),
         Takes("StringLiteral", iterator')
  PROVE  Places'
<1> DEFINE A == LineEnds(0, iterator)
           B == LineEnds(iterator, iterator')
           S == StringLineEnds(Len(stream) + 1)
<1>1. source' = source
  BY DEF Takes, Counts
<1>2. CASE B = {}
  <2>1. AlongLine
    BY <1>2 DEF AlongLine, LineEnds, PlacesOf
  <2> QED BY <1>1, <2>1, AlongKeepsPlaces
<1>3. CASE B # {}
  <2>1. /\ LineEnds(0, iterator)' = A \cup B /\ Within(A, 0, iterator)
        /\ Within(B, iterator, iterator')
        /\ iterator \in Nat /\ iterator' \in Nat
    BY <1>1, LineEndsGrow
  <2>2. StringLineEnds(Len(stream) + 1)' = S \cup B
    BY TokenAdded
  <2>3. (A \cup B) \ (S \cup B) = A \ S
    <3>1. A \cap B = {}
      BY <2>1 DEF Within
    <3> QED BY <3>1
  <2>4. lineNumber' = 1 + Cardinality(A \ S)
    BY DEF Places, IsPlace, MoveTo
  <2> HIDE DEF A, B, S
  <2>5. Behind(A \cup B) - 1 \in B
    <3>1. Behind(Joined(A, B)) = Max(B) + 1 /\ Max(B) \in B /\ Max(B) \in iterator .. iterator' - 1
      BY <1>3, <2>1, BehindLater
    <3>2. Max(B) + 1 - 1 = Max(B)
      BY <3>1
    <3> QED BY <3>1, <3>2 DEF Joined
  <2> QED BY <1>1, <2>1, <2>2, <2>3, <2>4, <2>5, PlacesBehind
<1> QED BY <1>2, <1>3

\* Line ends outside strings are counted.
LEMMA CountMore ==
  ASSUME NEW i \in Nat, NEW j \in Nat, NEW A, NEW B, NEW S,
         Within(A, 0, i), Within(B, i, j), Within(S, 0, i)
  PROVE  /\ Cardinality((A \cup B) \ S) = Cardinality(A \ S) + Cardinality(B)
         /\ Cardinality(A \ S) \in Nat /\ Cardinality(B) \in Nat
<1>1. IsFiniteSet(0 .. i - 1) /\ IsFiniteSet(i .. j - 1)
  <2>1. \A k, l \in Int : IsFiniteSet(k .. l)
    BY FS_Interval
  <2> QED BY <2>1
<1>2. IsFiniteSet(A \ S) /\ IsFiniteSet(B)
  <2>1. A \ S \subseteq 0 .. i - 1 /\ B \subseteq i .. j - 1
    BY DEF Within
  <2> QED BY <1>1, <2>1, FS_Subset
<1>3. (A \cup B) \ S = (A \ S) \cup B /\ (A \ S) \cap B = {}
  <2>1. B \cap S = {} /\ A \cap B = {}
    BY DEF Within
  <2>2. (A \ S) \cap B = {}
    BY <2>1
  <2> QED BY <2>1, <2>2
<1>4. Cardinality((A \ S) \cup B) = Cardinality(A \ S) + Cardinality(B) - Cardinality((A \ S) \cap B)
  BY <1>2, FS_Union
<1>5. Cardinality((A \ S) \cap B) = 0
  BY <1>3, FS_EmptySet
<1>6. Cardinality(A \ S) \in Nat /\ Cardinality(B) \in Nat
  BY <1>2, FS_CardinalityType
<1>7. Cardinality((A \cup B) \ S) = Cardinality((A \ S) \cup B)
  BY <1>3
<1>8. Cardinality((A \cup B) \ S) = Cardinality(A \ S) + Cardinality(B) - 0
  BY <1>4, <1>5, <1>7
<1> QED BY <1>6, <1>8

LEMMA NewLineKeepsPlaces ==
  ASSUME LexerTypeOK, TokensInOrder, Places, NewLine
  PROVE  Places'
<1> DEFINE A == LineEnds(0, iterator)
           B == LineEnds(iterator, iterator')
           S == StringLineEnds(Len(stream) + 1)
<1>1. /\ ~IsFinished /\ At(iterator) = "\n" /\ iterator' = iterator + 1 /\ column' = 1
      /\ lineNumber' = lineNumber + 1 /\ source' = source
  BY DEF NewLine, Upcoming, Current
<1>2. iterator + 1 \in iterator .. Len(source) /\ iterator \in Nat
  BY <1>1, SourceLength
<1>3. Takes("NewLine", iterator + 1)
  <2>1. "NewLine" \in TokenKind
    BY PlainKinds DEF PlainKind
  <2> QED BY <1>1, <1>2, <2>1 DEF NewLine, Takes, Counts, LexerTypeOK
<1>4. B = {iterator}
  <2>1. iterator .. iterator' - 1 = {iterator}
    BY <1>1, <1>2
  <2> QED BY <1>1, <2>1 DEF LineEnds, PlacesOf
<1>5. /\ LineEnds(0, iterator)' = A \cup B /\ Within(A, 0, iterator)
      /\ Within(B, iterator, iterator')
      /\ iterator' \in Nat
  BY <1>1, <1>2, LineEndsGrow
<1>6. StringLineEnds(Len(stream) + 1)' = S
  <2>1. "NewLine" # "StringLiteral"
    OBVIOUS
  <2> QED BY <1>3, <2>1, TokenAdded
<1>7. Within(S, 0, iterator)
  BY TokensBehind
<1>8. lineNumber = 1 + Cardinality(A \ S)
  BY <1>1 DEF Places, IsPlace
<1> HIDE DEF A, B, S
<1>9. Cardinality((A \cup B) \ S) = Cardinality(A \ S) + 1 /\ Cardinality(A \ S) \in Nat
  <2>1. /\ Cardinality((A \cup B) \ S) = Cardinality(A \ S) + Cardinality(B)
        /\ Cardinality(A \ S) \in Nat
    BY <1>2, <1>5, <1>7, CountMore
  <2>2. Cardinality(B) = 1
    BY <1>4, FS_Singleton
  <2> QED BY <2>1, <2>2
<1>10. Behind(A \cup B) = iterator + 1
  <2>1. B # {}
    BY <1>4
  <2>2. Behind(A \cup B) = Max(B) + 1 /\ Max(B) \in B /\ Max(B) \in iterator .. iterator' - 1
    <3>1. /\ iterator \in Nat /\ iterator' \in Nat /\ Within(A, 0, iterator)
          /\ Within(B, iterator, iterator')
      BY <1>2, <1>5
    <3>2. Behind(Joined(A, B)) = Max(B) + 1 /\ Max(B) \in B /\ Max(B) \in iterator .. iterator' - 1
      BY <2>1, <3>1, BehindLater
    <3> QED BY <3>2 DEF Joined
  <2> QED BY <1>4, <2>2
<1>11. /\ lineNumber' = 1 + Cardinality((A \cup B) \ S)
       /\ column' = 1 + iterator' - Behind(A \cup B)
  BY <1>1, <1>2, <1>8, <1>9, <1>10
<1> QED BY <1>1, <1>5, <1>6, <1>11, PlacesBehind

\* Behind the last line end in a comment the columns count again, up to a word
\* that begins with #.
LEMMA CommentKeepsPlaces ==
  ASSUME LexerTypeOK, TokensInOrder, Places, ~IsFinished,
         Takes("Comment", iterator'), AdvanceOverComment(iterator'),
         iterator' \in iterator .. Len(source)
  PROVE  Places'
<1>0. PICK j \in Nat : iterator' = j
  BY SourceLength
<1> DEFINE A == LineEnds(0, iterator)
           B == LineEnds(iterator, j)
           S == StringLineEnds(Len(stream) + 1)
           C == InComments(Len(stream) + 1)
           from  == IF B = {} THEN iterator ELSE Max(B) + 1
           words == InPreProcessorWords(iterator, j) \cap from .. j - 1
           clean == \A k \in Behind(A \cup B) .. j - 1 :
                      ~(k \in InComments(Len(stream) + 1)' /\ At(k) = "#")
<1>1. source' = source
  BY DEF Takes, Counts
<1>2. /\ LineEnds(0, iterator)' = A \cup B /\ Within(A, 0, iterator)
      /\ Within(B, iterator, j)
      /\ iterator \in Nat /\ j \in Nat
      /\ \A k \in A \cup B : At(k) = "\n"
  BY <1>0, <1>1, LineEndsGrow
<1>3. /\ StringLineEnds(Len(stream) + 1)' = S
      /\ InComments(Len(stream) + 1)' = C \cup iterator .. j - 1
  <2>1. "Comment" # "StringLiteral"
    OBVIOUS
  <2> QED BY <1>0, <2>1, TokenAdded
<1>4. Within(S, 0, iterator)
  BY TokensBehind
<1>5. /\ lineNumber = 1 + Cardinality(A \ S)
      /\ /\ Behind(A) - 1 \notin S
         /\ \A k \in Behind(A) .. iterator - 1 : ~(k \in C /\ At(k) = "#")
         => column = 1 + iterator - Behind(A)
  BY DEF Places, IsPlace
<1>6. /\ lineNumber' = lineNumber + Cardinality(B)
      /\ column' = (IF B = {} THEN column ELSE 1) + (j - from) - Cardinality(words)
  BY <1>0 DEF AdvanceOverComment, LineEnds
<1>7. /\ iterator \in Nat /\ j \in Nat /\ Len(source) \in Nat /\ column \in Nat
      /\ iterator <= j /\ j <= Len(source)
  BY <1>0, <1>2, SourceLength DEF LexerTypeOK
<1>8. ASSUME NEW x \in words
      PROVE  \E h \in iterator .. j - 1 :
               At(h) = "#" /\ x \in h .. PreProcessorEnd(h) - 1 /\ x \in from .. j - 1
  BY DEF InPreProcessorWords, PlacesOf
<1>13. from = IF B = {} THEN iterator ELSE Max(B) + 1
  OBVIOUS
<1>14. clean <=> \A k \in Behind(A \cup B) .. j - 1 :
                   ~(k \in InComments(Len(stream) + 1)' /\ At(k) = "#")
  OBVIOUS
<1> HIDE DEF A, B, S, C, from, words, clean
<1>9. lineNumber' = 1 + Cardinality((A \cup B) \ S)
  <2>1. /\ Cardinality((A \cup B) \ S) = Cardinality(A \ S) + Cardinality(B)
        /\ Cardinality(A \ S) \in Nat /\ Cardinality(B) \in Nat
    BY <1>2, <1>4, CountMore
  <2> QED BY <1>5, <1>6, <2>1
<1>10. Behind(A) \in 0 .. iterator
  BY <1>2, BehindType
<1>11. CASE B = {}
  <2>1. A \cup B = A /\ from = iterator
    BY <1>11, <1>13
  <2>2. ASSUME clean
        PROVE  words = {}
    <3> SUFFICES ASSUME NEW x \in words PROVE FALSE
      OBVIOUS
    <3>1. PICK h \in iterator .. j - 1 : At(h) = "#"
      BY <1>8
    <3>2. h \in Behind(A) .. j - 1
      BY <1>7, <1>10, <3>1
    <3> QED BY <1>3, <1>14, <2>1, <2>2, <3>1, <3>2
  <2>3. \A k \in Behind(A) .. iterator - 1 : k \in Behind(A) .. j - 1
    BY <1>7, <1>10
  <2>4. ASSUME Behind(A) - 1 \notin S, clean
        PROVE  column' = 1 + j - Behind(A)
    <3>1. column = 1 + iterator - Behind(A)
      BY <1>3, <1>5, <1>14, <2>1, <2>3, <2>4
    <3>2. Cardinality(words) = 0
      BY <2>2, <2>4, FS_EmptySet
    <3>3. column' = column + (j - iterator) - 0
      BY <1>6, <1>11, <2>1, <3>2
    <3> QED BY <1>2, <1>7, <1>10, <3>1, <3>3
  <2> QED BY <1>1, <1>2, <1>3, <1>9, <1>14, <2>1, <2>4, <1>0, PlacesBehind
<1>12. CASE B # {}
  <2>1. /\ Behind(A \cup B) = Max(B) + 1 /\ Max(B) \in B
        /\ Max(B) \in iterator .. j - 1
    <3>1. /\ iterator \in Nat /\ j \in Nat /\ Within(A, 0, iterator)
          /\ Within(B, iterator, j)
      BY <1>2
    <3>2. B # {}
      BY <1>12
    <3>3. Behind(Joined(A, B)) = Max(B) + 1 /\ Max(B) \in B /\ Max(B) \in iterator .. j - 1
      BY <3>1, <3>2, BehindLater
    <3> QED BY <3>3 DEF Joined
  <2>2. from = Max(B) + 1 /\ At(Max(B)) = "\n"
    BY <1>2, <1>12, <1>13, <2>1
  <2>3. ASSUME clean
        PROVE  words = {}
    <3> SUFFICES ASSUME NEW x \in words PROVE FALSE
      OBVIOUS
    <3>1. PICK h \in iterator .. j - 1 :
            At(h) = "#" /\ x \in h .. PreProcessorEnd(h) - 1 /\ x \in from .. j - 1
      BY <1>8
    <3>2. CASE h > Max(B)
      <4>1. h \in Behind(A \cup B) .. j - 1
        BY <1>2, <2>1, <3>1, <3>2
      <4> QED BY <1>3, <1>14, <2>3, <3>1, <4>1
    <3>3. CASE h <= Max(B)
      <4>1. h # Max(B)
        BY <2>2, <3>1
      <4>2. h + 1 \in Nat /\ h + 1 <= Len(source)
        BY <1>7, <3>1
      <4>3. PreProcessorEnd(h) \in h + 1 .. Len(source)
            /\ \A k \in h + 1 .. PreProcessorEnd(h) - 1 : At(k) \in PPChar
        BY <4>2, EndOfRunIs DEF PreProcessorEnd
      <4>4. Max(B) \in h + 1 .. PreProcessorEnd(h) - 1
        BY <1>2, <2>1, <2>2, <3>1, <3>3, <4>1, <4>3
      <4> QED BY <2>2, <4>3, <4>4, NoLineEnd
    <3> QED BY <1>2, <2>1, <3>1, <3>2, <3>3
  <2>4. ASSUME clean
        PROVE  column' = 1 + j - Behind(A \cup B)
    <3>1. Cardinality(words) = 0
      BY <2>3, <2>4, FS_EmptySet
    <3>2. column' = 1 + (j - from) - 0
      BY <1>6, <1>12, <3>1
    <3> QED BY <1>2, <2>1, <2>2, <3>2
  <2> QED BY <1>1, <1>2, <1>3, <1>9, <1>14, <2>4, <1>0, PlacesBehind
<1> QED BY <1>11, <1>12

\* What a turn does to the source, the iterator and the stream.
LEMMA TurnMoves ==
  ASSUME LexerTypeOK, GetNextToken
  PROVE  /\ ~IsFinished /\ source' = source
         /\ iterator' \in iterator .. Len(source)
         /\ UNCHANGED stream \/ \E kind : Takes(kind, iterator')
<1>1. \/ Passes \/ Swallows
      \/ \E kind, end : Takes(kind, end)
  BY FormOfTurn DEF TakesPlain, TakesDirective, TakesComment
<1>2. CASE Passes
  BY <1>2, SourceLength DEF Passes, Counts
<1>3. CASE Swallows
  BY <1>3, SourceLength DEF Swallows, Counts
<1>4. CASE \E kind, end : Takes(kind, end)
  BY <1>4 DEF Takes, Counts
<1> QED BY <1>1, <1>2, <1>3, <1>4

LEMMA PlacesKept ==
  ASSUME LexerTypeOK, TokensInOrder, Places, GetNextToken
  PROVE  Places'
<1>1. /\ ~IsFinished /\ source' = source
      /\ iterator' \in iterator .. Len(source)
      /\ UNCHANGED stream \/ \E kind : Takes(kind, iterator')
  BY TurnMoves
<1>2. ASSUME AlongLine PROVE Places'
  BY <1>1, <1>2, AlongKeepsPlaces
<1>3. CASE StringLiteral
  BY <1>1, <1>3, StringMoves, StringKeepsPlaces
<1>4. CASE NewLine
  BY <1>4, NewLineKeepsPlaces
<1>5. CASE MultiLineComment
  <2>1. PICK end \in CommentEnds(iterator) : Takes("Comment", end)
    BY <1>5, CommentBranch DEF TakesComment
  <2>2. Takes("Comment", iterator')
    BY <2>1 DEF Takes
  <2>3. AdvanceOverComment(iterator')
    BY <1>5 DEF MultiLineComment
  <2> QED BY <1>1, <2>2, <2>3, CommentKeepsPlaces
<1>6. CASE UnterminatedComment \/ UnterminatedString
  <2>1. IsFinished'
    BY <1>6 DEF UnterminatedComment, UnterminatedString, IsFinished
  <2> QED BY <2>1 DEF Places
<1> QED BY <1>2, <1>3, <1>4, <1>5, <1>6, OneCharacterMoves, RunMoves, HexMoves, DecimalMoves,
           OperatorMoves, LineCommentMoves DEF GetNextToken

LEMMA TakenPlace ==
  ASSUME LexerTypeOK, NEW kind, NEW end, Takes(kind, end)
  PROVE  /\ stream'[Len(stream) + 1].line = lineNumber
         /\ stream'[Len(stream) + 1].column = column
<1> DEFINE t == Token(kind, end)
<1>1. t \in Tokens /\ stream' = Append(stream, t)
  BY TokenType DEF Takes
<1>2. t.line = lineNumber /\ t.column = column
  BY DEF Token
<1>3. stream \in Seq(Tokens)
  BY Offsets
<1> HIDE DEF t
<1>4. stream'[Len(stream) + 1] = t
  BY <1>1, <1>3
<1> QED BY <1>2, <1>4

LEMMA NewestKept ==
  ASSUME LexerTypeOK, Places, NewestPlaced, GetNextToken
  PROVE  NewestPlaced'
<1>1. /\ ~IsFinished /\ source' = source
      /\ UNCHANGED stream \/ \E kind : Takes(kind, iterator')
  BY TurnMoves
<1>2. CASE UNCHANGED stream
  <2>1. SUFFICES ASSUME stream # <<>> PROVE NewestPlaced'
    BY <1>2 DEF NewestPlaced
  <2> DEFINE n == Len(stream)
             t == stream[n]
  <2>2. IsPlace(t.begin, t.line, t.column, LineEnds(0, t.begin), StringLineEnds(n), InComments(n))
    BY <2>1 DEF NewestPlaced
  <2>3. /\ StringLineEnds(Len(stream))' = StringLineEnds(n)
        /\ InComments(Len(stream))' = InComments(n)
    BY <1>1, <1>2, <2>1, TokensStay
  <2>4. LineEnds(0, stream[Len(stream)].begin)' = LineEnds(0, t.begin)
    BY <1>1, <1>2 DEF LineEnds, PlacesOf, At
  <2> QED BY <1>1, <1>2, <2>2, <2>3, <2>4 DEF NewestPlaced, IsPlace, At
<1>3. ASSUME NEW kind, Takes(kind, iterator')
      PROVE  NewestPlaced'
  <2> DEFINE m == Len(stream)
  <2>1. /\ stream'[m + 1].begin = iterator /\ stream'[m + 1].line = lineNumber
        /\ stream'[m + 1].column = column /\ Len(stream') = m + 1
    BY <1>3, Taken, TakenPlace
  <2>2. IsPlace(iterator, lineNumber, column, LineEnds(0, iterator),
                StringLineEnds(m + 1), InComments(m + 1))
    BY <1>1 DEF Places
  <2>3. /\ StringLineEnds(Len(stream))' = StringLineEnds(m + 1)
        /\ InComments(Len(stream))' = InComments(m + 1)
    BY <1>3, TokenAdded
  <2>4. LineEnds(0, stream[Len(stream)].begin)' = LineEnds(0, iterator)
    BY <1>1, <2>1 DEF LineEnds, PlacesOf, At
  <2> HIDE DEF m
  <2> QED BY <1>1, <2>1, <2>2, <2>3, <2>4 DEF NewestPlaced, IsPlace, At
<1> QED BY <1>1, <1>2, <1>3

\* What the invariant says of the newest token is what the properties say.
LEMMA PlacedTells ==
  ASSUME LexerTypeOK, NewestPlaced
  PROVE  LinesLagByStrings /\ ColumnsTell
<1> SUFFICES ASSUME NEW n \in Newest
             PROVE  LET ends == LineEnds(0, stream[n].begin)
                    IN  IsPlace(stream[n].begin, stream[n].line, stream[n].column, ends,
                                StringLineEnds(n), InComments(n))
  <2>1. ASSUME NEW n \in Newest,
               IsPlace(stream[n].begin, stream[n].line, stream[n].column,
                       LineEnds(0, stream[n].begin), StringLineEnds(n), InComments(n))
        PROVE  /\ stream[n].line = 1 + Cardinality(LineEnds(0, stream[n].begin) \ StringLineEnds(n))
               /\ LET from == Behind(LineEnds(0, stream[n].begin))
                  IN  /\ from - 1 \notin StringLineEnds(n)
                      /\ PlacesOf({"#"}, from, stream[n].begin) \cap InComments(n) = {}
                      => stream[n].column = 1 + stream[n].begin - from
    BY <2>1 DEF IsPlace, PlacesOf
  <2> QED BY <2>1 DEF LinesLagByStrings, ColumnsTell, InComments, Behind
<1>1. n = Len(stream) /\ stream # <<>>
  BY DEF Newest
<1> QED BY <1>1 DEF NewestPlaced

-----------------------------------------------------------------------------
(* Tokens are as long as they can be.                                      *)

IsName(i, j)      == At(i) \in IdentifierChar \ Digit /\ AllIn(IdentifierChar, i, j)
IsDirective(i, j) == At(i) = "#" /\ AllIn(PPChar, i + 1, j)
IsMacro(i, j)     == At(i) = "@" /\ AllIn(IdentifierChar, i + 1, j)
IsVariable(i, j)  == At(i) = "$" /\ i + 1 < j /\ AllIn(IdentifierChar, i + 1, j)
IsInteger(i, j) ==
  \/ AllIn(Digit, i, j)
  \/ i + 1 < j /\ At(i) = "0" /\ At(i + 1) \in {"x", "X"} /\ AllIn(HexDigit, i + 2, j)
IsFloat(i, j) ==
  \E k \in i .. j - 2 : At(k) = "." /\ AllIn(Digit, i, k) /\ AllIn(Digit, k + 1, j)
IsString(i, j) ==
  /\ i + 1 < j /\ At(i) \in Quote /\ At(j - 1) = At(i)
  /\ At(i) \notin {At(k) : k \in i + 1 .. j - 2}
IsOperator(i, j) == LookupOperator(Slice(i, j)) # "NotAToken"

LEMMA FormsAre ==
  ASSUME NEW i, NEW j
  PROVE  /\ "name" \in Forms(i, j)      <=> IsName(i, j)
         /\ "directive" \in Forms(i, j) <=> IsDirective(i, j)
         /\ "macro" \in Forms(i, j)     <=> IsMacro(i, j)
         /\ "variable" \in Forms(i, j)  <=> IsVariable(i, j)
         /\ "integer" \in Forms(i, j)   <=> IsInteger(i, j)
         /\ "float" \in Forms(i, j)     <=> IsFloat(i, j)
         /\ "string" \in Forms(i, j)    <=> IsString(i, j)
         /\ "operator" \in Forms(i, j)  <=> IsOperator(i, j)
         /\ Forms(i, j) \subseteq {"name", "directive", "macro", "variable", "integer", "float",
                                   "string", "operator"}
<1>1. "name" \in Forms(i, j) <=> IsName(i, j)
  BY DEF Forms, IsName
<1>2. "directive" \in Forms(i, j) <=> IsDirective(i, j)
  BY DEF Forms, IsDirective
<1>3. "macro" \in Forms(i, j) <=> IsMacro(i, j)
  BY DEF Forms, IsMacro
<1>4. "variable" \in Forms(i, j) <=> IsVariable(i, j)
  BY DEF Forms, IsVariable
<1>5. "integer" \in Forms(i, j) <=> IsInteger(i, j)
  BY DEF Forms, IsInteger
<1>6. "float" \in Forms(i, j) <=> IsFloat(i, j)
  BY DEF Forms, IsFloat
<1>7. "string" \in Forms(i, j) <=> IsString(i, j)
  BY DEF Forms, IsString
<1>8. "operator" \in Forms(i, j) <=> IsOperator(i, j)
  BY DEF Forms, IsOperator
<1>9. Forms(i, j) \subseteq {"name", "directive", "macro", "variable", "integer", "float",
                             "string", "operator"}
  BY DEF Forms
<1> QED BY <1>1, <1>2, <1>3, <1>4, <1>5, <1>6, <1>7, <1>8, <1>9

\* The text of an operator: one character, or two.
OperatorTexts ==
  {<<c>> : c \in TwoPartOperator \cup SingleOperator}
    \cup {<<c, "=">> : c \in TwoPartOperator} \cup {<<"<", ">">>}

LEMMA OperatorHasText ==
  ASSUME NEW text
  PROVE  LookupOperator(text) # "NotAToken" <=> text \in OperatorTexts
<1>1. text \notin OperatorTexts => LookupOperator(text) = "NotAToken"
  BY DEF LookupOperator, OperatorTexts, TwoPartOperator, SingleOperator
<1>2. text \in OperatorTexts => LookupOperator(text) # "NotAToken"
  BY DEF LookupOperator, OperatorTexts, TwoPartOperator, SingleOperator
<1> QED BY <1>1, <1>2

LEMMA SliceIs ==
  ASSUME LexerTypeOK, NEW i \in Nat, NEW j \in i + 1 .. Len(source)
  PROVE  /\ Slice(i, j) \in Seq(Character) /\ Len(Slice(i, j)) = j - i
         /\ \A k \in 1 .. j - i : Slice(i, j)[k] = At(i + k - 1)
<1>1. source \in Seq(Character) /\ Len(source) \in Nat
  BY SourceLength DEF LexerTypeOK
<1>2. \A k \in i + 1 .. j : source[k] \in Character
  BY <1>1
<1>3. /\ SubSeq(source, i + 1, j) \in Seq(Character)
      /\ Len(SubSeq(source, i + 1, j)) = j - i
      /\ \A k \in 1 .. j - i : SubSeq(source, i + 1, j)[k] = source[i + k]
  BY <1>1, <1>2
<1>4. \A k \in 1 .. j - i : i + k - 1 + 1 = i + k
  OBVIOUS
<1> QED BY <1>3, <1>4 DEF Slice, At

LEMMA OperatorForm ==
  ASSUME LexerTypeOK, NEW i \in Nat, NEW j \in i + 1 .. Len(source)
  PROVE  IsOperator(i, j) <=>
           \/ j = i + 1 /\ At(i) \in TwoPartOperator \cup SingleOperator
           \/ j = i + 2 /\ At(i) \in TwoPartOperator /\ At(i + 1) = "="
           \/ j = i + 2 /\ At(i) = "<" /\ At(i + 1) = ">"
<1> DEFINE text == Slice(i, j)
<1>1. /\ text \in Seq(Character) /\ Len(text) = j - i
      /\ \A k \in 1 .. j - i : text[k] = At(i + k - 1)
  BY SliceIs
<1>2. IsOperator(i, j) <=> text \in OperatorTexts
  BY OperatorHasText DEF IsOperator
<1>3. i + 1 - 1 = i /\ i + 2 - 1 = i + 1
  OBVIOUS
<1> HIDE DEF text
<1>4. CASE j = i + 1
  <2>1. Len(text) = 1 /\ text[1] = At(i)
    BY <1>1, <1>3, <1>4
  <2>2. text = <<At(i)>>
    BY <1>1, <2>1
  <2>3. text \in OperatorTexts <=> At(i) \in TwoPartOperator \cup SingleOperator
    BY <2>2 DEF OperatorTexts
  <2> QED BY <1>2, <1>4, <2>3
<1>5. CASE j = i + 2
  <2>1. Len(text) = 2 /\ text[1] = At(i) /\ text[2] = At(i + 1)
    BY <1>1, <1>3, <1>5
  <2>2. text = <<At(i), At(i + 1)>>
    BY <1>1, <2>1
  <2>3. text \in OperatorTexts <=>
          \/ At(i) \in TwoPartOperator /\ At(i + 1) = "="
          \/ At(i) = "<" /\ At(i + 1) = ">"
    BY <2>2 DEF OperatorTexts
  <2> QED BY <1>2, <1>5, <2>3
<1>6. CASE j # i + 1 /\ j # i + 2
  <2>1. Len(text) # 1 /\ Len(text) # 2
    BY <1>1, <1>6
  <2>2. \A t \in OperatorTexts : Len(t) = 1 \/ Len(t) = 2
    BY DEF OperatorTexts
  <2> QED BY <1>2, <1>6, <2>1, <2>2
<1> QED BY <1>4, <1>5, <1>6

\* The first character tells which forms a text may have.
LEMMA FirstTells ==
  ASSUME LexerTypeOK, NEW i \in Nat, NEW j \in i + 1 .. Len(source),
         At(i) \in IdentifierChar \ Digit => ~IsName(i, j),
         At(i) = "#" => ~IsDirective(i, j),
         At(i) = "@" => ~IsMacro(i, j),
         At(i) = "$" => ~IsVariable(i, j),
         At(i) \in Digit \cup {"."} => ~IsInteger(i, j) /\ ~IsFloat(i, j),
         At(i) \in Quote => ~IsString(i, j),
         At(i) \in TwoPartOperator \cup SingleOperator => ~IsOperator(i, j)
  PROVE  Forms(i, j) = {}
<1>1. ~IsName(i, j) /\ ~IsDirective(i, j) /\ ~IsMacro(i, j) /\ ~IsVariable(i, j) /\ ~IsString(i, j)
  BY DEF IsName, IsDirective, IsMacro, IsVariable, IsString
<1>2. i \in i .. j - 1
  OBVIOUS
<1>3. ~IsInteger(i, j)
  <2> SUFFICES ASSUME IsInteger(i, j) PROVE At(i) \in Digit
    OBVIOUS
  <2> QED BY <1>2 DEF IsInteger, AllIn, Digit
<1>4. ~IsFloat(i, j)
  <2> SUFFICES ASSUME NEW k \in i .. j - 2, At(k) = ".", AllIn(Digit, i, k)
               PROVE  At(i) \in Digit \cup {"."}
    BY DEF IsFloat
  <2>1. i = k \/ i \in i .. k - 1
    OBVIOUS
  <2> QED BY <2>1 DEF AllIn
<1>5. ~IsOperator(i, j)
  <2> SUFFICES ASSUME IsOperator(i, j) PROVE At(i) \in TwoPartOperator \cup SingleOperator
    OBVIOUS
  <2> QED BY OperatorForm DEF TwoPartOperator
<1> QED BY <1>1, <1>3, <1>4, <1>5, FormsAre
\* The characters a token may begin with, by the forms it may have.
LEMMA Classes ==
  ASSUME NEW c
  PROVE  /\ c \in IdentifierChar \ Digit =>
              c \notin {"#", "@", "$", "."} \cup Digit \cup Quote \cup TwoPartOperator \cup SingleOperator
         /\ c \in Digit \cup {"."} =>
              c \notin {"#", "@", "$"} \cup Quote \cup TwoPartOperator \cup SingleOperator
         /\ c \in Quote => c \notin {"#", "@", "$"} \cup TwoPartOperator \cup SingleOperator
         /\ c \in TwoPartOperator \cup SingleOperator => c \notin {"#", "@", "$"}
         /\ c \in {"#", "@", "$"} => c \notin IdentifierChar
<1>1. c \in IdentifierChar \ Digit =>
        c \notin {"#", "@", "$", "."} \cup Digit \cup Quote \cup TwoPartOperator \cup SingleOperator
  BY Letters DEF IdentifierChar, AlphaNumeric, Quote, TwoPartOperator, SingleOperator
<1>2. c \in Digit \cup {"."} =>
        c \notin {"#", "@", "$"} \cup Quote \cup TwoPartOperator \cup SingleOperator
  BY DEF Digit, Quote, TwoPartOperator, SingleOperator
<1>3. c \in Quote => c \notin {"#", "@", "$"} \cup TwoPartOperator \cup SingleOperator
  BY DEF Quote, TwoPartOperator, SingleOperator
<1>4. c \in TwoPartOperator \cup SingleOperator => c \notin {"#", "@", "$"}
  BY DEF TwoPartOperator, SingleOperator
<1>5. c \in {"#", "@", "$"} => c \notin IdentifierChar
  BY Letters DEF IdentifierChar, AlphaNumeric, Digit
<1> QED BY <1>1, <1>2, <1>3, <1>4, <1>5

\* The kinds that say the form by themselves.
FormKinds == {"VariableIdentifier", "IntegerLiteral", "FloatLiteral", "StringLiteral", "Macro"}

LEMMA OtherKinds ==
  ASSUME NEW word
  PROVE  /\ LookupIdentifier(word) \notin FormKinds \cup {"NotAToken"}
         /\ LookupPreProcessor(word) \notin FormKinds
         /\ LookupOperator(word) \notin FormKinds
<1>1. word \in DOMAIN KeyWord => KeyWord[word] \notin FormKinds \cup {"NotAToken"}
  BY DEF KeyWord, FormKinds
<1>2. LookupIdentifier(word) \notin FormKinds \cup {"NotAToken"}
  BY <1>1 DEF LookupIdentifier, FormKinds
<1>3. LookupPreProcessor(word) \notin FormKinds
  BY DEF LookupPreProcessor, FormKinds
<1>4. LookupOperator(word) \notin FormKinds
  BY DEF LookupOperator, FormKinds
<1> QED BY <1>2, <1>3, <1>4

\* A run of characters is the longest text of them.
LEMMA RunIsLongest ==
  ASSUME LexerTypeOK, NEW S, NEW i \in Nat, i <= Len(source)
  PROVE  LET end == EndOfRun(S, i)
         IN  /\ end \in i .. Len(source) /\ AllIn(S, i, end)
             /\ \A j \in end + 1 .. Len(source) : ~AllIn(S, i, j)
<1> DEFINE end == EndOfRun(S, i)
<1>1. /\ end \in i .. Len(source)
      /\ \A k \in i .. end - 1 : At(k) \in S
      /\ end < Len(source) => At(end) \notin S
  BY EndOfRunIs
<1> HIDE DEF end
<1>2. \A j \in end + 1 .. Len(source) : end \in i .. j - 1 /\ end < Len(source)
  BY <1>1, SourceLength
<1> QED BY <1>1, <1>2 DEF AllIn, end

\* A token is of the form its kind says, and nothing longer has any form.
Longest(kind, i, j) ==
  kind \notin {"Garbage", "Comment", "NewLine"} /\ At(i) \notin Punctuation =>
    /\ FormOf(kind, i) \in Forms(i, j)
    /\ \A k \in j + 1 .. Len(source) : Forms(i, k) = {}

LEMMA NewestIsLongest ==
  ASSUME LexerTypeOK, NEW kind \in TokenKind, NEW end \in iterator .. Len(source),
         source' = source, stream' = Append(stream, Token(kind, end)),
         Longest(kind, iterator, end)
  PROVE  LongestTokens'
<1> DEFINE t == Token(kind, end)
<1>1. t \in Tokens /\ stream \in Seq(Tokens)
  BY TokenType, Offsets
<1>2. t.kind = kind /\ t.begin = iterator /\ t.end = end
  BY DEF Token
<1> HIDE DEF t
<1>3. stream' = Append(stream, t)
  BY DEF t
<1>4. Len(stream') = Len(stream) + 1 /\ stream'[Len(stream) + 1] = t
  BY <1>1, <1>3
<1>5. \A i, j : Forms(i, j)' = Forms(i, j)
  BY DEF Forms, AllIn, At, Slice
<1> QED BY <1>2, <1>4, <1>5 DEF LongestTokens, Longest, Newest, FormOf, At

LEMMA LongestName ==
  ASSUME LexerTypeOK, Identifier
  PROVE  LongestTokens'
<1> DEFINE end  == EndOfRun(IdentifierChar, iterator)
           kind == LookupIdentifier(FoldedText(iterator, end))
<1>1. /\ Current \in IdentifierChar \ Digit
      /\ source' = source /\ stream' = Append(stream, Token(kind, end))
  BY DEF Identifier, Upcoming, Emit
<1>2. iterator \in Nat /\ iterator <= Len(source) /\ Len(source) \in Nat
  BY SourceLength
<1>3. /\ end \in iterator .. Len(source) /\ AllIn(IdentifierChar, iterator, end)
      /\ \A j \in end + 1 .. Len(source) : ~AllIn(IdentifierChar, iterator, j)
  BY <1>2, RunIsLongest
<1>4. kind \in TokenKind /\ kind \notin FormKinds /\ kind # "NotAToken"
  BY IdentifierKind, OtherKinds DEF PlainKind
<1> HIDE DEF end, kind
<1>5. FormOf(kind, iterator) = "name"
  BY <1>1, <1>4, Classes DEF FormOf, FormKinds, Current
<1>6. "name" \in Forms(iterator, end)
  BY <1>1, <1>3, FormsAre DEF IsName, Current
<1>7. ASSUME NEW j \in end + 1 .. Len(source)
      PROVE  Forms(iterator, j) = {}
  <2>1. j \in iterator + 1 .. Len(source)
    BY <1>2, <1>3
  <2>2. ~IsName(iterator, j)
    BY <1>3 DEF IsName
  <2> QED BY <1>1, <1>2, <2>1, <2>2, Classes, FirstTells DEF Current
<1> QED BY <1>1, <1>3, <1>4, <1>5, <1>6, <1>7, NewestIsLongest DEF Longest

LEMMA LongestMacro ==
  ASSUME LexerTypeOK, Macro
  PROVE  LongestTokens'
<1> DEFINE end  == EndOfRun(IdentifierChar, iterator + 1)
           kind == LookupMacro(FoldedText(iterator, end))
<1>1. /\ Current = "@" /\ ~IsFinished
      /\ source' = source /\ stream' = Append(stream, Token(kind, end))
  BY DEF Macro, Upcoming, Emit
<1>2. /\ iterator \in Nat /\ iterator + 1 \in Nat /\ Len(source) \in Nat
      /\ iterator + 1 <= Len(source)
  BY <1>1, SourceLength
<1>3. /\ end \in iterator + 1 .. Len(source) /\ AllIn(IdentifierChar, iterator + 1, end)
      /\ \A j \in end + 1 .. Len(source) : ~AllIn(IdentifierChar, iterator + 1, j)
  BY <1>2, RunIsLongest
<1>4. kind \in TokenKind /\ kind \in {"Macro", "NotAToken"}
  BY MacroKind DEF PlainKind, LookupMacro
<1> HIDE DEF end, kind
<1>5. FormOf(kind, iterator) = "macro"
  BY <1>1, <1>4 DEF FormOf, Current, TwoPartOperator, SingleOperator
<1>6. "macro" \in Forms(iterator, end)
  BY <1>1, <1>3, FormsAre DEF IsMacro, Current
<1>7. ASSUME NEW j \in end + 1 .. Len(source)
      PROVE  Forms(iterator, j) = {}
  <2>1. j \in iterator + 1 .. Len(source)
    BY <1>2, <1>3
  <2>2. ~IsMacro(iterator, j)
    BY <1>3 DEF IsMacro
  <2>3. At(iterator) = "@"
    BY <1>1 DEF Current
  <2> QED BY <1>2, <2>1, <2>2, <2>3, Classes, FirstTells
<1>8. end \in iterator .. Len(source)
  BY <1>2, <1>3
<1> QED BY <1>1, <1>4, <1>5, <1>6, <1>7, <1>8, NewestIsLongest DEF Longest

LEMMA LongestVariable ==
  ASSUME LexerTypeOK, VariableIdentifier
  PROVE  LongestTokens'
<1> DEFINE end  == EndOfRun(IdentifierChar, iterator + 1)
           kind == IF end = iterator + 1 THEN "Garbage" ELSE "VariableIdentifier"
<1>1. /\ Current = "$" /\ ~IsFinished
      /\ source' = source /\ stream' = Append(stream, Token(kind, end))
  BY DEF VariableIdentifier, Upcoming, Emit
<1>2. /\ iterator \in Nat /\ iterator + 1 \in Nat /\ Len(source) \in Nat
      /\ iterator + 1 <= Len(source)
  BY <1>1, SourceLength
<1>3. /\ end \in iterator + 1 .. Len(source) /\ AllIn(IdentifierChar, iterator + 1, end)
      /\ \A j \in end + 1 .. Len(source) : ~AllIn(IdentifierChar, iterator + 1, j)
  BY <1>2, RunIsLongest
<1>4. kind \in TokenKind
  BY PlainKinds DEF PlainKind
<1>5. kind = "Garbage" \/ (kind = "VariableIdentifier" /\ end # iterator + 1)
  OBVIOUS
<1> HIDE DEF end, kind
<1>6. kind = "VariableIdentifier" => FormOf(kind, iterator) = "variable"
  BY <1>1 DEF FormOf, Current, TwoPartOperator, SingleOperator
<1>7. end # iterator + 1 => "variable" \in Forms(iterator, end)
  <2>1. end # iterator + 1 => iterator + 1 < end
    BY <1>2, <1>3
  <2> QED BY <1>1, <1>3, <2>1, FormsAre DEF IsVariable, Current
<1>8. ASSUME NEW j \in end + 1 .. Len(source)
      PROVE  Forms(iterator, j) = {}
  <2>1. j \in iterator + 1 .. Len(source)
    BY <1>2, <1>3
  <2>2. ~IsVariable(iterator, j)
    BY <1>3 DEF IsVariable
  <2>3. At(iterator) = "$"
    BY <1>1 DEF Current
  <2> QED BY <1>2, <2>1, <2>2, <2>3, Classes, FirstTells
<1>9. end \in iterator .. Len(source)
  BY <1>2, <1>3
<1> QED BY <1>1, <1>4, <1>5, <1>6, <1>7, <1>8, <1>9, NewestIsLongest DEF Longest

LEMMA LongestDirective ==
  ASSUME LexerTypeOK, PreProcessor
  PROVE  LongestTokens'
<1> DEFINE end  == PreProcessorEnd(iterator)
           kind == PreProcessorKind(iterator)
<1>1. /\ Current = "#" /\ ~IsFinished
      /\ source' = source /\ stream' = Append(stream, Token(kind, end))
  BY DEF PreProcessor, Upcoming, Emit
<1>2. /\ iterator \in Nat /\ iterator + 1 \in Nat /\ Len(source) \in Nat
      /\ iterator + 1 <= Len(source)
  BY <1>1, SourceLength
<1>3. /\ end \in iterator + 1 .. Len(source) /\ AllIn(PPChar, iterator + 1, end)
      /\ \A j \in end + 1 .. Len(source) : ~AllIn(PPChar, iterator + 1, j)
  BY <1>2, RunIsLongest DEF PreProcessorEnd
<1>4. kind \in TokenKind /\ kind \notin FormKinds
  BY PreProcessorKindType, OtherKinds DEF PreProcessorKind
<1> HIDE DEF end, kind
<1>5. FormOf(kind, iterator) = "directive"
  BY <1>1, <1>4 DEF FormOf, Current, FormKinds, TwoPartOperator, SingleOperator
<1>6. "directive" \in Forms(iterator, end)
  BY <1>1, <1>3, FormsAre DEF IsDirective, Current
<1>7. ASSUME NEW j \in end + 1 .. Len(source)
      PROVE  Forms(iterator, j) = {}
  <2>1. j \in iterator + 1 .. Len(source)
    BY <1>2, <1>3
  <2>2. ~IsDirective(iterator, j)
    BY <1>3 DEF IsDirective
  <2>3. At(iterator) = "#"
    BY <1>1 DEF Current
  <2> QED BY <1>2, <2>1, <2>2, <2>3, Classes, FirstTells
<1>8. end \in iterator .. Len(source)
  BY <1>2, <1>3
<1> QED BY <1>1, <1>4, <1>5, <1>6, <1>7, <1>8, NewestIsLongest DEF Longest

LEMMA LongestString ==
  ASSUME LexerTypeOK, StringLiteral
  PROVE  LongestTokens'
<1> DEFINE closing == PlacesOf({Current}, iterator + 1, Len(source))
           last    == Min(closing)
           kind    == "StringLiteral"
<1>1. /\ Current \in Quote /\ ~IsFinished /\ closing # {}
      /\ source' = source /\ stream' = Append(stream, Token(kind, last + 1))
  BY DEF StringLiteral, Upcoming, Emit
<1>2. /\ iterator \in Nat /\ iterator + 1 \in Nat /\ Len(source) \in Nat
      /\ iterator + 1 <= Len(source)
  BY <1>1, SourceLength
<1>3. closing \in SUBSET (iterator + 1 .. Len(source) - 1) /\ closing \in SUBSET Nat
  BY <1>2 DEF PlacesOf
<1>4. last \in closing /\ \A k \in closing : last <= k
  <2> HIDE DEF closing
  <2> QED BY <1>1, <1>3, MinLeast
<1>5. last \in iterator + 1 .. Len(source) - 1 /\ At(last) = Current
  BY <1>2, <1>4 DEF PlacesOf
<1>6. \A k \in iterator + 1 .. last - 1 : At(k) # Current
  <2> SUFFICES ASSUME NEW k \in iterator + 1 .. last - 1, At(k) = Current PROVE FALSE
    OBVIOUS
  <2> HIDE DEF last
  <2>1. k \in iterator + 1 .. Len(source) - 1 /\ k < last
    BY <1>2, <1>5
  <2>2. k \in closing
    BY <2>1 DEF PlacesOf
  <2> HIDE DEF closing
  <2> QED BY <1>2, <1>4, <1>5, <2>1, <2>2
<1> HIDE DEF last, closing
<1>7. kind \in TokenKind
  BY PlainKinds DEF PlainKind
<1>8. FormOf(kind, iterator) = "string"
  BY <1>1, Classes DEF FormOf, Current
<1>9. IsString(iterator, last + 1)
  <2>1. iterator + 1 < last + 1 /\ last + 1 - 1 = last /\ last + 1 - 2 = last - 1
    BY <1>2, <1>5
  <2> QED BY <1>1, <1>5, <1>6, <2>1 DEF IsString, Current
<1>10. ASSUME NEW j \in last + 1 + 1 .. Len(source)
       PROVE  Forms(iterator, j) = {}
  <2>1. j \in iterator + 1 .. Len(source) /\ last \in iterator + 1 .. j - 2
    BY <1>2, <1>5
  <2>2. ~IsString(iterator, j)
    BY <1>5, <2>1 DEF IsString, Current
  <2> QED BY <1>1, <1>2, <2>1, <2>2, Classes, FirstTells DEF Current
<1>11. last + 1 \in iterator .. Len(source)
  BY <1>2, <1>5
<1>12. "string" \in Forms(iterator, last + 1)
  BY <1>9, FormsAre
<1> QED BY <1>1, <1>7, <1>8, <1>10, <1>11, <1>12, NewestIsLongest DEF Longest

LEMMA LongestHex ==
  ASSUME LexerTypeOK, HexLiteral
  PROVE  LongestTokens'
<1> DEFINE i    == iterator
           end  == EndOfRun(HexDigit, i + 2)
           kind == "IntegerLiteral"
<1>1. /\ At(i) = "0" /\ i + 1 < Len(source) /\ At(i + 1) \in {"x", "X"}
      /\ source' = source /\ stream' = Append(stream, Token(kind, end))
  BY DEF HexLiteral, Upcoming, IsAt, Emit, Current
<1>2. i \in Nat /\ Len(source) \in Nat /\ i + 2 \in Nat /\ i + 2 <= Len(source)
  BY <1>1, SourceLength
<1>3. /\ end \in i + 2 .. Len(source) /\ AllIn(HexDigit, i + 2, end)
      /\ \A j \in end + 1 .. Len(source) : ~AllIn(HexDigit, i + 2, j)
  BY <1>2, RunIsLongest
<1> HIDE DEF end
<1>4. kind \in TokenKind /\ end \in i .. Len(source)
  BY <1>2, <1>3, PlainKinds DEF PlainKind
<1>5. FormOf(kind, i) = "integer"
  BY <1>1 DEF FormOf, TwoPartOperator, SingleOperator
<1>6. "integer" \in Forms(i, end)
  <2>1. i + 1 < end
    BY <1>2, <1>3
  <2> QED BY <1>1, <1>3, <2>1, FormsAre DEF IsInteger
<1>7. At(i) \in Digit /\ At(i) # "." /\ At(i + 1) \notin Digit \cup {"."}
  BY <1>1 DEF Digit
<1>8. ASSUME NEW j \in end + 1 .. Len(source)
      PROVE  Forms(i, j) = {}
  <2>1. j \in i + 1 .. Len(source) /\ i + 1 \in i .. j - 1
    BY <1>2, <1>3
  <2>2. ~IsInteger(i, j)
    BY <1>3, <1>7, <2>1 DEF IsInteger, AllIn
  <2>3. ~IsFloat(i, j)
    <3> SUFFICES ASSUME NEW k \in i .. j - 2, At(k) = ".", AllIn(Digit, i, k) PROVE FALSE
      BY DEF IsFloat
    <3>1. k # i /\ k # i + 1
      BY <1>7
    <3>2. i + 1 \in i .. k - 1
      BY <1>2, <2>1, <3>1
    <3> QED BY <1>7, <3>2 DEF AllIn
  <2> QED BY <1>2, <1>7, <2>1, <2>2, <2>3, Classes, FirstTells
<1> QED BY <1>1, <1>4, <1>5, <1>6, <1>8, NewestIsLongest DEF Longest

\* Numbers without a hexadecimal mark: what begins with a digit or a dot is an
\* integer of digits, or digits around a dot that is the first character that
\* is no digit.
LEMMA DecimalForm ==
  ASSUME LexerTypeOK, NEW i \in Nat, NEW j \in i + 1 .. Len(source),
         ~(At(i) = "0" /\ IsAt({"x", "X"}, i + 1)),
         NEW whole \in i .. j - 1, At(whole) \notin Digit,
         \A k \in i .. whole - 1 : At(k) \in Digit
  PROVE  /\ ~IsInteger(i, j)
         /\ IsFloat(i, j) =>
              whole < j - 1 /\ At(whole) = "." /\ AllIn(Digit, whole + 1, j)
<1>1. ~IsInteger(i, j)
  <2>1. i + 1 < j => i + 1 < Len(source)
    BY SourceLength
  <2> QED BY <2>1 DEF IsInteger, AllIn, IsAt
<1>2. ASSUME NEW k \in i .. j - 2, At(k) = ".", AllIn(Digit, i, k), AllIn(Digit, k + 1, j)
      PROVE  whole = k
  <2>1. "." \notin Digit
    BY DEF Digit
  <2>2. ~(k < whole)
    BY <1>2, <2>1
  <2>3. ~(whole < k)
    BY <1>2 DEF AllIn
  <2> QED BY <2>2, <2>3
<1> QED BY <1>1, <1>2 DEF IsFloat

LEMMA LongestDecimal ==
  ASSUME LexerTypeOK, DecimalLiteral
  PROVE  LongestTokens'
<1> DEFINE i        == iterator
           whole    == EndOfRun(Digit, i)
           fraction == EndOfRun(Digit, whole + 1)
<1>1. /\ At(i) \in Digit \cup {"."} /\ ~IsFinished /\ source' = source
      /\ ~(At(i) = "0" /\ IsAt({"x", "X"}, i + 1))
  BY DEF DecimalLiteral, Upcoming, Current
<1>2. \/ ~IsAt({"."}, whole) /\ stream' = Append(stream, Token("IntegerLiteral", whole))
      \/ /\ IsAt({"."}, whole)
         /\ \/ /\ fraction > whole + 1 /\ ~IsAt({"."}, fraction)
               /\ stream' = Append(stream, Token("FloatLiteral", fraction))
            \/ stream' = Append(stream, Token("Garbage", fraction))
  BY DEF DecimalLiteral, Emit
<1>3. /\ whole \in i .. Len(source)
      /\ \A k \in i .. whole - 1 : At(k) \in Digit
      /\ whole < Len(source) => At(whole) \notin Digit
      /\ IsAt({"."}, whole) =>
           /\ whole < Len(source) /\ At(whole) = "."
           /\ fraction \in whole + 1 .. Len(source)
           /\ \A k \in whole + 1 .. fraction - 1 : At(k) \in Digit
           /\ fraction < Len(source) => At(fraction) \notin Digit
  BY <1>1, DigitsAround
<1> HIDE DEF whole, fraction
<1>4. i \in Nat /\ Len(source) \in Nat
  BY SourceLength
<1>5. {"IntegerLiteral", "FloatLiteral", "Garbage"} \subseteq TokenKind
  BY PlainKinds DEF PlainKind
<1>6. At(i) \notin {"#", "@"} \cup TwoPartOperator \cup SingleOperator
  BY <1>1, Classes
<1>7. ASSUME NEW end \in whole .. Len(source), NEW j \in end + 1 .. Len(source),
             whole < Len(source), ~IsFloat(i, j)
      PROVE  Forms(i, j) = {}
  <2>1. j \in i + 1 .. Len(source) /\ whole \in i .. j - 1
    BY <1>3, <1>4
  <2>2. ~IsInteger(i, j)
    BY <1>1, <1>3, <1>4, <1>7, <2>1, DecimalForm
  <2> QED BY <1>1, <1>4, <1>7, <2>1, <2>2, Classes, FirstTells
<1>8. CASE ~IsAt({"."}, whole) /\ stream' = Append(stream, Token("IntegerLiteral", whole))
  <2>1. FormOf("IntegerLiteral", i) = "integer"
    BY <1>6 DEF FormOf
  <2>2. "integer" \in Forms(i, whole)
    BY <1>3, FormsAre DEF IsInteger, AllIn
  <2>3. ASSUME NEW j \in whole + 1 .. Len(source)
        PROVE  Forms(i, j) = {}
    <3>1. whole < Len(source) /\ j \in i + 1 .. Len(source) /\ whole \in i .. j - 1
      BY <1>3, <1>4
    <3>2. At(whole) # "."
      BY <1>8, <3>1 DEF IsAt
    <3>3. ~IsFloat(i, j)
      BY <1>1, <1>3, <1>4, <3>1, <3>2, DecimalForm
    <3>4. whole \in whole .. Len(source)
      BY <1>3, <1>4
    <3> QED BY <1>7, <3>1, <3>3, <3>4
  <2> QED BY <1>1, <1>3, <1>5, <1>8, <2>1, <2>2, <2>3, NewestIsLongest DEF Longest
<1>9. CASE IsAt({"."}, whole) /\ stream' = Append(stream, Token("Garbage", fraction))
  <2>1. fraction \in i .. Len(source)
    BY <1>3, <1>4, <1>9
  <2> QED BY <1>1, <1>5, <1>9, <2>1, NewestIsLongest DEF Longest
<1>10. CASE /\ IsAt({"."}, whole)
            /\ fraction > whole + 1 /\ ~IsAt({"."}, fraction)
            /\ stream' = Append(stream, Token("FloatLiteral", fraction))
  <2>1. /\ whole < Len(source) /\ At(whole) = "."
        /\ fraction \in whole + 1 .. Len(source)
        /\ \A k \in whole + 1 .. fraction - 1 : At(k) \in Digit
        /\ fraction < Len(source) => At(fraction) \notin Digit
    BY <1>3, <1>10
  <2>2. FormOf("FloatLiteral", i) = "float"
    BY <1>6 DEF FormOf
  <2>3. "float" \in Forms(i, fraction)
    <3>1. whole \in i .. fraction - 2
      BY <1>3, <1>4, <1>10, <2>1
    <3>2. AllIn(Digit, i, whole) /\ AllIn(Digit, whole + 1, fraction)
      BY <1>3, <2>1 DEF AllIn
    <3> QED BY <2>1, <3>1, <3>2, FormsAre DEF IsFloat
  <2>4. ASSUME NEW j \in fraction + 1 .. Len(source)
        PROVE  Forms(i, j) = {}
    <3>1. /\ j \in i + 1 .. Len(source) /\ whole \in i .. j - 1
          /\ fraction \in whole + 1 .. j - 1 /\ fraction < Len(source)
      BY <1>3, <1>4, <2>1
    <3>2. ~AllIn(Digit, whole + 1, j)
      BY <2>1, <3>1 DEF AllIn
    <3>3. ~IsFloat(i, j)
      BY <1>1, <1>3, <1>4, <2>1, <3>1, <3>2, DecimalForm
    <3>4. fraction \in whole .. Len(source)
      BY <1>3, <1>4, <2>1
    <3> QED BY <1>7, <2>1, <3>3, <3>4
  <2>5. fraction \in i .. Len(source)
    BY <1>3, <1>4, <2>1
  <2> QED BY <1>1, <1>5, <1>10, <2>2, <2>3, <2>4, <2>5, NewestIsLongest DEF Longest
<1> QED BY <1>2, <1>8, <1>9, <1>10

\* An operator that no = or > makes longer.
LEMMA OperatorIsLongest ==
  ASSUME LexerTypeOK, NEW end \in iterator + 1 .. Len(source), NEW text,
         At(iterator) \in TwoPartOperator \cup SingleOperator,
         IsOperator(iterator, end),
         \A j \in end + 1 .. Len(source) : ~IsOperator(iterator, j),
         source' = source, stream' = Append(stream, Token(LookupOperator(text), end))
  PROVE  LongestTokens'
<1> DEFINE kind == LookupOperator(text)
<1>1. kind \in TokenKind /\ kind \notin FormKinds
  BY OperatorKind, OtherKinds DEF PlainKind
<1>2. iterator \in Nat /\ Len(source) \in Nat
  BY SourceLength
<1> HIDE DEF kind
<1>3. FormOf(kind, iterator) = "operator"
  BY <1>1, Classes DEF FormOf, FormKinds
<1>4. "operator" \in Forms(iterator, end)
  BY FormsAre
<1>5. ASSUME NEW j \in end + 1 .. Len(source)
      PROVE  Forms(iterator, j) = {}
  <2>1. j \in iterator + 1 .. Len(source)
    BY <1>2
  <2> QED BY <1>2, <2>1, Classes, FirstTells
<1>6. end \in iterator .. Len(source)
  BY <1>2
<1>7. stream' = Append(stream, Token(kind, end))
  BY DEF kind
<1> QED BY <1>1, <1>3, <1>4, <1>5, <1>6, <1>7, NewestIsLongest DEF Longest

LEMMA LongestOperator ==
  ASSUME LexerTypeOK, Operator
  PROVE  LongestTokens'
<1> DEFINE second == IF Current = "<" THEN {"=", ">"} ELSE {"="}
           end    == iterator + (IF IsAt(second, iterator + 1) THEN 2 ELSE 1)
<1>1. /\ At(iterator) \in TwoPartOperator /\ ~IsFinished /\ source' = source
      /\ stream' = Append(stream, Token(LookupOperator(Slice(iterator, end)), end))
  BY DEF Operator, Upcoming, Emit, Current
<1>2. iterator \in Nat /\ Len(source) \in Nat /\ iterator + 1 <= Len(source)
  BY <1>1, SourceLength
<1>3. IsAt(second, iterator + 1) <=>
        /\ iterator + 1 < Len(source)
        /\ At(iterator + 1) = "=" \/ (At(iterator) = "<" /\ At(iterator + 1) = ">")
  BY DEF IsAt, Current
<1> HIDE DEF second
<1>4. \/ end = iterator + 2 /\ IsAt(second, iterator + 1)
      \/ end = iterator + 1 /\ ~IsAt(second, iterator + 1)
  OBVIOUS
<1> HIDE DEF end
<1>5. end \in iterator + 1 .. Len(source)
  BY <1>2, <1>3, <1>4
<1>6. IsOperator(iterator, end)
  BY <1>1, <1>2, <1>3, <1>4, <1>5, OperatorForm
<1>7. ASSUME NEW j \in end + 1 .. Len(source)
      PROVE  ~IsOperator(iterator, j)
  <2>1. j \in iterator + 1 .. Len(source) /\ j # iterator + 1
    BY <1>2, <1>5
  <2>2. j = iterator + 2 => end = iterator + 1 /\ iterator + 1 < Len(source)
    BY <1>2, <1>5
  <2>3. j = iterator + 2 => ~IsAt(second, iterator + 1)
    BY <1>2, <1>4, <2>2
  <2> QED BY <1>2, <1>3, <2>1, <2>2, <2>3, OperatorForm
<1> QED BY <1>1, <1>5, <1>6, <1>7, OperatorIsLongest

LEMMA LongestOneCharacter ==
  ASSUME LexerTypeOK, OneCharacterToken
  PROVE  LongestTokens'
<1> DEFINE kind == IF Current \in Punctuation THEN LookupPunctuation(Current)
                                              ELSE LookupOperator(<<Current>>)
<1>1. /\ At(iterator) = Current /\ Current \in SingleOperator \cup Punctuation
      /\ ~IsFinished /\ source' = source /\ stream' = Append(stream, Token(kind, iterator + 1))
  BY DEF OneCharacterToken, Upcoming, Emit, Current
<1>2. iterator \in Nat /\ iterator + 1 \in iterator + 1 .. Len(source)
      /\ iterator + 1 \in iterator .. Len(source)
  BY <1>1, SourceLength
<1>3. CASE Current \in Punctuation
  <2>1. kind \in TokenKind
    BY <1>3, PunctuationKind DEF PlainKind
  <2> HIDE DEF kind
  <2> QED BY <1>1, <1>2, <1>3, <2>1, NewestIsLongest DEF Longest
<1>4. CASE Current \notin Punctuation
  <2>1. Current \in SingleOperator /\ Current \notin TwoPartOperator
    BY <1>1, <1>4 DEF SingleOperator, TwoPartOperator
  <2>2. IsOperator(iterator, iterator + 1)
    BY <1>1, <1>2, <2>1, OperatorForm
  <2>3. ASSUME NEW j \in iterator + 1 + 1 .. Len(source)
        PROVE  ~IsOperator(iterator, j)
    <3>1. j \in iterator + 1 .. Len(source) /\ j # iterator + 1
      BY <1>2, SourceLength
    <3>2. Current # "<"
      BY <2>1 DEF TwoPartOperator
    <3> QED BY <1>1, <1>2, <2>1, <3>1, <3>2, OperatorForm
  <2>4. stream' = Append(stream, Token(LookupOperator(<<Current>>), iterator + 1))
    BY <1>1, <1>4
  <2> QED BY <1>1, <1>2, <2>1, <2>2, <2>3, <2>4, OperatorIsLongest
<1> QED BY <1>3, <1>4

\* Comments and line ends, of which nothing is said.
LEMMA LongestNothing ==
  ASSUME LexerTypeOK, MultiLineComment \/ NewLine \/ Comment
  PROVE  LongestTokens'
<1>1. \/ \E end \in iterator .. Len(source) : stream' = Append(stream, Token("Comment", end))
      \/ \E end \in iterator .. Len(source) : stream' = Append(stream, Token("NewLine", end))
  <2>1. CASE NewLine
    <3>1. iterator + 1 \in iterator .. Len(source)
      BY <2>1, SourceLength DEF NewLine, Upcoming
    <3> QED BY <2>1, <3>1 DEF NewLine
  <2>2. CASE Comment
    <3>1. PICK end : Emit("Comment", end)
      BY <2>2 DEF Comment
    <3>2. end = iterator' /\ stream' = Append(stream, Token("Comment", end))
      BY <3>1 DEF Emit, MoveTo
    <3>3. iterator' \in iterator .. Len(source)
      BY <2>2, LineCommentBranch DEF TakesPlain, Takes
    <3> QED BY <3>2, <3>3
  <2>3. CASE MultiLineComment
    BY <2>3, CommentBranch DEF TakesComment, Takes
  <2> QED BY <2>1, <2>2, <2>3
<1>2. "Comment" \in TokenKind /\ "NewLine" \in TokenKind
  BY PlainKinds DEF PlainKind
<1>3. source' = source
  BY DEF MultiLineComment, NewLine, Comment
<1> QED BY <1>1, <1>2, <1>3, NewestIsLongest DEF Longest

LEMMA LongestStays ==
  ASSUME LongestTokens, source' = source, stream' = stream
  PROVE  LongestTokens'
<1>1. \A i, j : Forms(i, j)' = Forms(i, j)
  BY DEF Forms, AllIn, At, Slice
<1>2. SUFFICES ASSUME NEW n \in Newest',
                      (/\ stream[n].kind \notin {"Garbage", "Comment", "NewLine"}
                       /\ At(stream[n].begin) \notin Punctuation)'
               PROVE  (/\ FormOf(stream[n].kind, stream[n].begin)
                              \in Forms(stream[n].begin, stream[n].end)
                       /\ \A j \in stream[n].end + 1 .. Len(source) :
                            Forms(stream[n].begin, j) = {})'
  BY DEF LongestTokens
<1>3. n \in Newest /\ At(stream[n].begin) \notin Punctuation
  BY <1>2 DEF Newest, At
<1>4. FormOf(stream[n].kind, stream[n].begin)' = FormOf(stream[n].kind, stream[n].begin)
  BY DEF FormOf, At
<1> QED BY <1>1, <1>2, <1>3, <1>4 DEF LongestTokens

LEMMA LongestKept ==
  ASSUME LexerTypeOK, LongestTokens, GetNextToken
  PROVE  LongestTokens'
<1>1. ASSUME source' = source, stream' = stream
      PROVE  LongestTokens'
  BY <1>1, LongestStays
<1>2. CASE \/ NullCharacter \/ UnterminatedComment \/ SkipCharacter
           \/ UnterminatedString \/ UnknownCharacter
  BY <1>1, <1>2 DEF NullCharacter, UnterminatedComment, SkipCharacter, UnterminatedString,
                    UnknownCharacter
<1> QED BY <1>2, LongestNothing, LongestMacro, LongestVariable, LongestDirective, LongestString,
           LongestHex, LongestDecimal, LongestOperator, LongestOneCharacter, LongestName
        DEF GetNextToken


-----------------------------------------------------------------------------
(* The invariant of the lexer.                                             *)

LexerInv ==
  /\ LexerTypeOK /\ TokensInOrder
  /\ Bracketing /\ CommentsBracketed
  /\ NothingIsLost
  /\ Places /\ NewestPlaced
  /\ LongestTokens

LEMMA FreshInv == source \in Seq(Character) /\ Fresh => LexerInv
<1> SUFFICES ASSUME source \in Seq(Character), Fresh PROVE LexerInv
  OBVIOUS
<1>1. DOMAIN stream = {} /\ stream = <<>> /\ stream \in Seq(Tokens) /\ iterator = 0
  BY DEF Fresh
<1>2. Len(source) \in Nat
  OBVIOUS
<1>3. LexerTypeOK
  <2>1. iterator \in Offset
    BY <1>1, <1>2 DEF Offset
  <2>2. stream \in Seq([kind: TokenKind, begin: Offset, end: Offset,
                        line: Nat \ {0}, column: Nat \ {0}])
    BY <1>1
  <2>3. lineNumber \in Nat \ {0} /\ column \in Nat \ {0} /\ nullCharacters \in Nat
    BY DEF Fresh
  <2>4. insideMultiLineComment \in BOOLEAN
    BY DEF Fresh
  <2> QED BY <2>1, <2>2, <2>3, <2>4 DEF LexerTypeOK
<1>4. Bracketing /\ CommentsBracketed /\ TokensInOrder
  BY <1>1 DEF Fresh, Bracketing, CommentsBracketed, TokensInOrder
<1>5. NothingIsLost
  <2>1. 0 .. iterator - 1 = {}
    BY <1>1
  <2> QED BY <2>1 DEF NothingIsLost
<1>6. Places
  <2>1. LineEnds(0, iterator) = {}
    BY <1>1 DEF LineEnds, PlacesOf
  <2>2. Cardinality(LineEnds(0, iterator) \ StringLineEnds(Len(stream) + 1)) = 0
    BY <2>1, FS_EmptySet
  <2>3. lineNumber = 1 + 0 /\ column = 1 + iterator - 0
    BY DEF Fresh
  <2> QED BY <2>1, <2>2, <2>3 DEF Places, IsPlace, Behind
<1>7. NewestPlaced
  BY <1>1 DEF NewestPlaced
<1>8. LongestTokens
  BY <1>1 DEF LongestTokens, Newest
<1> QED BY <1>3, <1>4, <1>5, <1>6, <1>7, <1>8 DEF LexerInv

LEMMA FreshInvNext == (source \in Seq(Character) /\ Fresh)' => LexerInv'
BY FreshInv, PTL

LEMMA TurnKeepsInv ==
  ASSUME LexerInv, GetNextToken
  PROVE  LexerInv'
BY FormOfTurn, TypesKept, OrderKept, BracketingKept, NothingLostKept, PlacesKept, NewestKept,
   LongestKept DEF LexerInv

\* Nothing of the lexer changes.
LEMMA StutterKeepsInv ==
  ASSUME LexerInv, UNCHANGED lexerVars
  PROVE  LexerInv'
<1>1. /\ UNCHANGED <<source, iterator, lineNumber, column>>
      /\ UNCHANGED <<insideMultiLineComment, stream, nullCharacters>>
  BY DEF lexerVars, position
<1>2. LexerTypeOK' /\ TokensInOrder' /\ CommentsBracketed'
  BY <1>1 DEF LexerInv, LexerTypeOK, Offset, TokensInOrder, CommentsBracketed
<1>3. CommentEnds(iterator)' = CommentEnds(iterator)
  BY <1>1 DEF CommentEnds, PlacesOf, PreProcessorKind, PreProcessorEnd, FoldedText, At, EndOfRun
<1>4. Bracketing'
  BY <1>1, <1>3 DEF LexerInv, Bracketing
<1>5. NothingIsLost'
  <2>1. ASSUME NEW i
        PROVE  LeftOpen(i)' = LeftOpen(i)
    <3>1. CommentEnds(i)' = CommentEnds(i)
      BY <1>1 DEF CommentEnds, PlacesOf, PreProcessorKind, PreProcessorEnd, FoldedText, At, EndOfRun
    <3>2. PlacesOf({At(i)}, i + 1, Len(source))' = PlacesOf({At(i)}, i + 1, Len(source))
      BY <1>1 DEF PlacesOf, At
    <3> QED BY <1>1, <3>1, <3>2 DEF LeftOpen, At, InTokens
  <2> QED BY <1>1, <2>1 DEF LexerInv, NothingIsLost, InTokens, IsFinished, At
<1>6. Places'
  BY <1>1 DEF LexerInv, Places, IsPlace, LineEnds, StringLineEnds, InComments, PlacesOf, At,
              IsFinished
<1>7. NewestPlaced'
  BY <1>1 DEF LexerInv, NewestPlaced, IsPlace, LineEnds, StringLineEnds, InComments, PlacesOf, At
<1>8. LongestTokens'
  BY <1>1, LongestStays DEF LexerInv
<1> QED BY <1>2, <1>4, <1>5, <1>6, <1>7, <1>8 DEF LexerInv

-----------------------------------------------------------------------------
(* What the lexer promises, of every source.                               *)

\* The invariant holds along every run of the lexer.
THEOREM LexerInvariant == LexerSpec => []LexerInv
<1>1. LexerInit => LexerInv
  BY SourceAssumption, FreshInv DEF LexerInit
<1>2. LexerInv /\ [GetNextToken]_lexerVars => LexerInv'
  BY TurnKeepsInv, StutterKeepsInv
<1> QED BY <1>1, <1>2, PTL DEF LexerSpec

\* The lexer's members and its tokens have their types: the iterator stays in
\* the source, and every token's kind is one the tables or a branch give.
THEOREM LexerTypes == LexerSpec => []LexerTypeOK
<1>1. LexerInv => LexerTypeOK
  BY DEF LexerInv
<1> QED BY <1>1, LexerInvariant, PTL

\* The tokens do not overlap and stand in the stream as in the source, although
\* a comment sends the lexer back to the word that closes it.
THEOREM TokenOrder == LexerSpec => []TokensInOrder
<1>1. LexerInv => TokensInOrder
  BY DEF LexerInv
<1> QED BY <1>1, LexerInvariant, PTL

\* Behind the lexer every character that says something is in a token, or in a
\* string or comment that is left open to the end of the source.
THEOREM NoCharacterLost == LexerSpec => []NothingIsLost
<1>1. LexerInv => NothingIsLost
  BY DEF LexerInv
<1> QED BY <1>1, LexerInvariant, PTL

\* Behind the directive that opens a comment comes one token for all of the
\* comment, and right behind that the directive that closes it.
THEOREM CommentsStayBracketed == LexerSpec => []CommentsBracketed
<1>1. LexerInv => CommentsBracketed
  BY DEF LexerInv
<1> QED BY <1>1, LexerInvariant, PTL

\* The line of a token is that of its first character, less the line ends in the
\* strings before it, which the lexer does not count.
THEOREM LinesLag == LexerSpec => []LinesLagByStrings
<1>1. LexerInv => LinesLagByStrings
  BY PlacedTells DEF LexerInv
<1> QED BY <1>1, LexerInvariant, PTL

\* The column of a token is that of its first character, on a line that begins
\* outside a string and where no comment holds a #.
THEOREM ColumnsAreTrue == LexerSpec => []ColumnsTell
<1>1. LexerInv => ColumnsTell
  BY PlacedTells DEF LexerInv
<1> QED BY <1>1, LexerInvariant, PTL

\* A token is what its kind says and as long as it can be: nothing longer that
\* begins where it does is a name, a literal, a directive, a macro, a variable
\* or an operator.
THEOREM TokensAreLongest == LexerSpec => []LongestTokens
<1>1. LexerInv => LongestTokens
  BY DEF LexerInv
<1> QED BY <1>1, LexerInvariant, PTL

\* How many turns may be left: two for each character, as the lexer goes back to
\* the word that closes a comment, and one to come out of the comment it is in.
TurnsLeft == 2 * (Len(source) - iterator) + (IF insideMultiLineComment THEN 1 ELSE 0)

LEMMA TurnLowers ==
  ASSUME LexerTypeOK, GetNextToken
  PROVE  TurnsLeft' < TurnsLeft /\ TurnsLeft' \in Nat
<1>1. /\ Len(source) \in Nat /\ iterator \in Nat /\ iterator <= Len(source)
      /\ insideMultiLineComment \in BOOLEAN /\ iterator # Len(source)
      /\ source' = source
  <2>1. Counts
    BY FormOfTurn DEF Passes, TakesPlain, TakesDirective, TakesComment, Takes, Swallows
  <2> QED BY <2>1, SourceLength DEF LexerTypeOK, Counts, IsFinished
<1>2. LexerTypeOK'
  BY FormOfTurn, TypesKept
<1>3. iterator' \in Nat /\ iterator' <= Len(source) /\ insideMultiLineComment' \in BOOLEAN
  BY <1>1, <1>2 DEF LexerTypeOK, Offset
<1>4. \/ iterator' > iterator
      \/ iterator' >= iterator /\ insideMultiLineComment /\ ~insideMultiLineComment'
  <2>1. CASE Passes
    BY <1>1, <2>1 DEF Passes
  <2>2. CASE Swallows
    BY <1>1, <2>2 DEF Swallows
  <2>3. CASE TakesPlain
    BY <1>1, <2>3 DEF TakesPlain, Takes
  <2>4. CASE TakesDirective
    BY <1>1, <2>4 DEF TakesDirective, Takes
  <2>5. CASE TakesComment
    BY <1>1, <2>5 DEF TakesComment, Takes
  <2> QED BY <2>1, <2>2, <2>3, <2>4, <2>5, FormOfTurn
<1>5. TurnsLeft = 2 * (Len(source) - iterator) + (IF insideMultiLineComment THEN 1 ELSE 0)
  BY DEF TurnsLeft
<1>6. TurnsLeft' = 2 * (Len(source) - iterator') + (IF insideMultiLineComment' THEN 1 ELSE 0)
  BY <1>1 DEF TurnsLeft
<1> QED BY <1>1, <1>3, <1>4, <1>5, <1>6

\* Every turn of the loop leaves fewer of them, also the one that consumes nothing
\* because it stops at the word that closes a comment: no source keeps the lexer
\* for more than two turns a character.  The safety half of its termination.
THEOREM LexerProgress ==
  LexerSpec => [][GetNextToken => TurnsLeft' < TurnsLeft /\ TurnsLeft' \in Nat]_lexerVars
<1>1. LexerInv /\ [GetNextToken]_lexerVars
        => [GetNextToken => TurnsLeft' < TurnsLeft /\ TurnsLeft' \in Nat]_lexerVars
  BY TurnLowers DEF LexerInv
<1> QED BY <1>1, LexerInvariant, PTL DEF LexerSpec
=============================================================================
