-------------------------- MODULE TestRunnerProofs --------------------------
(***************************************************************************)
(* The lexer keeps its promises inside the test runner, which gives it one *)
(* source after the other; the runner judges every script once, rightly,   *)
(* and comes ahead with every step.                                        *)
(***************************************************************************)
EXTENDS TestRunner, LexerProofs

Judged == {reports[n].script : n \in DOMAIN reports}

\* The script process_file is at.
Pending == IF phase \in {"lexing", "running", "comparing", "killed"} THEN {script} ELSE {}

ScriptsIn(S) == {f \in S : f.isScript}

EachOnce ==
  /\ phase # "starting" => ScriptsIn(Given) = Judged \cup Pending \cup ScriptsIn(files)
  /\ Judged \cap Pending = {} /\ Judged \cap files = {} /\ Pending \cap files = {}
  /\ \A m, n \in DOMAIN reports : reports[m].script = reports[n].script => m = n

\* What is written down of the verdicts, and the exit code behind them.
RunnerInv ==
  /\ argument \in Argument
  /\ files \subseteq Given
  /\ reports \in Seq([script: Given, passed: BOOLEAN])
  /\ phase \in {"starting", "choosing", "lexing", "running", "comparing", "killed", "over"}
  /\ phase = "starting" => files = {} /\ reports = <<>>
  /\ phase = "over" =>
       /\ files = {}
       /\ argument.kind = "directory" =>
            exitCode = IF \A n \in DOMAIN reports : reports[n].passed THEN 0 ELSE 1
  /\ Pending \subseteq Given
  /\ EachOnce

-----------------------------------------------------------------------------
(* Text.                                                                   *)

\* The function Together is defined by.
TogetherFcn(parts) ==
  CHOOSE f : f = [k \in 0 .. Len(parts) |-> IF k = 0 THEN <<>> ELSE f[k - 1] \o parts[k]]

\* Parts put together, one more at a time.
LEMMA TogetherIs ==
  ASSUME NEW S, NEW parts \in Seq(Seq(S))
  PROVE  /\ \A n \in 0 .. Len(parts) : Together(parts, n) \in Seq(S)
         /\ Together(parts, 0) = <<>>
         /\ \A n \in 1 .. Len(parts) :
              Together(parts, n) = Together(parts, n - 1) \o parts[n]
<1> DEFINE N == Len(parts)
           With(b, n) == b \o parts[n]
           step == [n \in 1 .. N |-> [b \in Seq(S) |-> With(b, n)]]
           T == TogetherFcn(parts)
<1>1. N \in Nat /\ <<>> \in Seq(S) /\ \A n \in 1 .. N : parts[n] \in Seq(S)
  OBVIOUS
<1>2. \A n \in 1 .. N : \A b \in Seq(S) : With(b, n) \in Seq(S)
  BY <1>1, ConcatProperties
<1>3. PICK g \in [0 .. N -> Seq(S)] :
        g[0] = <<>> /\ \A n \in 1 .. N : g[n] = step[n][g[n - 1]]
  <2>1. step \in StepsUpto(N, Seq(S))
    BY <1>2 DEF StepsUpto
  <2> HIDE DEF N, step
  <2>2. PICK g \in Upto(N, Seq(S)) : Follows(g, <<>>, step, N)
    BY <1>1, <2>1, Recursion
  <2> QED BY <2>2 DEF Upto, Follows
<1>4. \A n \in 1 .. N : g[n] = With(g[n - 1], n)
  <2> SUFFICES ASSUME NEW n \in 1 .. N PROVE g[n] = With(g[n - 1], n)
    OBVIOUS
  <2>1. n - 1 \in 0 .. N
    BY <1>1
  <2>2. g[n - 1] \in Seq(S)
    BY <1>3, <2>1
  <2> HIDE DEF With
  <2> QED BY <1>3, <2>2
<1>5. g = [k \in 0 .. N |-> IF k = 0 THEN <<>> ELSE g[k - 1] \o parts[k]]
  <2>1. \A k \in 0 .. N : g[k] = IF k = 0 THEN <<>> ELSE With(g[k - 1], k)
    <3> HIDE DEF With, N
    <3>1. \A k \in 0 .. N : k # 0 => k \in 1 .. N
      BY <1>1
    <3> QED BY <1>3, <1>4, <3>1
  <2> QED BY <1>3, <2>1
<1>6. T = [k \in 0 .. N |-> IF k = 0 THEN <<>> ELSE T[k - 1] \o parts[k]]
  BY <1>5, Zenon DEF TogetherFcn
<1>7. \A n : Together(parts, n) = T[n]
  BY Zenon DEF Together, TogetherFcn
<1> HIDE DEF T, N
<1>8. T[0] = <<>> /\ \A n \in 1 .. N : T[n] = With(T[n - 1], n)
  <2>1. T = [k \in 0 .. N |-> IF k = 0 THEN <<>> ELSE With(T[k - 1], k)]
    BY <1>6
  <2> HIDE DEF With
  <2> QED BY <1>1, <2>1
<1>9. \A n \in 0 .. N : T[n] \in Seq(S)
  <2> DEFINE Bad == {n \in 0 .. N : T[n] \notin Seq(S)}
  <2> SUFFICES ASSUME Bad # {} PROVE FALSE
    OBVIOUS
  <2>1. PICK n \in Bad : \A m \in Bad : n <= m
    <3>1. Bad \in SUBSET Nat
      BY <1>1
    <3> HIDE DEF Bad
    <3> QED BY <3>1, NatLeast
  <2>2. n # 0
    BY <1>1, <1>8, <2>1
  <2>3. n \in 1 .. N /\ n - 1 \in 0 .. N /\ n - 1 \notin Bad
    BY <1>1, <2>1, <2>2
  <2>4. T[n - 1] \in Seq(S)
    BY <2>3
  <2>5. T[n] \in Seq(S)
    <3> HIDE DEF With
    <3> QED BY <1>2, <1>8, <2>3, <2>4
  <2> QED BY <2>1, <2>5
<1> QED BY <1>7, <1>8, <1>9 DEF N

\* The chosen texts of a list, one more of its members at a time.
TextIf(list, chosen, n) == IF n \in chosen THEN <<list[n].text>> ELSE <<>>

LEMMA TextsUpToIs ==
  ASSUME NEW S, NEW E, NEW list \in Seq(E), NEW chosen,
         \A i \in 1 .. Len(list) : list[i].text \in S
  PROVE  /\ \A n \in 0 .. Len(list) : TextsUpTo(list, chosen, n) \in Seq(S)
         /\ TextsUpTo(list, chosen, 0) = <<>>
         /\ \A n \in 1 .. Len(list) :
              TextsUpTo(list, chosen, n) =
                TextsUpTo(list, chosen, n - 1) \o TextIf(list, chosen, n)
<1> DEFINE part(i) == TextIf(list, chosen, i)
           parts   == [i \in DOMAIN list |-> part(i)]
<1>1. Len(list) \in Nat /\ DOMAIN list = 1 .. Len(list)
  OBVIOUS
<1>2. ASSUME NEW i \in 1 .. Len(list) PROVE part(i) \in Seq(S)
  <2>1. <<list[i].text>> \in Seq(S)
    OBVIOUS
  <2> QED BY <2>1 DEF TextIf
<1>3. \A n : TextsUpTo(list, chosen, n) = Together(parts, n)
  BY DEF TextsUpTo, TextIf
<1>4. parts \in Seq(Seq(S)) /\ Len(parts) = Len(list)
      /\ \A i \in 1 .. Len(list) : parts[i] = part(i)
  BY <1>1, <1>2
<1> HIDE DEF parts
<1>5. /\ \A n \in 0 .. Len(list) : Together(parts, n) \in Seq(S)
      /\ Together(parts, 0) = <<>>
      /\ \A n \in 1 .. Len(list) : Together(parts, n) = Together(parts, n - 1) \o parts[n]
  BY <1>4, TogetherIs
<1> QED BY <1>3, <1>4, <1>5

LEMMA TextsUpToSteps ==
  ASSUME NEW E, NEW list \in Seq(E), NEW chosen
  PROVE  /\ TextsUpTo(list, chosen, 0) = <<>>
         /\ \A n \in 1 .. Len(list) :
              TextsUpTo(list, chosen, n) =
                TextsUpTo(list, chosen, n - 1) \o TextIf(list, chosen, n)
<1> DEFINE S == {list[i].text : i \in 1 .. Len(list)}
<1>1. \A i \in 1 .. Len(list) : list[i].text \in S
  OBVIOUS
<1> HIDE DEF S
<1>2. \A n \in 0 .. Len(list) : TextsUpTo(list, chosen, n) \in Seq(S)
  BY <1>1, TextsUpToIs
<1> QED BY <1>1, <1>2, TextsUpToIs

LEMMA TextsOfType ==
  ASSUME NEW S, NEW captured \in Seq(Expectation), NEW mark,
         \A i \in 1 .. Len(captured) : captured[i].text \in S
  PROVE  TextsOf(mark, captured) \in Seq(S)
<1>1. Len(captured) \in 0 .. Len(captured)
  OBVIOUS
<1> QED BY <1>1, TextsUpToIs DEF TextsOf

LEMMA LineIs ==
  ASSUME NEW text \in Text
  PROVE  /\ Line(text) \in Text /\ Len(Line(text)) = Len(text) + 1
         /\ \A i \in 1 .. Len(text) : Line(text)[i] = text[i]
         /\ Line(text)[Len(text) + 1] = NullChar
<1>1. PICK c \in Character : c = NullChar
  BY LiteralAssumption
<1> QED BY <1>1, AppendProperties DEF Text, Line

LEMMA LinesType ==
  ASSUME NEW texts \in Seq(Text)
  PROVE  Lines(texts) \in Text
<1> DEFINE parts == [i \in DOMAIN texts |-> Line(texts[i])]
<1>1. parts \in Seq(Seq(Character)) /\ Len(parts) = Len(texts)
  <2>1. Len(texts) \in Nat /\ DOMAIN texts = 1 .. Len(texts)
    OBVIOUS
  <2>2. \A i \in 1 .. Len(texts) : Line(texts[i]) \in Text
    BY LineIs
  <2> QED BY <2>1, <2>2 DEF Text
<1>2. Len(texts) \in 0 .. Len(texts)
  OBVIOUS
<1> HIDE DEF parts
<1> QED BY <1>1, <1>2, TogetherIs DEF Lines, parts, Text

LEMMA TrimIs ==
  ASSUME NEW text \in Text
  PROVE  /\ LastOf(text) \in 0 .. Len(text)
         /\ BasicTrim(text) \in Text /\ Len(BasicTrim(text)) = LastOf(text)
         /\ \A i \in 1 .. LastOf(text) : BasicTrim(text)[i] = text[i]
         /\ LastOf(text) > 0 => text[LastOf(text)] \notin TrimChar
         /\ \A i \in 1 .. Len(text) : text[i] \notin TrimChar => i <= LastOf(text)
<1> DEFINE last == LastOf(text)
           solid == {0} \cup {i \in DOMAIN text : text[i] \notin TrimChar}
<1>1. text \in Seq(Character) /\ Len(text) \in Nat /\ DOMAIN text = 1 .. Len(text)
  BY DEF Text
<1>2. solid \in SUBSET (0 .. Len(text)) /\ solid # {}
  BY <1>1
<1>3. last = Max(solid)
  BY DEF LastOf
<1>4. last \in solid /\ \A i \in solid : i <= last
  <2> HIDE DEF solid, last
  <2> QED BY <1>1, <1>2, <1>3, MaxGreatest
<1> HIDE DEF last
<1>5. last \in 0 .. Len(text)
  BY <1>2, <1>4
<1>6. /\ SubSeq(text, 1, last) \in Seq(Character)
      /\ Len(SubSeq(text, 1, last)) = last
      /\ \A i \in 1 .. last : SubSeq(text, 1, last)[i] = text[i]
  <2>1. \A i \in 1 .. last : text[i] \in Character
    BY <1>1, <1>5
  <2>2. /\ SubSeq(text, 1, last) \in Seq(Character)
        /\ Len(SubSeq(text, 1, last)) = IF 1 <= last THEN last - 1 + 1 ELSE 0
        /\ \A i \in 1 .. last - 1 + 1 : SubSeq(text, 1, last)[i] = text[1 + i - 1]
    BY <1>5, <2>1, SubSeqProperties
  <2>3. ASSUME NEW i \in 1 .. last PROVE SubSeq(text, 1, last)[i] = text[i]
    <3>1. 1 + i - 1 = i /\ i \in 1 .. last - 1 + 1
      BY <1>5
    <3> QED BY <2>2, <3>1
  <2>4. (IF 1 <= last THEN last - 1 + 1 ELSE 0) = last
    BY <1>5
  <2> QED BY <2>2, <2>3, <2>4
<1>7. last > 0 => text[last] \notin TrimChar
  BY <1>4, <1>5
<1>8. \A i \in 1 .. Len(text) : text[i] \notin TrimChar => i <= last
  BY <1>1, <1>4
<1> QED BY <1>5, <1>6, <1>7, <1>8 DEF BasicTrim, Text, last

LEMMA BlockType ==
  ASSUME NEW captured \in Seq(Expectation)
  PROVE  Block(captured) \in [stdout: Text, stderr: Text, warnings: SUBSET Text,
                              errors: SUBSET Text]
<1>1. \A mark : TextsOf(mark, captured) \in Seq(Text)
  <2>1. ASSUME NEW i \in 1 .. Len(captured) PROVE captured[i].text \in Text
    <3>1. captured[i] \in Expectation
      BY ElementOfSeq
    <3> QED BY <3>1 DEF Expectation
  <2> QED BY <2>1, TextsOfType
<1>2. \A texts \in Seq(Text) : BasicTrim(Lines(texts)) \in Text
  BY LinesType, TrimIs
<1>3. \A texts \in Seq(Text) : {BasicTrim(t) : t \in ToSet(texts)} \in SUBSET Text
  <2> SUFFICES ASSUME NEW texts \in Seq(Text), NEW t \in ToSet(texts)
               PROVE  BasicTrim(t) \in Text
    OBVIOUS
  <2>1. t \in Text
    BY DEF ToSet
  <2> QED BY <2>1, TrimIs
<1> QED BY <1>1, <1>2, <1>3 DEF Block

\* What is between two places of a text.
LEMMA PartOfText ==
  ASSUME NEW text \in Text, NEW i \in Nat, NEW j \in Nat, i >= 1, j <= Len(text)
  PROVE  SubSeq(text, i, j) \in Text
<1>1. text \in Seq(Character) /\ Len(text) \in Nat
  BY DEF Text
<1>2. \A k \in i .. j : text[k] \in Character
  BY <1>1
<1> QED BY <1>2, SubSeqProperties DEF Text

\* The matches Search chooses from: there is one, or none.
FirstMatches(mark, text) ==
  {m \in Matches(mark, text) : \A other \in Matches(mark, text) :
     m[1] < other[1] \/ (m[1] = other[1] /\ m[3] >= other[3])}

LEMMA MatchIs ==
  ASSUME NEW text \in Text, NEW mark, NEW m \in Matches(mark, text)
  PROVE  \E i, j, k \in 1 .. Len(text) :
           /\ m = <<i, j, k>> /\ i < j /\ j < k
           /\ text[j] \notin Space
           /\ \A n \in i + 1 .. j - 1 : text[n] \in Space
<1>1. DOMAIN text = 1 .. Len(text)
  BY DEF Text
<1>2. PICK i \in PlacesIn(text, mark), j \in PlacesIn(text, "\""), k \in PlacesIn(text, "\"") :
        m = <<i, j, k>>
  <2> DEFINE A == PlacesIn(text, mark)
             B == PlacesIn(text, "\"")
  <2>1. m \in A \X B \X B
    BY DEF Matches
  <2> HIDE DEF A, B
  <2>2. \E i \in A, j \in B, k \in B : m = <<i, j, k>>
    BY <2>1
  <2> QED BY <2>2 DEF A, B
<1>3. i \in 1 .. Len(text) /\ j \in 1 .. Len(text) /\ k \in 1 .. Len(text)
  BY <1>1 DEF PlacesIn
<1>4. text[j] \notin Space
  BY DEF PlacesIn, Space
<1>5. m[1] = i /\ m[2] = j /\ m[3] = k
  BY <1>2
<1>6. i < j /\ j < k /\ \A n \in i + 1 .. j - 1 : text[n] \in Space
  BY <1>5 DEF Matches
<1> QED BY <1>2, <1>3, <1>4, <1>6

LEMMA OneMatch ==
  ASSUME NEW text \in Text, NEW mark,
         NEW m \in FirstMatches(mark, text), NEW o \in FirstMatches(mark, text)
  PROVE  m = o
<1>1. m \in Matches(mark, text) /\ o \in Matches(mark, text)
  BY DEF FirstMatches
<1>2. PICK i, j, k \in 1 .. Len(text) :
        /\ m = <<i, j, k>> /\ i < j /\ j < k
        /\ text[j] \notin Space
        /\ \A n \in i + 1 .. j - 1 : text[n] \in Space
  BY <1>1, MatchIs
<1>3. PICK a, b, c \in 1 .. Len(text) :
        /\ o = <<a, b, c>> /\ a < b /\ b < c
        /\ text[b] \notin Space
        /\ \A n \in a + 1 .. b - 1 : text[n] \in Space
  BY <1>1, MatchIs
<1>4. /\ m[1] < o[1] \/ (m[1] = o[1] /\ m[3] >= o[3])
      /\ o[1] < m[1] \/ (o[1] = m[1] /\ o[3] >= m[3])
  BY <1>1 DEF FirstMatches
<1>5. /\ i < a \/ (i = a /\ k >= c)
      /\ a < i \/ (a = i /\ c >= k)
  BY <1>2, <1>3, <1>4
<1>6. Len(text) \in Nat
  BY DEF Text
<1>7. i = a /\ k = c
  BY <1>5, <1>6
<1>8. ~(j < b) /\ ~(b < j)
  BY <1>2, <1>3, <1>6, <1>7
<1>9. j = b
  BY <1>6, <1>8
<1> QED BY <1>2, <1>3, <1>7, <1>9

LEMMA FunctionIsSeq ==
  ASSUME NEW S, NEW n \in Nat, NEW f \in [1 .. n -> S]
  PROVE  f \in Seq(S)
OBVIOUS

LEMMA SearchType ==
  ASSUME NEW text \in Text, NEW mark \in Mark
  PROVE  SetToSeq(Search(mark, text)) \in Seq(Expectation)
<1> DEFINE R(m) == [mark |-> mark, text |-> SubSeq(text, m[2] + 1, m[3] - 1)]
           S == Search(mark, text)
<1>1. S = {R(m) : m \in FirstMatches(mark, text)}
  BY DEF Search, FirstMatches
<1>2. ASSUME NEW m \in FirstMatches(mark, text) PROVE R(m) \in Expectation
  <2>1. m \in Matches(mark, text)
    BY DEF FirstMatches
  <2>2. Len(text) \in Nat /\ m[2] + 1 \in Nat /\ m[3] - 1 \in Nat /\ m[2] + 1 >= 1 /\ m[3] - 1 <= Len(text)
    <3>1. Len(text) \in Nat
      BY DEF Text
    <3>2. PICK i, j, k \in 1 .. Len(text) : m = <<i, j, k>>
      BY <2>1, MatchIs
    <3>3. m[2] = j /\ m[3] = k
      BY <3>2
    <3> QED BY <3>1, <3>3
  <2>3. SubSeq(text, m[2] + 1, m[3] - 1) \in Text
    BY <2>2, PartOfText
  <2> QED BY <2>3 DEF Expectation
<1>3. S = {} \/ \E r \in Expectation : S = {r}
  <2> HIDE DEF R, S
  <2> QED BY <1>1, <1>2, OneMatch
<1> HIDE DEF S
<1>4. ASSUME S = {}
      PROVE  SetToSeq(S) \in Seq(Expectation)
  <2>1. Cardinality(S) = 0
    BY <1>4, FS_EmptySet
  <2> DEFINE e == [i \in 1 .. 0 |-> i]
  <2>2. e \in [1 .. Cardinality(S) -> S] /\ IsInjective(e)
    BY <2>1 DEF IsInjective
  <2>3. SetToSeq(S) \in [1 .. Cardinality(S) -> S]
    BY <2>2, Zenon DEF SetToSeq
  <2>4. SetToSeq(S) \in [1 .. 0 -> Expectation]
    BY <1>4, <2>1, <2>3
  <2> QED BY <2>4, FunctionIsSeq
<1>5. ASSUME NEW r \in Expectation, S = {r}
      PROVE  SetToSeq(S) \in Seq(Expectation)
  <2>1. Cardinality(S) = 1
    BY <1>5, FS_Singleton
  <2> DEFINE e == [i \in 1 .. 1 |-> r]
  <2>2. e \in [1 .. Cardinality(S) -> S] /\ IsInjective(e)
    BY <1>5, <2>1 DEF IsInjective
  <2>3. SetToSeq(S) \in [1 .. Cardinality(S) -> S]
    BY <2>2, Zenon DEF SetToSeq
  <2>4. SetToSeq(S) \in [1 .. 1 -> Expectation]
    BY <1>5, <2>1, <2>3
  <2> QED BY <2>4, FunctionIsSeq
<1> QED BY <1>3, <1>4, <1>5 DEF S

LEMMA ExpectedByType ==
  ASSUME NEW text \in Text
  PROVE  ExpectedBy(text) \in Seq(Expectation)
<1>1. \A mark \in {"expect-stdout:", "expect-stderr:", "expect-warning:", "expect-error:"} :
        SetToSeq(Search(mark, text)) \in Seq(Expectation)
  BY SearchType DEF Mark
<1>2. \A s, t \in Seq(Expectation) : s \o t \in Seq(Expectation)
  BY ConcatProperties
<1> QED BY <1>1, <1>2 DEF ExpectedBy

LEMMA CapturedType ==
  ASSUME LexerTypeOK
  PROVE  Captured(stream) \in Seq(Expectation)
<1> DEFINE part(n) == ExpectedByToken(stream[n])
           parts   == [n \in DOMAIN stream |-> part(n)]
<1>2. Len(stream) \in Nat /\ DOMAIN stream = 1 .. Len(stream)
  BY Offsets
<1>1. ASSUME NEW n \in DOMAIN stream PROVE part(n) \in Seq(Expectation)
  <2>1. /\ stream[n].begin \in Nat /\ stream[n].end \in Nat /\ stream[n].end <= Len(source)
        /\ source \in Text
    <3>1. stream[n] \in Tokens
      BY <1>2, Offsets
    <3>2. stream[n].begin \in Offset /\ stream[n].end \in Offset
      BY <3>1 DEF Tokens
    <3> QED BY <3>2, SourceLength DEF Offset, LexerTypeOK, Text
  <2>2. Slice(stream[n].begin, stream[n].end) \in Text
    <3>1. stream[n].begin + 1 \in Nat /\ stream[n].begin + 1 >= 1
      BY <2>1
    <3> QED BY <2>1, <3>1, PartOfText DEF Slice
  <2> QED BY <2>2, ExpectedByType DEF ExpectedByToken
<1>3. parts \in Seq(Seq(Expectation)) /\ Len(parts) = Len(stream)
  <2> HIDE DEF part
  <2> QED BY <1>1, <1>2
<1>4. Len(stream) \in 0 .. Len(parts)
  BY <1>2, <1>3
<1>5. Captured(stream) = Together(parts, Len(stream))
  BY DEF Captured
<1> HIDE DEF parts
<1> QED BY <1>3, <1>4, <1>5, TogetherIs

LEMMA UpToEmptyType ==
  ASSUME NEW captured \in Seq(Expectation)
  PROVE  UpToEmpty(captured) \in Seq(Expectation)
<1> DEFINE ends == {Len(captured) + 1} \cup {i \in DOMAIN captured : captured[i].text = <<>>}
<1>1. ends \in SUBSET Nat /\ Len(captured) + 1 \in ends /\ Len(captured) \in Nat
      /\ \A i \in ends : i >= 1
  OBVIOUS
<1>2. Min(ends) \in ends /\ Min(ends) <= Len(captured) + 1
  <2> HIDE DEF ends
  <2> QED BY <1>1, MinLeast
<1>3. UpToEmpty(captured) = SubSeq(captured, 1, Min(ends) - 1)
  BY DEF UpToEmpty
<1>4. Min(ends) - 1 \in Nat /\ Min(ends) - 1 <= Len(captured)
  <2> HIDE DEF ends
  <2>1. Min(ends) \in Nat /\ Min(ends) >= 1
    BY <1>1, <1>2
  <2> QED BY <1>1, <1>2, <2>1
<1>5. \A i \in 1 .. Min(ends) - 1 : captured[i] \in Expectation
  <2> HIDE DEF ends
  <2> QED BY <1>1, <1>4
<1> HIDE DEF ends
<1> QED BY <1>3, <1>4, <1>5, SubSeqProperties

\* Texts one behind the other, and texts that are the same.
LEMMA TextConcat ==
  ASSUME NEW s \in Text, NEW t \in Text
  PROVE  /\ s \o t \in Text /\ Len(s) \in Nat /\ Len(t) \in Nat
         /\ Len(s \o t) = Len(s) + Len(t)
         /\ \A i \in 1 .. Len(s) : (s \o t)[i] = s[i]
         /\ \A i \in 1 .. Len(t) : (s \o t)[Len(s) + i] = t[i]
<1>1. /\ s \o t \in Seq(Character) /\ Len(s) \in Nat /\ Len(t) \in Nat
      /\ Len(s \o t) = Len(s) + Len(t)
      /\ \A i \in 1 .. Len(s) + Len(t) :
           (s \o t)[i] = IF i <= Len(s) THEN s[i] ELSE t[i - Len(s)]
  BY ConcatProperties, LenProperties DEF Text
<1>2. ASSUME NEW i \in 1 .. Len(s) PROVE (s \o t)[i] = s[i]
  BY <1>1
<1>3. ASSUME NEW i \in 1 .. Len(t) PROVE (s \o t)[Len(s) + i] = t[i]
  <2>1. Len(s) + i \in 1 .. Len(s) + Len(t) /\ ~(Len(s) + i <= Len(s)) /\ Len(s) + i - Len(s) = i
    BY <1>1
  <2> QED BY <1>1, <2>1
<1> QED BY <1>1, <1>2, <1>3 DEF Text

LEMMA TextEqual ==
  ASSUME NEW s \in Text, NEW t \in Text, Len(s) = Len(t),
         \A i \in 1 .. Len(s) : s[i] = t[i]
  PROVE  s = t
BY SeqEqual DEF Text

\* The first lines of some texts.
LinePerText(texts)   == [i \in DOMAIN texts |-> Line(texts[i])]
FirstLines(texts, k) == Together(LinePerText(texts), k)

LEMMA FirstLinesAre ==
  ASSUME NEW texts \in Seq(Text)
  PROVE  /\ Len(texts) \in Nat
         /\ \A i \in 1 .. Len(texts) : texts[i] \in Text
         /\ \A k \in 0 .. Len(texts) : FirstLines(texts, k) \in Text
         /\ FirstLines(texts, 0) = <<>>
         /\ \A k \in 1 .. Len(texts) :
              FirstLines(texts, k) = FirstLines(texts, k - 1) \o Line(texts[k])
         /\ Lines(texts) = FirstLines(texts, Len(texts))
<1> DEFINE parts == LinePerText(texts)
<1>1. Len(texts) \in Nat /\ DOMAIN texts = 1 .. Len(texts)
  OBVIOUS
<1>2. \A i \in 1 .. Len(texts) : texts[i] \in Text /\ Line(texts[i]) \in Text
  BY LineIs
<1>3. parts \in Seq(Seq(Character)) /\ Len(parts) = Len(texts)
      /\ \A i \in 1 .. Len(texts) : parts[i] = Line(texts[i])
  BY <1>1, <1>2 DEF Text, LinePerText
<1>4. Lines(texts) = FirstLines(texts, Len(texts))
  BY DEF Lines, FirstLines, LinePerText
<1> HIDE DEF parts
<1>5. /\ \A k \in 0 .. Len(texts) : Together(parts, k) \in Seq(Character)
      /\ Together(parts, 0) = <<>>
      /\ \A k \in 1 .. Len(texts) : Together(parts, k) = Together(parts, k - 1) \o parts[k]
  BY <1>3, TogetherIs
<1>6. \A k : FirstLines(texts, k) = Together(parts, k)
  BY DEF FirstLines, parts
<1>7. ASSUME NEW k \in 1 .. Len(texts)
      PROVE  FirstLines(texts, k) = FirstLines(texts, k - 1) \o Line(texts[k])
  BY <1>3, <1>5, <1>6
<1> QED BY <1>1, <1>2, <1>4, <1>5, <1>6, <1>7 DEF Text

LEMMA SameFirstLines ==
  ASSUME NEW a \in Seq(Text), NEW b \in Seq(Text), NEW n \in Nat,
         n <= Len(a), n <= Len(b), \A i \in 1 .. n : a[i] = b[i]
  PROVE  FirstLines(a, n) = FirstLines(b, n)
<1> DEFINE Bad == {k \in 0 .. n : FirstLines(a, k) # FirstLines(b, k)}
<1> SUFFICES ASSUME Bad # {} PROVE FALSE
  OBVIOUS
<1>1. PICK k \in Bad : \A l \in Bad : k <= l
  <2>1. Bad \in SUBSET Nat
    OBVIOUS
  <2> HIDE DEF Bad
  <2> QED BY <2>1, NatLeast
<1>2. k # 0
  BY <1>1, FirstLinesAre
<1>3. k \in 1 .. n /\ k - 1 \in 0 .. n /\ k - 1 \notin Bad
  BY <1>1, <1>2
<1>4. FirstLines(a, k - 1) = FirstLines(b, k - 1)
  BY <1>3
<1>5. k \in 1 .. Len(a) /\ k \in 1 .. Len(b) /\ a[k] = b[k]
  BY <1>3, FirstLinesAre
<1>6. FirstLines(a, k) = FirstLines(b, k)
  BY <1>4, <1>5, FirstLinesAre
<1> QED BY <1>1, <1>6

\* The first lines stay where they are when more come behind them.
LEMMA LinesGrow ==
  ASSUME NEW texts \in Seq(Text), NEW k \in 0 .. Len(texts), NEW n \in k .. Len(texts)
  PROVE  /\ Len(FirstLines(texts, k)) <= Len(FirstLines(texts, n))
         /\ \A j \in 1 .. Len(FirstLines(texts, k)) :
              FirstLines(texts, n)[j] = FirstLines(texts, k)[j]
<1> DEFINE F(i) == FirstLines(texts, i)
           Starts(i) == /\ Len(F(k)) <= Len(F(i))
                        /\ \A j \in 1 .. Len(F(k)) : F(i)[j] = F(k)[j]
           Bad == {i \in k .. n : ~Starts(i)}
<1>0. /\ Len(texts) \in Nat
      /\ \A i \in 0 .. Len(texts) : F(i) \in Text
      /\ \A i \in 1 .. Len(texts) : F(i) = F(i - 1) \o Line(texts[i]) /\ Line(texts[i]) \in Text
  BY FirstLinesAre, LineIs
<1> HIDE DEF F
<1> SUFFICES ASSUME Bad # {} PROVE FALSE
  <2>1. n \in k .. n
    BY <1>0
  <2> HIDE DEF Starts
  <2>2. Starts(n) <=> n \notin Bad
    BY <2>1
  <2> QED BY <2>2 DEF Starts, F
<1>1. PICK i \in Bad : \A l \in Bad : i <= l
  <2>1. Bad \in SUBSET Nat
    BY <1>0
  <2> HIDE DEF Bad
  <2> QED BY <2>1, NatLeast
<1>2. i \in k .. n /\ ~Starts(i)
  BY <1>1
<1>3. F(k) \in Text /\ Len(F(k)) \in Nat
  BY <1>0 DEF Text
<1>4. i # k
  BY <1>2, <1>3
<1>5. i \in 1 .. Len(texts) /\ i - 1 \in 0 .. Len(texts) /\ i - 1 \in k .. n /\ i - 1 \notin Bad
  BY <1>0, <1>1, <1>2, <1>4
<1>6. Starts(i - 1)
  BY <1>5
<1>7. /\ F(i) = F(i - 1) \o Line(texts[i])
      /\ F(i - 1) \in Text /\ Line(texts[i]) \in Text
  BY <1>0, <1>5
<1>8. /\ Len(F(i - 1)) \in Nat /\ Len(F(i)) >= Len(F(i - 1))
      /\ \A j \in 1 .. Len(F(i - 1)) : F(i)[j] = F(i - 1)[j]
  BY <1>7, TextConcat
<1>9. Len(F(k)) <= Len(F(i))
  <2>1. Len(F(i)) \in Nat
    BY <1>7, TextConcat DEF Text
  <2> QED BY <1>3, <1>6, <1>8, <2>1
<1>10. ASSUME NEW j \in 1 .. Len(F(k)) PROVE F(i)[j] = F(k)[j]
  <2>1. j \in 1 .. Len(F(i - 1))
    BY <1>3, <1>6, <1>8
  <2> QED BY <1>6, <1>8, <2>1
<1> QED BY <1>2, <1>9, <1>10

\* Where a line is among the others.
LEMMA LinePlace ==
  ASSUME NEW texts \in Seq(Text), NEW k \in 1 .. Len(texts)
  PROVE  LET before == Len(FirstLines(texts, k - 1))
         IN  /\ before \in Nat /\ Len(texts[k]) \in Nat
             /\ before + Len(texts[k]) + 1 <= Len(Lines(texts))
             /\ \A j \in 1 .. Len(texts[k]) : Lines(texts)[before + j] = texts[k][j]
             /\ Lines(texts)[before + (Len(texts[k]) + 1)] = NullChar
<1> DEFINE before == Len(FirstLines(texts, k - 1))
           line == Line(texts[k])
           L == Lines(texts)
<1>1. /\ k - 1 \in 0 .. Len(texts) /\ k \in 0 .. Len(texts) /\ Len(texts) \in k .. Len(texts)
      /\ L = FirstLines(texts, Len(texts))
      /\ FirstLines(texts, k) = FirstLines(texts, k - 1) \o line
      /\ texts[k] \in Text
  BY FirstLinesAre
<1>2. FirstLines(texts, k - 1) \in Text
  BY <1>1, FirstLinesAre
<1>3. /\ line \in Text /\ Len(line) = Len(texts[k]) + 1
      /\ \A j \in 1 .. Len(texts[k]) : line[j] = texts[k][j]
      /\ line[Len(texts[k]) + 1] = NullChar
  BY <1>1, LineIs
<1> HIDE DEF line
<1>4. /\ before \in Nat /\ Len(line) \in Nat
      /\ Len(FirstLines(texts, k)) = before + Len(line)
      /\ \A j \in 1 .. Len(line) : FirstLines(texts, k)[before + j] = line[j]
  <2> DEFINE first == FirstLines(texts, k - 1)
  <2> HIDE DEF first
  <2>1. first \in Text /\ FirstLines(texts, k) = first \o line
    BY <1>1, <1>2 DEF first
  <2> DEFINE both == first \o line
  <2>2. /\ Len(first) \in Nat /\ Len(line) \in Nat
        /\ Len(both) = Len(first) + Len(line)
        /\ \A j \in 1 .. Len(line) : both[Len(first) + j] = line[j]
    BY <1>3, <2>1, TextConcat
  <2>3. FirstLines(texts, k) = both
    BY <2>1
  <2> HIDE DEF both
  <2> QED BY <2>2, <2>3 DEF first
<1>5. /\ Len(FirstLines(texts, k)) <= Len(L)
      /\ \A j \in 1 .. Len(FirstLines(texts, k)) : L[j] = FirstLines(texts, k)[j]
  BY <1>1, LinesGrow
<1> HIDE DEF L, before
<1>6. Len(texts[k]) \in Nat
  BY <1>1 DEF Text
<1>7. ASSUME NEW j \in 1 .. Len(line) PROVE L[before + j] = line[j]
  <2>1. before + j \in 1 .. Len(FirstLines(texts, k))
    BY <1>4
  <2> QED BY <1>4, <1>5, <2>1
<1>8. L[before + (Len(texts[k]) + 1)] = NullChar
  <2>1. Len(texts[k]) + 1 \in 1 .. Len(line)
    BY <1>3, <1>6
  <2> QED BY <1>3, <1>7, <2>1
<1>9. ASSUME NEW j \in 1 .. Len(texts[k]) PROVE L[before + j] = texts[k][j]
  <2>1. j \in 1 .. Len(line)
    BY <1>3, <1>6
  <2> QED BY <1>3, <1>7, <2>1
<1>10. before + Len(texts[k]) + 1 <= Len(L)
  <2>1. before + Len(texts[k]) + 1 = Len(FirstLines(texts, k))
    BY <1>3, <1>4, <1>6
  <2> QED BY <1>5, <2>1
<1> QED BY <1>4, <1>6, <1>8, <1>9, <1>10 DEF before, L

\* The texts without a null character.
PlainText == {text \in Text : \A i \in 1 .. Len(text) : text[i] # NullChar}

LEMMA PlainTexts ==
  ASSUME NEW texts \in Seq(PlainText)
  PROVE  /\ texts \in Seq(Text) /\ Len(texts) \in Nat
         /\ \A i \in 1 .. Len(texts) : texts[i] \in PlainText /\ texts[i] \in Text
<1>1. PlainText \subseteq Text
  BY DEF PlainText
<1>2. texts \in Seq(Text) /\ Len(texts) \in Nat
  BY <1>1, SeqMonotonic, LenProperties
<1> QED BY <1>1, <1>2, ElementOfSeq

\* If the first k - 1 lines of two lists are the same and all their lines put
\* together are, the k-th text of one is not longer than that of the other.
LEMMA NoLonger ==
  ASSUME NEW a \in Seq(PlainText), NEW b \in Seq(PlainText), Lines(a) = Lines(b),
         NEW k \in 1 .. Len(a), k \in 1 .. Len(b),
         FirstLines(a, k - 1) = FirstLines(b, k - 1)
  PROVE  ~(Len(a[k]) < Len(b[k]))
<1> DEFINE before == Len(FirstLines(a, k - 1))
           j == Len(a[k]) + 1
<1>1. a \in Seq(Text) /\ b \in Seq(Text) /\ b[k] \in PlainText
  BY PlainTexts
<1>2. Len(a[k]) \in Nat /\ Lines(a)[before + j] = NullChar
  BY <1>1, LinePlace
<1>3. Len(b[k]) \in Nat /\ \A i \in 1 .. Len(b[k]) : Lines(a)[before + i] = b[k][i]
  <2>1. /\ Len(b[k]) \in Nat
        /\ \A i \in 1 .. Len(b[k]) : Lines(b)[Len(FirstLines(b, k - 1)) + i] = b[k][i]
    BY <1>1, LinePlace
  <2> QED BY <2>1
<1>4. \A i \in 1 .. Len(b[k]) : b[k][i] # NullChar
  BY <1>1 DEF PlainText
<1> HIDE DEF before
<1>5. Len(a[k]) < Len(b[k]) => j \in 1 .. Len(b[k])
  BY <1>2, <1>3
<1> HIDE DEF j
<1> QED BY <1>2, <1>3, <1>4, <1>5

\* Lines tell what they were made of.
LEMMA LinesTell ==
  ASSUME NEW a \in Seq(PlainText), NEW b \in Seq(PlainText), Lines(a) = Lines(b)
  PROVE  a = b
<1> DEFINE Both == {k \in Nat : k <= Len(a) /\ k <= Len(b)}
           Bad == {k \in Both : k > 0 /\ a[k] # b[k]}
<1>0. a \in Seq(Text) /\ b \in Seq(Text) /\ Len(a) \in Nat /\ Len(b) \in Nat
  BY PlainTexts
<1>1. Bad = {}
  <2> SUFFICES ASSUME Bad # {} PROVE FALSE
    OBVIOUS
  <2>1. PICK k \in Bad : \A l \in Bad : k <= l
    <3>1. Bad \in SUBSET Nat
      OBVIOUS
    <3> HIDE DEF Bad
    <3> QED BY <3>1, NatLeast
  <2>2. k \in 1 .. Len(a) /\ k \in 1 .. Len(b) /\ k - 1 \in Nat /\ k - 1 <= Len(a) /\ k - 1 <= Len(b)
    BY <1>0, <2>1
  <2>3. \A i \in 1 .. k - 1 : a[i] = b[i]
    <3> SUFFICES ASSUME NEW i \in 1 .. k - 1 PROVE a[i] = b[i]
      OBVIOUS
    <3>1. i \in Both /\ i > 0 /\ ~(k <= i)
      BY <1>0, <2>2
    <3> QED BY <2>1, <3>1
  <2>4. FirstLines(a, k - 1) = FirstLines(b, k - 1)
    BY <1>0, <2>2, <2>3, SameFirstLines
  <2>5. /\ a[k] \in Text /\ b[k] \in Text
        /\ Len(a[k]) \in Nat /\ Len(b[k]) \in Nat
    BY <2>2, PlainTexts, LenProperties DEF Text
  <2>6. Len(a[k]) = Len(b[k])
    <3>1. ~(Len(a[k]) < Len(b[k])) /\ ~(Len(b[k]) < Len(a[k]))
      BY <2>2, <2>4, NoLonger
    <3> QED BY <2>5, <3>1
  <2>7. \A j \in 1 .. Len(a[k]) : a[k][j] = b[k][j]
    <3>1. /\ \A j \in 1 .. Len(a[k]) : Lines(a)[Len(FirstLines(a, k - 1)) + j] = a[k][j]
          /\ \A j \in 1 .. Len(b[k]) : Lines(b)[Len(FirstLines(b, k - 1)) + j] = b[k][j]
      BY <1>0, <2>2, LinePlace
    <3> QED BY <2>4, <2>6, <3>1
  <2>8. a[k] = b[k]
    BY <2>5, <2>6, <2>7, TextEqual
  <2> QED BY <2>1, <2>8
<1>2. ASSUME NEW c \in Seq(PlainText), NEW d \in Seq(PlainText), Lines(c) = Lines(d),
             \A k \in 1 .. Len(c) : k <= Len(d) => c[k] = d[k]
      PROVE  ~(Len(c) < Len(d))
  <2> SUFFICES ASSUME Len(c) < Len(d) PROVE FALSE
    OBVIOUS
  <2> DEFINE n == Len(c)
  <2>1. c \in Seq(Text) /\ d \in Seq(Text) /\ n \in Nat /\ Len(d) \in Nat
    BY PlainTexts
  <2>2. n + 1 \in 1 .. Len(d) /\ n + 1 - 1 = n /\ n <= Len(c) /\ n <= Len(d)
    BY <2>1
  <2>3. \A k \in 1 .. n : c[k] = d[k]
    BY <1>2, <2>1
  <2>4. FirstLines(c, n) = FirstLines(d, n)
    <3> HIDE DEF n
    <3> QED BY <2>1, <2>2, <2>3, SameFirstLines
  <2>5. Lines(c) = FirstLines(c, n)
    BY <2>1, FirstLinesAre
  <2>6. LET before == Len(FirstLines(d, n))
        IN  before \in Nat /\ Len(d[n + 1]) \in Nat /\ before + Len(d[n + 1]) + 1 <= Len(Lines(d))
    <3> HIDE DEF n
    <3>1. PICK m \in 1 .. Len(d) : m = n + 1
      BY <2>2
    <3>2. LET before == Len(FirstLines(d, m - 1))
          IN  before \in Nat /\ Len(d[m]) \in Nat /\ before + Len(d[m]) + 1 <= Len(Lines(d))
      BY <2>1, LinePlace
    <3>3. m - 1 = n
      BY <2>1, <3>1
    <3> QED BY <3>1, <3>2, <3>3
  <2> HIDE DEF n
  <2> QED BY <1>2, <2>4, <2>5, <2>6
<1>3. \A k \in Nat : k > 0 /\ k <= Len(a) /\ k <= Len(b) => a[k] = b[k]
  BY <1>1
<1>4. /\ \A k \in 1 .. Len(a) : k <= Len(b) => a[k] = b[k]
      /\ \A k \in 1 .. Len(b) : k <= Len(a) => b[k] = a[k]
  BY <1>0, <1>3
<1>5. ~(Len(a) < Len(b)) /\ ~(Len(b) < Len(a))
  BY <1>2, <1>4
<1>6. Len(a) = Len(b)
  BY <1>0, <1>5
<1>7. \A k \in 1 .. Len(a) : a[k] = b[k]
  BY <1>0, <1>4, <1>6
<1> QED BY <1>0, <1>6, <1>7, SeqEqual

\* The texts that are blank.
LEMMA BlankIs ==
  ASSUME NEW text \in Text
  PROVE  /\ LastOf(text) \in Nat
         /\ BasicTrim(text) = <<>> <=> LastOf(text) = 0
<1>1. /\ LastOf(text) \in 0 .. Len(text) /\ BasicTrim(text) \in Text
      /\ Len(BasicTrim(text)) = LastOf(text)
  BY TrimIs
<1>2. Len(text) \in Nat
  BY DEF Text
<1>3. BasicTrim(text) = <<>> <=> Len(BasicTrim(text)) = 0
  <2> DEFINE t == BasicTrim(text)
  <2>1. t \in Seq(Character)
    BY <1>1 DEF Text
  <2> HIDE DEF t
  <2>2. t = <<>> <=> Len(t) = 0
    BY <2>1, EmptySeq
  <2> QED BY <2>2 DEF t
<1> QED BY <1>1, <1>2, <1>3

\* What is trimmed of a text with one more line behind it.
LEMMA TrimBehind ==
  ASSUME NEW s \in Text, NEW x \in Text
  PROVE  BasicTrim(s \o Line(x)) = IF BasicTrim(x) # <<>> THEN s \o BasicTrim(x)
                                                          ELSE BasicTrim(s)
<1> DEFINE t == s \o Line(x)
           l == LastOf(x)
           q == LastOf(t)
<1>1. /\ Line(x) \in Text /\ Len(Line(x)) = Len(x) + 1
      /\ \A j \in 1 .. Len(x) : Line(x)[j] = x[j]
      /\ Line(x)[Len(x) + 1] = NullChar
  BY LineIs
<1>2. /\ t \in Text /\ Len(s) \in Nat /\ Len(x) \in Nat /\ Len(t) = Len(s) + Len(x) + 1
      /\ \A i \in 1 .. Len(s) : t[i] = s[i]
      /\ \A j \in 1 .. Len(x) + 1 : t[Len(s) + j] = Line(x)[j]
  <2>1. Len(x) \in Nat
    BY DEF Text
  <2>2. /\ t \in Text /\ Len(s) \in Nat /\ Len(t) = Len(s) + Len(Line(x))
        /\ \A i \in 1 .. Len(s) : t[i] = s[i]
        /\ \A j \in 1 .. Len(Line(x)) : t[Len(s) + j] = Line(x)[j]
    BY <1>1, TextConcat
  <2> HIDE DEF t
  <2>3. Len(t) = Len(s) + Len(x) + 1
    BY <1>1, <2>1, <2>2
  <2> QED BY <1>1, <2>1, <2>2, <2>3
<1> HIDE DEF t
<1>3. /\ l \in 0 .. Len(x)
      /\ l > 0 => x[l] \notin TrimChar
      /\ \A j \in 1 .. Len(x) : x[j] \notin TrimChar => j <= l
  BY TrimIs
<1>4. /\ q \in 0 .. Len(t)
      /\ q > 0 => t[q] \notin TrimChar
      /\ \A i \in 1 .. Len(t) : t[i] \notin TrimChar => i <= q
      /\ BasicTrim(t) \in Text /\ Len(BasicTrim(t)) = q
      /\ \A i \in 1 .. q : BasicTrim(t)[i] = t[i]
  BY <1>2, TrimIs
<1> HIDE DEF l, q
<1>9. q \in Nat /\ l \in Nat /\ Len(s) \in Nat
  BY <1>2, <1>3, <1>4
<1>5. NullChar \in TrimChar
  BY DEF TrimChar
\* Behind s only what is solid in x is.
<1>6. q > Len(s) => q - Len(s) \in 1 .. l /\ q = Len(s) + (q - Len(s))
  <2> SUFFICES ASSUME q > Len(s) PROVE q - Len(s) \in 1 .. l
    BY <1>2, <1>4
  <2>1. PICK j \in Nat : q = Len(s) + j
    <3>1. q - Len(s) \in Nat /\ q = Len(s) + (q - Len(s))
      BY <1>9
    <3> QED BY <3>1
  <2>2. j \in 1 .. Len(x) + 1
    BY <1>2, <1>4, <2>1
  <2>3. Line(x)[j] \notin TrimChar
    <3>1. q > 0
      BY <1>2, <1>4
    <3>2. t[q] = Line(x)[j]
      BY <1>2, <2>1, <2>2
    <3> QED BY <1>4, <3>1, <3>2
  <2>4. j # Len(x) + 1
    BY <1>1, <1>5, <2>3
  <2>5. j \in 1 .. Len(x)
    BY <1>2, <2>2, <2>4
  <2>6. j <= l
    BY <1>1, <1>3, <2>3, <2>5
  <2>7. q - Len(s) = j
    BY <1>2, <2>1
  <2> QED BY <1>2, <1>3, <2>2, <2>6, <2>7
<1>7. CASE l > 0
  <2>1. l \in 1 .. Len(x)
    BY <1>2, <1>3, <1>7
  <2>2. Len(s) + l <= q
    <3>1. l \in 1 .. Len(x) + 1 /\ Len(s) + l \in 1 .. Len(t)
      BY <1>2, <2>1
    <3>2. t[Len(s) + l] = x[l]
      BY <1>1, <1>2, <2>1, <3>1
    <3> QED BY <1>3, <1>4, <1>7, <3>1, <3>2
  <2>3. q = Len(s) + l
    <3>1. q > Len(s)
      BY <1>9, <1>7, <2>2
    <3>2. q - Len(s) <= l
      BY <1>9, <1>6, <3>1
    <3> QED BY <1>9, <2>2, <3>2
  <2> DEFINE e == BasicTrim(x)
             r == s \o e
  <2>4. /\ e \in Text /\ Len(e) = l
        /\ \A j \in 1 .. l : e[j] = x[j]
    BY TrimIs DEF l
  <2>5. e # <<>>
    BY <1>7, BlankIs DEF l
  <2> HIDE DEF e
  <2>6. /\ r \in Text /\ Len(r) = Len(s) + l
        /\ \A i \in 1 .. Len(s) : r[i] = s[i]
        /\ \A j \in 1 .. l : r[Len(s) + j] = e[j]
    BY <2>4, TextConcat
  <2> HIDE DEF r
  <2>7. ASSUME NEW i \in 1 .. q PROVE BasicTrim(t)[i] = r[i]
    <3>1. BasicTrim(t)[i] = t[i]
      BY <1>4
    <3>2. CASE i <= Len(s)
      BY <1>2, <2>6, <3>1, <3>2
    <3>3. CASE i > Len(s)
      <4>1. PICK j \in 1 .. l : i = Len(s) + j
        <5>1. i - Len(s) \in 1 .. l /\ i = Len(s) + (i - Len(s))
          BY <1>9, <2>3, <3>3
        <5> QED BY <5>1
      <4>2. j \in 1 .. Len(x) /\ j \in 1 .. Len(x) + 1
        BY <1>2, <2>1
      <4>3. t[i] = x[j]
        BY <1>1, <1>2, <4>1, <4>2
      <4>4. r[i] = x[j]
        BY <2>4, <2>6, <4>1
      <4> QED BY <3>1, <4>3, <4>4
    <3> QED BY <1>2, <3>2, <3>3
  <2>8. BasicTrim(t) = r
    BY <1>4, <2>3, <2>6, <2>7, TextEqual
  <2> QED BY <2>5, <2>8 DEF t, e, r
<1>8. CASE ~(l > 0)
  <2> DEFINE r == LastOf(s)
             b == BasicTrim(s)
  <2>1. l = 0
    BY <1>2, <1>3, <1>8
  <2>2. BasicTrim(x) = <<>>
    BY <2>1, BlankIs DEF l
  <2>3. /\ r \in 0 .. Len(s)
        /\ r > 0 => s[r] \notin TrimChar
        /\ \A i \in 1 .. Len(s) : s[i] \notin TrimChar => i <= r
        /\ b \in Text /\ Len(b) = r /\ \A i \in 1 .. r : b[i] = s[i]
    BY TrimIs
  <2> HIDE DEF r, b
  <2>4. q \in 0 .. Len(s)
    BY <1>2, <1>4, <1>6, <2>1
  <2>5. r <= q
    <3>1. CASE r = 0
      BY <2>4, <3>1
    <3>2. CASE r # 0
      <4>1. r \in 1 .. Len(s) /\ r \in 1 .. Len(t) /\ r > 0
        BY <1>2, <2>3, <3>2
      <4> QED BY <1>2, <1>4, <2>3, <4>1
    <3> QED BY <3>1, <3>2
  <2>6. q <= r
    <3>1. CASE q = 0
      BY <2>3, <3>1
    <3>2. CASE q # 0
      <4>1. q \in 1 .. Len(s) /\ q > 0
        BY <1>2, <2>4, <3>2
      <4> QED BY <1>2, <1>4, <2>3, <4>1
    <3> QED BY <3>1, <3>2
  <2>7. q = r
    BY <1>2, <2>3, <2>4, <2>5, <2>6
  <2>8. ASSUME NEW i \in 1 .. q PROVE BasicTrim(t)[i] = b[i]
    <3>1. i \in 1 .. Len(s)
      BY <1>2, <2>4
    <3> QED BY <1>2, <1>4, <2>3, <2>7, <3>1
  <2>9. BasicTrim(t) = b
    BY <1>4, <2>3, <2>7, <2>8, TextEqual
  <2> QED BY <2>2, <2>9 DEF t, b
<1> QED BY <1>7, <1>8

\* The last of some texts that is seen.
LastSeen(texts) == Max({0} \cup {i \in DOMAIN texts : BasicTrim(texts[i]) # <<>>})

LEMMA VisibleIs ==
  ASSUME NEW texts \in Seq(Text)
  PROVE  /\ LastSeen(texts) \in 0 .. Len(texts)
         /\ \A i \in 1 .. Len(texts) : BasicTrim(texts[i]) # <<>> => i <= LastSeen(texts)
         /\ Visible(texts) \in Seq(Text) /\ Len(Visible(texts)) = LastSeen(texts)
         /\ \A i \in 1 .. LastSeen(texts) - 1 : Visible(texts)[i] = texts[i]
         /\ LastSeen(texts) > 0 =>
              /\ Visible(texts)[LastSeen(texts)] = BasicTrim(texts[LastSeen(texts)])
              /\ BasicTrim(texts[LastSeen(texts)]) # <<>>
<1> DEFINE seen == {0} \cup {i \in DOMAIN texts : BasicTrim(texts[i]) # <<>>}
           l == LastSeen(texts)
<1>1. Len(texts) \in Nat /\ DOMAIN texts = 1 .. Len(texts)
  OBVIOUS
<1>2. seen \in SUBSET (0 .. Len(texts)) /\ seen # {}
  BY <1>1
<1>3. l \in seen /\ \A i \in seen : i <= l
  <2>1. l = Max(seen)
    BY DEF LastSeen
  <2> HIDE DEF seen, l
  <2> QED BY <1>1, <1>2, <2>1, MaxGreatest
<1>4. Visible(texts) = [i \in 1 .. l |-> IF i = l THEN BasicTrim(texts[i]) ELSE texts[i]]
  BY DEF Visible, LastSeen
<1> HIDE DEF l
<1>5. l \in 0 .. Len(texts) /\ l \in Nat
  BY <1>1, <1>2, <1>3
<1>6. \A i \in 1 .. l : texts[i] \in Text /\ BasicTrim(texts[i]) \in Text
  <2> SUFFICES ASSUME NEW i \in 1 .. l PROVE texts[i] \in Text /\ BasicTrim(texts[i]) \in Text
    OBVIOUS
  <2>1. texts[i] \in Text
    BY <1>1, <1>5
  <2> QED BY <2>1, TrimIs
<1>7. Visible(texts) \in [1 .. l -> Text]
  BY <1>4, <1>6
<1>8. Visible(texts) \in Seq(Text) /\ Len(Visible(texts)) = l
  <2>1. Visible(texts) \in Seq(Text)
    BY <1>5, <1>7, FunctionIsSeq
  <2>2. DOMAIN Visible(texts) = 1 .. l
    BY <1>7
  <2> QED BY <1>5, <2>1, <2>2, LenProperties
<1>9. \A i \in 1 .. l - 1 : Visible(texts)[i] = texts[i]
  BY <1>4, <1>5
<1>10. l > 0 => Visible(texts)[l] = BasicTrim(texts[l]) /\ BasicTrim(texts[l]) # <<>>
  BY <1>3, <1>4, <1>5
<1>11. \A i \in 1 .. Len(texts) : BasicTrim(texts[i]) # <<>> => i <= l
  BY <1>1, <1>3
<1> QED BY <1>5, <1>8, <1>9, <1>10, <1>11 DEF l

LEMMA PlainVisible ==
  ASSUME NEW texts \in Seq(PlainText)
  PROVE  Visible(texts) \in Seq(PlainText)
<1> DEFINE l == LastSeen(texts)
           v == Visible(texts)
<1>1. texts \in Seq(Text) /\ \A i \in 1 .. Len(texts) : texts[i] \in PlainText /\ texts[i] \in Text
  BY PlainTexts
<1>2. /\ l \in 0 .. Len(texts) /\ v \in Seq(Text) /\ Len(v) = l
      /\ \A i \in 1 .. l - 1 : v[i] = texts[i]
      /\ l > 0 => v[l] = BasicTrim(texts[l])
  BY <1>1, VisibleIs
<1>3. Len(texts) \in Nat
  OBVIOUS
<1> HIDE DEF l, v
<1>4. ASSUME NEW t \in PlainText PROVE BasicTrim(t) \in PlainText
  <2>1. t \in Text /\ Len(t) \in Nat /\ \A i \in 1 .. Len(t) : t[i] # NullChar
    BY LenProperties DEF PlainText, Text
  <2>2. /\ LastOf(t) \in 0 .. Len(t) /\ BasicTrim(t) \in Text /\ Len(BasicTrim(t)) = LastOf(t)
        /\ \A i \in 1 .. LastOf(t) : BasicTrim(t)[i] = t[i]
    BY <2>1, TrimIs
  <2>3. \A i \in 1 .. LastOf(t) : i \in 1 .. Len(t)
    BY <2>1, <2>2
  <2>4. \A i \in 1 .. Len(BasicTrim(t)) : BasicTrim(t)[i] # NullChar
    BY <2>1, <2>2, <2>3
  <2> QED BY <2>2, <2>4 DEF PlainText
<1>5. ASSUME NEW i \in 1 .. l PROVE v[i] \in PlainText
  <2>1. i \in 1 .. Len(texts)
    BY <1>2, <1>3
  <2>2. CASE i = l
    BY <1>1, <1>2, <1>3, <1>4, <2>1, <2>2
  <2>3. CASE i # l
    <3>1. i \in 1 .. l - 1
      BY <1>2, <1>3, <2>3
    <3> QED BY <1>1, <1>2, <2>1, <3>1
  <2> QED BY <2>2, <2>3
<1>6. v \in [1 .. l -> PlainText]
  <2>1. v \in [1 .. l -> Text]
    BY <1>2, LenProperties
  <2> QED BY <1>5, <2>1
<1>7. l \in Nat
  BY <1>2, <1>3
<1> QED BY <1>6, <1>7, FunctionIsSeq DEF v

\* What is seen of the lines put together is what is seen of the texts.
LEMMA TrimmedLines ==
  ASSUME NEW texts \in Seq(Text)
  PROVE  LET l == LastSeen(texts)
             v == Visible(texts)
         IN  BasicTrim(Lines(texts)) = IF l = 0 THEN <<>> ELSE FirstLines(v, l - 1) \o v[l]
<1> DEFINE l == LastSeen(texts)
           v == Visible(texts)
           F(k) == FirstLines(texts, k)
           N == Len(texts)
<1>1. /\ l \in 0 .. N
      /\ \A i \in 1 .. N : BasicTrim(texts[i]) # <<>> => i <= l
      /\ v \in Seq(Text) /\ Len(v) = l
      /\ \A i \in 1 .. l - 1 : v[i] = texts[i]
      /\ l > 0 => v[l] = BasicTrim(texts[l]) /\ BasicTrim(texts[l]) # <<>>
  BY VisibleIs
<1>2. /\ N \in Nat
      /\ \A i \in 1 .. N : texts[i] \in Text
      /\ \A k \in 0 .. N : F(k) \in Text
      /\ F(0) = <<>>
      /\ \A k \in 1 .. N : F(k) = F(k - 1) \o Line(texts[k])
      /\ Lines(texts) = F(N)
  BY FirstLinesAre
<1> HIDE DEF l, v, F, N
<1>3. ASSUME NEW k \in 1 .. N
      PROVE  BasicTrim(F(k)) = IF BasicTrim(texts[k]) # <<>> THEN F(k - 1) \o BasicTrim(texts[k])
                                                             ELSE BasicTrim(F(k - 1))
  <2>1. k - 1 \in 0 .. N
    BY <1>2
  <2> DEFINE f == F(k - 1)
             t == texts[k]
  <2>2. F(k) = f \o Line(t) /\ f \in Text /\ t \in Text
    BY <1>2, <2>1
  <2> HIDE DEF f, t
  <2>3. BasicTrim(f \o Line(t)) = IF BasicTrim(t) # <<>> THEN f \o BasicTrim(t) ELSE BasicTrim(f)
    BY <2>2, TrimBehind
  <2> QED BY <2>2, <2>3 DEF f, t
<1>4. BasicTrim(F(N)) = BasicTrim(F(l))
  <2> DEFINE Bad == {k \in l .. N : BasicTrim(F(k)) # BasicTrim(F(l))}
  <2> SUFFICES ASSUME Bad # {} PROVE FALSE
    <3>1. N \in l .. N
      BY <1>1, <1>2
    <3> QED BY <3>1
  <2>1. PICK k \in Bad : \A m \in Bad : k <= m
    <3>1. Bad \in SUBSET Nat
      BY <1>1, <1>2
    <3> HIDE DEF Bad
    <3> QED BY <3>1, NatLeast
  <2>2. k \in l .. N /\ BasicTrim(F(k)) # BasicTrim(F(l))
    BY <2>1
  <2>3. k # l
    BY <2>2
  <2>4. k \in 1 .. N /\ ~(k <= l) /\ k - 1 \in l .. N /\ ~(k <= k - 1)
    BY <1>1, <1>2, <2>2, <2>3
  <2>5. BasicTrim(F(k - 1)) = BasicTrim(F(l))
    BY <2>1, <2>4
  <2>6. BasicTrim(texts[k]) = <<>>
    BY <1>1, <2>4
  <2>7. BasicTrim(F(k)) = BasicTrim(F(k - 1))
    BY <1>3, <2>4, <2>6
  <2> QED BY <2>2, <2>5, <2>7
<1>5. CASE l = 0
  <2>1. F(0) \in Text
    BY <1>2
  <2>2. LastOf(F(0)) = 0
    <3>1. LastOf(F(0)) \in 0 .. Len(F(0))
      BY <2>1, TrimIs
    <3> HIDE DEF F
    <3>2. Len(F(0)) = 0
      BY <1>2
    <3> QED BY <3>1, <3>2
  <2>3. BasicTrim(F(0)) = <<>>
    BY <2>1, <2>2, BlankIs
  <2> QED BY <1>2, <1>4, <1>5, <2>3 DEF l
<1>6. CASE l # 0
  <2>1. l \in 1 .. N /\ l > 0 /\ l - 1 \in Nat /\ l - 1 <= N /\ l - 1 <= l
    BY <1>1, <1>2, <1>6
  <2>2. BasicTrim(F(l)) = F(l - 1) \o BasicTrim(texts[l])
    BY <1>1, <1>3, <2>1
  <2>3. FirstLines(texts, l - 1) = FirstLines(v, l - 1)
    <3>1. \A i \in 1 .. l - 1 : texts[i] = v[i]
      BY <1>1
    <3> QED BY <1>1, <2>1, <3>1, SameFirstLines DEF N
  <2>4. F(l - 1) = FirstLines(v, l - 1) /\ BasicTrim(texts[l]) = v[l]
    BY <1>1, <2>1, <2>3 DEF F
  <2> QED BY <1>2, <1>4, <1>6, <2>2, <2>4 DEF l, v
<1> QED BY <1>5, <1>6

\* Buffers are the same, trimmed, just when what can be told of them is: the null
\* character behind each text keeps them apart.
LEMMA VisibleTells ==
  ASSUME NEW a \in Seq(PlainText), NEW b \in Seq(PlainText)
  PROVE  BasicTrim(Lines(a)) = BasicTrim(Lines(b)) <=> Visible(a) = Visible(b)
<1> DEFINE Joined_(v) == IF Len(v) = 0 THEN <<>> ELSE FirstLines(v, Len(v) - 1) \o v[Len(v)]
           va == Visible(a)
           vb == Visible(b)
<1>1. ASSUME NEW c \in Seq(PlainText)
      PROVE  /\ Visible(c) \in Seq(PlainText)
             /\ BasicTrim(Lines(c)) = Joined_(Visible(c))
             /\ Len(Visible(c)) # 0 => Visible(c)[Len(Visible(c))] # <<>>
  <2>1. c \in Seq(Text)
    BY PlainTexts
  <2>2. /\ Len(Visible(c)) = LastSeen(c) /\ LastSeen(c) \in 0 .. Len(c) /\ Len(c) \in Nat
        /\ LastSeen(c) > 0 => Visible(c)[LastSeen(c)] # <<>>
    BY <2>1, VisibleIs
  <2>3. Len(Visible(c)) # 0 => LastSeen(c) > 0
    BY <2>2
  <2>4. BasicTrim(Lines(c)) = Joined_(Visible(c))
    BY <2>1, <2>2, TrimmedLines
  <2> QED BY <2>2, <2>3, <2>4, PlainVisible
<1>2. ASSUME NEW v \in Seq(PlainText), Len(v) # 0
      PROVE  /\ Lines(v) = Joined_(v) \o <<NullChar>>
             /\ v[Len(v)] # <<>> => Joined_(v) # <<>>
  <2> DEFINE n == Len(v)
             first == FirstLines(v, n - 1)
             last == v[n]
  <2>1. v \in Seq(Text) /\ n \in Nat /\ \A i \in 1 .. n : v[i] \in Text
    BY PlainTexts
  <2>2. n \in 1 .. n /\ n - 1 \in 0 .. n
    BY <1>2, <2>1
  <2>3. first \in Text /\ last \in Text /\ Lines(v) = first \o Line(last)
    <3> HIDE DEF n
    <3> QED BY <2>1, <2>2, FirstLinesAre DEF n
  <2>4. Joined_(v) = first \o last
    BY <1>2
  <2> HIDE DEF n, first, last, Joined_
  <2>5. PICK c \in Character : c = NullChar
    BY LiteralAssumption
  <2>6. first \in Seq(Character) /\ last \in Seq(Character) /\ <<c>> \in Seq(Character)
    BY <2>3, <2>5 DEF Text
  <2>7. Line(last) = last \o <<c>>
    BY <2>5, <2>6, AppendIsConcat DEF Line
  <2>8. (first \o last) \o <<c>> = first \o (last \o <<c>>)
    BY <2>6, ConcatAssociative
  <2>9. last # <<>> => first \o last # <<>>
    BY <2>6, ConcatEqualIffEmpty
  <2> QED BY <2>3, <2>4, <2>5, <2>7, <2>8, <2>9 DEF last, n
<1>3. va \in Seq(PlainText) /\ vb \in Seq(PlainText)
  BY <1>1
<1>4. /\ BasicTrim(Lines(a)) = Joined_(va) /\ BasicTrim(Lines(b)) = Joined_(vb)
      /\ Len(va) # 0 => va[Len(va)] # <<>>
      /\ Len(vb) # 0 => vb[Len(vb)] # <<>>
  BY <1>1
<1>5. va = vb => Joined_(va) = Joined_(vb)
  OBVIOUS
<1>6. /\ Len(va) = 0 => Joined_(va) = <<>> /\ va = <<>>
      /\ Len(vb) = 0 => Joined_(vb) = <<>> /\ vb = <<>>
  BY <1>3, EmptySeq
<1> HIDE DEF va, vb, Joined_
<1>7. ASSUME Joined_(va) = Joined_(vb) PROVE va = vb
  <2>1. CASE Len(va) = 0
    BY <1>2, <1>3, <1>4, <1>6, <1>7, <2>1
  <2>2. CASE Len(vb) = 0
    BY <1>2, <1>3, <1>4, <1>6, <1>7, <2>2
  <2>3. CASE Len(va) # 0 /\ Len(vb) # 0
    <3>1. Lines(va) = Lines(vb)
      BY <1>2, <1>3, <1>7, <2>3
    <3> QED BY <1>3, <3>1, LinesTell
  <2> QED BY <2>1, <2>2, <2>3
<1> QED BY <1>4, <1>5, <1>7 DEF va, vb

\* One more line.
LEMMA OneMoreLine ==
  ASSUME NEW texts \in Seq(Text), NEW text \in Text
  PROVE  Lines(texts \o <<text>>) = AddLine(Lines(texts), text)
<1> DEFINE n == Len(texts)
           more == texts \o <<text>>
<1>1. /\ more \in Seq(Text) /\ n \in Nat /\ Len(more) = n + 1
      /\ \A i \in 1 .. n : more[i] = texts[i]
      /\ more[n + 1] = text
  OBVIOUS
<1> HIDE DEF more, n
<1>2. n <= Len(texts) /\ n <= Len(more) /\ n + 1 - 1 = n /\ n + 1 \in 1 .. Len(more)
  BY <1>1 DEF n
<1>3. FirstLines(more, n) = FirstLines(texts, n)
  BY <1>1, <1>2, SameFirstLines
<1>4. FirstLines(texts, n) = Lines(texts)
  BY FirstLinesAre DEF n
<1>5. Lines(more) = FirstLines(more, n + 1)
  BY <1>1, FirstLinesAre
<1>6. FirstLines(more, n + 1) = FirstLines(more, n) \o Line(text)
  <2>1. PICK m \in 1 .. Len(more) : m = n + 1
    BY <1>2
  <2>2. FirstLines(more, m) = FirstLines(more, m - 1) \o Line(more[m])
    BY <1>1, FirstLinesAre
  <2>3. m - 1 = n
    BY <1>1, <2>1
  <2> QED BY <1>1, <2>1, <2>2, <2>3
<1> QED BY <1>3, <1>4, <1>5, <1>6 DEF AddLine, more

LEMMA NoLines == Lines(<<>>) = <<>>
<1>1. <<>> \in Seq(Text) /\ Len(<<>>) = 0
  OBVIOUS
<1> QED BY <1>1, FirstLinesAre

\* What is reported, with the null characters the lexer met.
LEMMA MessagesAre ==
  ASSUME NEW n \in Nat, NEW found \in Seq(Diagnostic)
  PROVE  LET all == [i \in 1 .. n |-> NullCharacterIgnored] \o found
         IN  /\ HasErrorOccurred(all) <=> HasErrorOccurred(found)
             /\ Messages(Error, all) = Messages(Error, found)
             /\ Messages({"Warning"}, all) =
                  Messages({"Warning"}, found)
                    \cup (IF n > 0 THEN {NullCharacterIgnored.message} ELSE {})
<1> DEFINE D == {NullCharacterIgnored} \cup Diagnostic
           nulls == [i \in 1 .. n |-> NullCharacterIgnored]
           all == nulls \o found
           N == NullCharacterIgnored
           m == Len(found)
<1>1. nulls \in Seq(D) /\ Len(nulls) = n /\ \A i \in 1 .. n : nulls[i] = N
  <2>1. nulls \in [1 .. n -> D]
    OBVIOUS
  <2> HIDE DEF D
  <2>2. nulls \in Seq(D) /\ DOMAIN nulls = 1 .. n /\ \A i \in 1 .. n : nulls[i] = N
    BY <2>1, FunctionIsSeq
  <2> HIDE DEF nulls
  <2> QED BY <2>2, LenProperties
<1>2. found \in Seq(D) /\ m \in Nat /\ DOMAIN found = 1 .. m
  BY SeqMonotonic, LenProperties
<1>3. N.level = "Warning" /\ N.level \notin Error /\ N.level \in {"Warning"}
  BY DEF NullCharacterIgnored, Error
<1> HIDE DEF D, nulls, N
<1>4. /\ DOMAIN all = 1 .. n + m
      /\ \A i \in 1 .. n + m : all[i] = IF i <= n THEN nulls[i] ELSE found[i - n]
  <2>1. /\ all \in Seq(D) /\ Len(all) = Len(nulls) + Len(found)
        /\ \A i \in 1 .. Len(nulls) + Len(found) :
             all[i] = IF i <= Len(nulls) THEN nulls[i] ELSE found[i - Len(nulls)]
    BY <1>1, <1>2, ConcatProperties
  <2> HIDE DEF all
  <2>2. DOMAIN all = 1 .. Len(all)
    BY <2>1, LenProperties
  <2> QED BY <1>1, <2>1, <2>2
<1> HIDE DEF all, m
<1>5. ASSUME NEW i \in 1 .. n PROVE i \in DOMAIN all /\ all[i] = N
  BY <1>1, <1>2, <1>4
<1>6. ASSUME NEW j \in DOMAIN found PROVE n + j \in DOMAIN all /\ all[n + j] = found[j]
  <2>1. n + j \in 1 .. n + m /\ ~(n + j <= n) /\ n + j - n = j
    BY <1>2
  <2> QED BY <1>4, <2>1
<1>7. ASSUME NEW i \in DOMAIN all
      PROVE  (i \in 1 .. n /\ all[i] = N) \/ \E j \in DOMAIN found : all[i] = found[j]
  <2>1. CASE i <= n
    BY <1>1, <1>2, <1>4, <2>1
  <2>2. CASE ~(i <= n)
    <3>1. i - n \in DOMAIN found /\ all[i] = found[i - n]
      BY <1>2, <1>4, <2>2
    <3> QED BY <3>1
  <2> QED BY <2>1, <2>2
<1>8. HasErrorOccurred(all) <=> HasErrorOccurred(found)
  BY <1>3, <1>6, <1>7 DEF HasErrorOccurred
<1>9. Messages(Error, all) = Messages(Error, found)
  BY <1>3, <1>6, <1>7 DEF Messages
<1>10. Messages({"Warning"}, all) =
         Messages({"Warning"}, found) \cup (IF n > 0 THEN {N.message} ELSE {})
  <2>1. n > 0 => 1 \in 1 .. n
    OBVIOUS
  <2>2. \A i \in 1 .. n : n > 0
    OBVIOUS
  <2>3. ASSUME NEW x \in Messages({"Warning"}, all)
        PROVE  x \in Messages({"Warning"}, found) \cup (IF n > 0 THEN {N.message} ELSE {})
    <3>1. PICK i \in DOMAIN all : all[i].level \in {"Warning"} /\ x = all[i].message
      BY DEF Messages
    <3> QED BY <1>7, <2>2, <3>1 DEF Messages
  <2>4. ASSUME NEW x \in Messages({"Warning"}, found) PROVE x \in Messages({"Warning"}, all)
    <3>1. PICK j \in DOMAIN found : found[j].level \in {"Warning"} /\ x = found[j].message
      BY DEF Messages
    <3> QED BY <1>6, <3>1 DEF Messages
  <2>5. ASSUME n > 0 PROVE N.message \in Messages({"Warning"}, all)
    BY <1>3, <1>5, <2>1, <2>5 DEF Messages
  <2> QED BY <2>3, <2>4, <2>5
<1> QED BY <1>8, <1>9, <1>10 DEF all, nulls, N

-----------------------------------------------------------------------------
(* The verdicts and the scripts.                                           *)

LEMMA GivenScripts ==
  ASSUME argument \in Argument
  PROVE  Given \subseteq Scripts
BY ScriptAssumption, DirectoryAssumption DEF Given, Argument

\* A verdict behind the others.
LEMMA ReportKept ==
  ASSUME RunnerInv, NEW f \in Given, NEW passed \in BOOLEAN,
         reports' = Append(reports, [script |-> f, passed |-> passed]), UNCHANGED argument
  PROVE  /\ reports' \in Seq([script: Given, passed: BOOLEAN])'
         /\ Judged' = Judged \cup {f}
         /\ f \notin Judged =>
              \A m, n \in DOMAIN reports' : reports'[m].script = reports'[n].script => m = n
<1> DEFINE k == Len(reports)
           R == [script: Given, passed: BOOLEAN]
           r == [script |-> f, passed |-> passed]
<1>1. reports \in Seq(R) /\ r \in R /\ r.script = f /\ R' = R
  BY DEF RunnerInv, Given
<1> HIDE DEF R, r
<1>2. /\ k \in Nat /\ DOMAIN reports = 1 .. k
      /\ reports' \in Seq(R) /\ DOMAIN reports' = 1 .. k + 1
      /\ \A n \in 1 .. k : reports'[n] = reports[n]
      /\ reports'[k + 1].script = f
  BY <1>1 DEF r
<1>3. Judged' = Judged \cup {f}
  BY <1>2 DEF Judged
<1>4. ASSUME f \notin Judged, NEW m \in 1 .. k + 1, NEW n \in 1 .. k + 1,
             reports'[m].script = reports'[n].script
      PROVE  m = n
  <2>1. \A l \in 1 .. k : reports'[l].script \in Judged /\ reports'[l].script # f
    BY <1>2, <1>4 DEF Judged
  <2>2. CASE m \in 1 .. k /\ n \in 1 .. k
    BY <1>2, <1>4, <2>2 DEF RunnerInv, EachOnce
  <2>3. CASE m = k + 1 \/ n = k + 1
    <3>1. \A l \in 1 .. k + 1 : l \in 1 .. k \/ l = k + 1
      BY <1>2
    <3> QED BY <1>2, <1>4, <2>1, <2>3, <3>1
  <2>4. \A l \in 1 .. k + 1 : l \in 1 .. k \/ l = k + 1
    BY <1>2
  <2> QED BY <2>2, <2>3, <2>4
<1> QED BY <1>1, <1>2, <1>3, <1>4 DEF R

LEMMA RunnerInit ==
  ASSUME Init
  PROVE  RunnerInv
<1>1. /\ argument \in Argument /\ phase = "starting" /\ files = {} /\ reports = <<>>
      /\ DOMAIN reports = {}
  BY DEF Init
<1>2. Judged = {} /\ Pending = {}
  BY <1>1 DEF Judged, Pending
<1> QED BY <1>1, <1>2 DEF RunnerInv, EachOnce

LEMMA ReturnKeeps ==
  ASSUME RunnerInv, NEW code, Return(code), phase \notin {"lexing", "running", "comparing", "killed"},
         files = {},
         phase = "starting" => argument.kind # "directory",
         argument.kind = "directory" =>
           code = IF \A n \in DOMAIN reports : reports[n].passed THEN 0 ELSE 1
  PROVE  RunnerInv'
<1>1. /\ phase' = "over" /\ exitCode' = code
      /\ UNCHANGED <<argument, files, reports>>
  BY DEF Return
<1>2. Judged' = Judged /\ Given' = Given /\ Pending = {} /\ Pending' = {}
  BY <1>1 DEF Judged, Given, Pending
<1>3. phase = "starting" => Given = {} /\ Judged = {}
  BY DEF Given, Judged, RunnerInv
<1>4. EachOnce'
  BY <1>1, <1>2, <1>3 DEF EachOnce, RunnerInv, ScriptsIn
<1> QED BY <1>1, <1>2, <1>4 DEF RunnerInv

\* The script that is being judged goes on.
LEMMA SameScriptKeeps ==
  ASSUME RunnerInv, UNCHANGED <<argument, files, reports, script>>,
         phase \in {"lexing", "running", "comparing", "killed"},
         phase' \in {"lexing", "running", "comparing", "killed"}
  PROVE  RunnerInv'
<1>1. Judged' = Judged /\ Given' = Given /\ Pending' = Pending
  BY DEF Judged, Given, Pending
<1>2. EachOnce'
  BY <1>1 DEF EachOnce, RunnerInv, ScriptsIn
<1> QED BY <1>1, <1>2 DEF RunnerInv

LEMMA RunnerStep ==
  ASSUME RunnerInv, Next
  PROVE  RunnerInv'
<1>1. ASSUME MissingArgument \/ MissingDirectory PROVE RunnerInv'
  <2>1. PICK code : Return(code)
    BY <1>1 DEF MissingArgument, MissingDirectory
  <2>2. phase = "starting" /\ argument.kind # "directory" /\ files = {}
    BY <1>1 DEF MissingArgument, MissingDirectory, RunnerInv
  <2> QED BY <2>1, <2>2, ReturnKeeps
<1>2. ASSUME OpenDirectory PROVE RunnerInv'
  <2>1. /\ phase = "starting" /\ phase' = "choosing" /\ files' = Given
        /\ UNCHANGED <<argument, reports>> /\ reports = <<>> /\ DOMAIN reports = {}
    BY <1>2 DEF OpenDirectory, RunnerInv, Given
  <2>2. Judged' = {} /\ Given' = Given /\ Pending' = {}
    BY <2>1 DEF Judged, Given, Pending
  <2>3. EachOnce'
    BY <2>1, <2>2 DEF EachOnce, ScriptsIn
  <2> QED BY <2>1, <2>2, <2>3 DEF RunnerInv
<1>3. ASSUME NEW f \in files, SkipEntry(f) PROVE RunnerInv'
  <2>1. /\ phase = "choosing" /\ ~f.isScript /\ files' = files \ {f}
        /\ UNCHANGED <<argument, phase, script, reports>>
    BY <1>3 DEF SkipEntry
  <2>2. Judged' = Judged /\ Given' = Given /\ Pending' = {} /\ Pending = {}
    BY <2>1 DEF Judged, Given, Pending
  <2>3. ScriptsIn(files) = ScriptsIn(files \ {f})
    BY <2>1 DEF ScriptsIn
  <2>4. EachOnce'
    BY <2>1, <2>2, <2>3 DEF EachOnce, RunnerInv, ScriptsIn
  <2> QED BY <2>1, <2>2, <2>4 DEF RunnerInv
<1>4. ASSUME NEW f \in files, LoadFails(f) PROVE RunnerInv'
  <2>1. /\ phase = "choosing" /\ phase' = "choosing" /\ f.isScript /\ files' = files \ {f}
        /\ reports' = Append(reports, [script |-> f, passed |-> FALSE])
        /\ UNCHANGED argument /\ f \in Given /\ f \notin Judged
    BY <1>4 DEF LoadFails, Report, RunnerInv, EachOnce
  <2>2. /\ reports' \in Seq([script: Given, passed: BOOLEAN])'
        /\ Judged' = Judged \cup {f}
        /\ \A m, n \in DOMAIN reports' : reports'[m].script = reports'[n].script => m = n
    BY <2>1, ReportKept
  <2>3. Given' = Given /\ Pending' = {} /\ Pending = {}
    BY <2>1 DEF Given, Pending
  <2>4. ScriptsIn(files) = ScriptsIn(files \ {f}) \cup {f}
    BY <1>4, <2>1 DEF ScriptsIn
  <2>5. ScriptsIn(Given) = Judged \cup ScriptsIn(files) /\ Judged \cap files = {}
    BY <2>1, <2>3 DEF RunnerInv, EachOnce
  <2>6. EachOnce'
    BY <2>1, <2>2, <2>3, <2>4, <2>5 DEF EachOnce, ScriptsIn
  <2> QED BY <2>1, <2>2, <2>3, <2>6 DEF RunnerInv
<1>5. ASSUME NEW f \in files, LoadFile(f) PROVE RunnerInv'
  <2>1. /\ phase = "choosing" /\ phase' = "lexing" /\ f.isScript /\ files' = files \ {f}
        /\ script' = f /\ UNCHANGED <<argument, reports>> /\ f \in Given
    BY <1>5 DEF LoadFile, RunnerInv
  <2>2. Judged' = Judged /\ Given' = Given /\ Pending' = {f} /\ Pending = {}
    BY <2>1 DEF Judged, Given, Pending
  <2>3. ScriptsIn(files) = ScriptsIn(files \ {f}) \cup {f}
    BY <1>5, <2>1 DEF ScriptsIn
  <2>4. ScriptsIn(Given) = Judged \cup ScriptsIn(files) /\ Judged \cap files = {}
    BY <2>1, <2>2 DEF RunnerInv, EachOnce
  <2>5. EachOnce'
    BY <1>5, <2>1, <2>2, <2>3, <2>4 DEF EachOnce, RunnerInv, ScriptsIn
  <2> QED BY <2>1, <2>2, <2>5 DEF RunnerInv
<1>6. ASSUME Lex \/ Prepare \/ ScriptWrites \/ ScriptEnds PROVE RunnerInv'
  <2>1. /\ UNCHANGED <<argument, files, reports, script>>
        /\ phase \in {"lexing", "running", "comparing", "killed"}
        /\ phase' \in {"lexing", "running", "comparing", "killed"}
    BY <1>6 DEF Lex, Prepare, ScriptWrites, ScriptEnds, runnerVars
  <2> QED BY <2>1, SameScriptKeeps
<1>7. ASSUME Compare PROVE RunnerInv'
  <2> DEFINE passed == ExpectsMatched(block, outBuffer, diagnostics)
  <2>1. /\ phase = "comparing" /\ phase' = "choosing"
        /\ reports' = Append(reports, [script |-> script, passed |-> passed])
        /\ UNCHANGED <<argument, files>>
    BY <1>7 DEF Compare, Report
  <2>2. Pending = {script} /\ script \in Given /\ script \notin Judged /\ Pending' = {}
        /\ script \notin files
    BY <2>1 DEF RunnerInv, EachOnce, Pending
  <2>3. passed \in BOOLEAN
    BY DEF ExpectsMatched
  <2> HIDE DEF passed
  <2>4. /\ reports' \in Seq([script: Given, passed: BOOLEAN])'
        /\ Judged' = Judged \cup {script}
        /\ \A m, n \in DOMAIN reports' : reports'[m].script = reports'[n].script => m = n
    BY <2>1, <2>2, <2>3, ReportKept
  <2>5. Given' = Given
    BY <2>1 DEF Given
  <2>6. EachOnce'
    BY <2>1, <2>2, <2>4, <2>5 DEF EachOnce, RunnerInv, ScriptsIn
  <2> QED BY <2>1, <2>2, <2>4, <2>5, <2>6 DEF RunnerInv
<1>8. ASSUME Finish PROVE RunnerInv'
  <2> DEFINE code == IF Failures # {} THEN 1 ELSE 0
  <2>1. phase = "choosing" /\ files = {} /\ Return(code)
    BY <1>8 DEF Finish
  <2>2. code = IF \A n \in DOMAIN reports : reports[n].passed THEN 0 ELSE 1
    BY DEF Failures
  <2> HIDE DEF code
  <2> QED BY <2>1, <2>2, ReturnKeeps
<1> QED BY <1>1, <1>2, <1>3, <1>4, <1>5, <1>6, <1>7, <1>8 DEF Next

LEMMA RunnerStutters ==
  ASSUME RunnerInv, UNCHANGED testVars
  PROVE  RunnerInv'
<1>1. UNCHANGED <<argument, phase, files, script, reports, exitCode>>
  BY DEF testVars, runnerVars
<1>2. Judged' = Judged /\ Given' = Given /\ Pending' = Pending
  BY <1>1 DEF Judged, Given, Pending
<1>3. EachOnce'
  BY <1>1, <1>2 DEF EachOnce, RunnerInv, ScriptsIn
<1> QED BY <1>1, <1>2, <1>3 DEF RunnerInv

\* A step of the runner is a turn of the lexer, leaves the lexer alone, or gives
\* it a source from the beginning.
LEMMA LexerStep ==
  ASSUME RunnerInv, LexerInv, [Next]_testVars
  PROVE  LexerInv'
<1>1. CASE GetNextToken
  BY <1>1, TurnKeepsInv
<1>2. CASE UNCHANGED lexerVars
  BY <1>2, StutterKeepsInv
<1>3. ASSUME NEW f \in files, LoadFile(f) PROVE LexerInv'
  <2>1. f \in Scripts
    BY GivenScripts DEF RunnerInv
  <2>2. source' \in Seq(Character)
    BY <1>3, <2>1, SourceAssumption DEF LoadFile, Begin, Scripts
  <2>3. Fresh'
    BY <1>3 DEF LoadFile, Begin, Fresh
  <2> QED BY <2>2, <2>3, FreshInvNext
<1>4. \/ GetNextToken
      \/ UNCHANGED lexerVars
      \/ \E f \in files : LoadFile(f)
  BY DEF Next, MissingArgument, MissingDirectory, Return, OpenDirectory, SkipEntry, LoadFails,
         Lex, Prepare, ScriptWrites, ScriptEnds, Compare, Finish, testVars
<1> QED BY <1>1, <1>2, <1>3, <1>4

-----------------------------------------------------------------------------
(* Types.                                                                  *)

\* The types of what process_file works on.
WorkTypes ==
  /\ script \in Given \cup {NoScript}
  /\ block \in [stdout: Text, stderr: Text, warnings: SUBSET Text, errors: SUBSET Text]
  /\ diagnostics \in Seq(Diagnostic)
  /\ outBuffer \in [stdout: Text, stderr: Text]
  /\ written \in Nat
  /\ exitCode \in 0 .. 3

LEMMA TypesAre ==
  ASSUME RunnerInv, LexerInv, WorkTypes
  PROVE  TypeOK
<1>1. argument.kind \in {"none", "missing", "directory"}
  BY DEF RunnerInv, Argument
<1> QED BY <1>1 DEF RunnerInv, LexerInv, WorkTypes, TypeOK

LEMMA PendingScript ==
  ASSUME RunnerInv, phase \in {"lexing", "running", "comparing", "killed"}
  PROVE  script \in Given /\ script \in Scripts
BY GivenScripts DEF RunnerInv, Pending

LEMMA ReportedType ==
  ASSUME LexerTypeOK, NEW f \in Scripts
  PROVE  [i \in 1 .. nullCharacters |-> NullCharacterIgnored] \o f.found \in Seq(Diagnostic)
<1>1. PICK c \in Character : c = "null character ignored"
  BY LiteralAssumption
<1>2. <<c>> \in Text
  BY DEF Text
<1>3. NullCharacterIgnored \in Diagnostic
  BY <1>1, <1>2 DEF NullCharacterIgnored, Diagnostic
<1>4. nullCharacters \in Nat /\ f.found \in Seq(Diagnostic)
  BY DEF LexerTypeOK, Scripts
<1>5. [i \in 1 .. nullCharacters |-> NullCharacterIgnored] \in Seq(Diagnostic)
  BY <1>3, <1>4, FunctionIsSeq
<1> QED BY <1>4, <1>5, ConcatProperties

LEMMA WorkInit ==
  ASSUME Init
  PROVE  WorkTypes
<1>1. <<>> \in Seq(Expectation) /\ <<>> \in Text /\ <<>> \in Seq(Diagnostic)
  BY DEF Text
<1>2. block \in [stdout: Text, stderr: Text, warnings: SUBSET Text, errors: SUBSET Text]
  BY <1>1, BlockType DEF Init, NoBlock
<1>3. outBuffer \in [stdout: Text, stderr: Text]
  BY <1>1 DEF Init, NoBuffer
<1> QED BY <1>1, <1>2, <1>3 DEF Init, WorkTypes

LEMMA WorkKept ==
  ASSUME RunnerInv, LexerInv, WorkTypes, [Next]_testVars
  PROVE  WorkTypes'
<1>1. ASSUME UNCHANGED <<argument, script, block, diagnostics, outBuffer, written>>,
             exitCode' \in 0 .. 3
      PROVE  WorkTypes'
  BY <1>1 DEF WorkTypes, Given
<1>2. ASSUME MissingArgument \/ MissingDirectory \/ Finish PROVE WorkTypes'
  BY <1>1, <1>2 DEF MissingArgument, MissingDirectory, Finish, Return
<1>3. ASSUME \/ OpenDirectory \/ Lex \/ ScriptEnds \/ Compare \/ UNCHANGED testVars
             \/ \E f \in files : SkipEntry(f) \/ LoadFails(f)
      PROVE  WorkTypes'
  BY <1>1, <1>3 DEF OpenDirectory, Lex, ScriptEnds, Compare, SkipEntry, LoadFails, testVars,
                    runnerVars, WorkTypes
<1>4. ASSUME NEW f \in files, LoadFile(f) PROVE WorkTypes'
  BY <1>4 DEF LoadFile, WorkTypes, Given, RunnerInv
<1>5. ASSUME Prepare PROVE WorkTypes'
  <2>1. script \in Scripts
    BY <1>5, PendingScript DEF Prepare
  <2>2. block' \in [stdout: Text, stderr: Text, warnings: SUBSET Text, errors: SUBSET Text]
    <3>1. UpToEmpty(Captured(stream)) \in Seq(Expectation)
      BY CapturedType, UpToEmptyType DEF LexerInv
    <3> QED BY <1>5, <3>1, BlockType DEF Prepare, ExtractExpectedBlock
  <2>3. diagnostics' \in Seq(Diagnostic)
    BY <1>5, <2>1, ReportedType DEF Prepare, LexerInv
  <2>4. outBuffer' \in [stdout: Text, stderr: Text]
    <3>1. <<>> \in Text
      BY DEF Text
    <3> QED BY <1>5, <3>1 DEF Prepare, NoBuffer
  <2> QED BY <1>5, <2>2, <2>3, <2>4 DEF Prepare, WorkTypes, Given
<1>6. ASSUME ScriptWrites PROVE WorkTypes'
  <2> DEFINE entry == script.log[written + 1]
             Entries == [stream: {"stdout", "stderr", "cerr"}, text: Text]
  <2>1. script \in Scripts /\ written \in Nat
    BY <1>6, PendingScript DEF ScriptWrites, WorkTypes
  <2>2. entry.stream \in {"stdout", "stderr", "cerr"} /\ entry.text \in Text
    <3>1. script.log \in Seq(Entries)
      BY <2>1 DEF Scripts
    <3> HIDE DEF Entries
    <3>2. written + 1 \in 1 .. Len(script.log)
      BY <1>6, <2>1, <3>1 DEF ScriptWrites
    <3>3. entry \in Entries
      BY <3>1, <3>2
    <3> QED BY <3>3 DEF Entries
  <2>3. outBuffer' = IF entry.stream = "cerr"
                       THEN outBuffer
                       ELSE [outBuffer EXCEPT ![entry.stream] = AddLine(@, entry.text)]
    BY <1>6 DEF ScriptWrites
  <2> HIDE DEF entry
  <2>4. \A buffer \in Text : AddLine(buffer, entry.text) \in Text
    BY <2>2, LineIs, ConcatProperties DEF AddLine, Text
  <2>5. outBuffer' \in [stdout: Text, stderr: Text]
    BY <2>2, <2>3, <2>4 DEF WorkTypes
  <2>6. written' \in Nat /\ UNCHANGED <<argument, script, block, diagnostics, exitCode>>
    BY <1>6, <2>1 DEF ScriptWrites
  <2> QED BY <2>5, <2>6 DEF WorkTypes, Given
<1> QED BY <1>2, <1>3, <1>4, <1>5, <1>6 DEF Next

-----------------------------------------------------------------------------
(* The verdicts are of the scripts.                                        *)

\* No null character is in what a script writes or expects.
PlainScripts ==
  \A f \in Script :
    /\ \A i \in 1 .. Len(f.log) : f.log[i].text \in PlainText
    /\ \A i \in 1 .. Len(f.expects) : f.expects[i].text \in PlainText

\* If the warning of null characters is expected, one is met just when one is in
\* the source, be it where the lexer does not report it.
NullsTold ==
  NullCharacterIgnored.message
      \in {BasicTrim(t) : t \in ToSet(TextsOf("expect-warning:", script.expects))}
    => (nullCharacters > 0 <=> NullChar \in ToSet(script.source))

\* What the tokens of a source hold, up to what is empty, is what the script's
\* author expects.
ExpectationsFound ==
  phase = "lexing" /\ IsFinished =>
    /\ UpToEmpty(Captured(stream)) = script.expects
    /\ NullsTold

Streams == {"stdout", "stderr"}

\* The work on a script is that script's.
WorkOfTheScript ==
  /\ phase \in {"lexing", "running", "comparing"} => script.loads
  /\ phase \in {"running", "comparing"} =>
       /\ block = Block(script.expects)
       /\ diagnostics = [i \in 1 .. nullCharacters |-> NullCharacterIgnored] \o script.found
       /\ NullsTold
  /\ phase = "running" =>
       /\ ~HasErrorOccurred(script.found)
       /\ written <= Len(script.log)
       /\ \A s \in Streams :
            outBuffer[s] = Lines(TextsUpTo(script.log, EntriesOf(script, s), written))
  /\ phase = "comparing" => \A s \in Streams : outBuffer[s] = Lines(Wrote(script, s))

\* A script that is being judged.
LEMMA ScriptIs ==
  ASSUME PlainScripts, RunnerInv, phase \in {"lexing", "running", "comparing", "killed"}
  PROVE  /\ script \in Scripts
         /\ script.found \in Seq(Diagnostic)
         /\ script.expects \in Seq(Expectation)
         /\ script.log \in Seq([stream: {"stdout", "stderr", "cerr"}, text: Text])
         /\ \A i \in 1 .. Len(script.log) : script.log[i].text \in PlainText
         /\ \A i \in 1 .. Len(script.expects) : script.expects[i].text \in PlainText
<1>1. script \in Given /\ script \in Scripts
  BY PendingScript
<1>2. script \in Script
  BY <1>1, DirectoryAssumption DEF Given, RunnerInv, Argument
<1>3. /\ script.found \in Seq(Diagnostic)
      /\ script.expects \in Seq(Expectation)
      /\ script.log \in Seq([stream: {"stdout", "stderr", "cerr"}, text: Text])
  BY <1>1 DEF Scripts
<1> QED BY <1>1, <1>2, <1>3 DEF PlainScripts

\* What it writes, and what is expected of it.
LEMMA PlainOfScript ==
  ASSUME PlainScripts, RunnerInv, phase \in {"lexing", "running", "comparing", "killed"}
  PROVE  /\ \A s : Wrote(script, s) \in Seq(PlainText)
         /\ \A mark : TextsOf(mark, script.expects) \in Seq(PlainText)
<1> DEFINE log == script.log
           E == [stream: {"stdout", "stderr", "cerr"}, text: Text]
<1>1. /\ script.expects \in Seq(Expectation) /\ log \in Seq(E)
      /\ \A i \in 1 .. Len(log) : log[i].text \in PlainText
      /\ \A i \in 1 .. Len(script.expects) : script.expects[i].text \in PlainText
  BY ScriptIs
<1> HIDE DEF E
<1>2. \A mark : TextsOf(mark, script.expects) \in Seq(PlainText)
  BY <1>1, TextsOfType
<1>3. ASSUME NEW s PROVE TextsUpTo(log, EntriesOf(script, s), Len(log)) \in Seq(PlainText)
  <2> DEFINE chosen == EntriesOf(script, s)
  <2> HIDE DEF chosen, log
  <2>1. Len(log) \in 0 .. Len(log)
    BY <1>1
  <2>2. TextsUpTo(log, chosen, Len(log)) \in Seq(PlainText)
    BY <1>1, <2>1, TextsUpToIs
  <2> QED BY <2>2 DEF chosen
<1>4. <<>> \in Seq(PlainText)
  OBVIOUS
<1> QED BY <1>2, <1>3, <1>4 DEF Wrote

\* The comparison is of what the script wrote with what is expected of it.
LEMMA ComparisonIsOfTheScript ==
  ASSUME PlainScripts, RunnerInv, LexerInv, WorkOfTheScript, phase = "comparing"
  PROVE  ExpectsMatched(block, outBuffer, diagnostics) <=> DoesAsExpected(script)
<1> DEFINE want(mark) == TextsOf(mark, script.expects)
           warnings == {BasicTrim(t) : t \in ToSet(want("expect-warning:"))}
           errors   == {BasicTrim(t) : t \in ToSet(want("expect-error:"))}
           N == NullCharacterIgnored.message
<1>1. /\ script.loads /\ block = Block(script.expects)
      /\ outBuffer.stdout = Lines(Wrote(script, "stdout"))
      /\ outBuffer.stderr = Lines(Wrote(script, "stderr"))
      /\ N \in warnings => (nullCharacters > 0 <=> NullChar \in ToSet(script.source))
  BY DEF WorkOfTheScript, Streams, NullsTold
<1>2. /\ block.stdout = BasicTrim(Lines(want("expect-stdout:")))
      /\ block.stderr = BasicTrim(Lines(want("expect-stderr:")))
      /\ block.warnings = warnings /\ block.errors = errors
  BY <1>1 DEF Block
<1>3. /\ Messages(Error, diagnostics) = Messages(Error, script.found)
      /\ Messages({"Warning"}, diagnostics) =
           Messages({"Warning"}, script.found) \cup (IF nullCharacters > 0 THEN {N} ELSE {})
  <2>1. script.found \in Seq(Diagnostic) /\ nullCharacters \in Nat
    BY ScriptIs DEF LexerInv, LexerTypeOK
  <2>2. diagnostics = [i \in 1 .. nullCharacters |-> NullCharacterIgnored] \o script.found
    BY DEF WorkOfTheScript
  <2> QED BY <2>1, <2>2, MessagesAre
<1>4. /\ Reported(script, Error) = Messages(Error, script.found)
      /\ Reported(script, {"Warning"}) =
           Messages({"Warning"}, script.found)
             \cup (IF NullChar \in ToSet(script.source) THEN {N} ELSE {})
  BY DEF Reported, Error
<1>5. ASSUME NEW s, NEW mark
      PROVE  BasicTrim(Lines(want(mark))) = BasicTrim(Lines(Wrote(script, s)))
               <=> Visible(Wrote(script, s)) = Visible(want(mark))
  <2>1. want(mark) \in Seq(PlainText) /\ Wrote(script, s) \in Seq(PlainText)
    BY PlainOfScript
  <2> HIDE DEF want
  <2> QED BY <2>1, VisibleTells
<1> HIDE DEF N, warnings, errors
<1>6. warnings \subseteq Messages({"Warning"}, diagnostics)
        <=> warnings \subseteq Reported(script, {"Warning"})
  BY <1>1, <1>3, <1>4
<1>7. ExpectsMatched(block, outBuffer, diagnostics) <=>
        /\ Visible(Wrote(script, "stdout")) = Visible(want("expect-stdout:"))
        /\ Visible(Wrote(script, "stderr")) = Visible(want("expect-stderr:"))
        /\ warnings \subseteq Reported(script, {"Warning"})
        /\ errors \subseteq Reported(script, Error)
  <2> HIDE DEF want
  <2> QED BY <1>1, <1>2, <1>3, <1>4, <1>5, <1>6 DEF ExpectsMatched
<1> QED BY <1>1, <1>7 DEF DoesAsExpected, warnings, errors

\* Nothing about the script that is being judged changes.
LEMMA WorkStays ==
  ASSUME WorkOfTheScript,
         UNCHANGED <<phase, script, block, diagnostics, outBuffer, written, nullCharacters>>
  PROVE  WorkOfTheScript'
BY DEF WorkOfTheScript, NullsTold, Wrote, EntriesOf

\* From the source to the expected block, and on to running or comparing.
LEMMA WorkPrepared ==
  ASSUME PlainScripts, RunnerInv, LexerInv, WorkOfTheScript, ExpectationsFound, Prepare
  PROVE  WorkOfTheScript'
<1>1. /\ phase = "lexing" /\ IsFinished /\ UNCHANGED <<script, nullCharacters>>
      /\ block' = Block(UpToEmpty(Captured(stream)))
      /\ diagnostics' = [i \in 1 .. nullCharacters |-> NullCharacterIgnored] \o script.found
      /\ outBuffer' = NoBuffer /\ written' = 0
      /\ phase' = IF HasErrorOccurred(diagnostics') THEN "comparing" ELSE "running"
  BY DEF Prepare, ExtractExpectedBlock, lexerVars
<1>2. block' = Block(script.expects) /\ NullsTold /\ script.loads
  BY <1>1 DEF ExpectationsFound, WorkOfTheScript
<1>3. NullsTold'
  BY <1>1, <1>2 DEF NullsTold
<1>4. HasErrorOccurred(diagnostics') <=> HasErrorOccurred(script.found)
  <2>1. script.found \in Seq(Diagnostic) /\ nullCharacters \in Nat
    BY <1>1, ScriptIs DEF LexerInv, LexerTypeOK
  <2> QED BY <1>1, <2>1, MessagesAre
<1>5. \A s \in Streams : outBuffer'[s] = Lines(<<>>)
  BY <1>1, NoLines DEF NoBuffer, Streams
<1>6. \A s : TextsUpTo(script.log, EntriesOf(script, s), 0) = <<>>
  <2>1. script.log \in Seq([stream: {"stdout", "stderr", "cerr"}, text: Text])
    BY <1>1, ScriptIs
  <2> QED BY <2>1, TextsUpToSteps
<1>7. CASE HasErrorOccurred(script.found)
  <2>1. phase' = "comparing" /\ \A s : Wrote(script, s) = <<>>
    BY <1>1, <1>4, <1>7 DEF Wrote
  <2>2. \A s \in Streams : outBuffer'[s] = Lines(Wrote(script', s))
    BY <1>1, <1>5, <2>1
  <2> QED BY <1>1, <1>2, <1>3, <2>1, <2>2 DEF WorkOfTheScript, Wrote, EntriesOf
<1>8. CASE ~HasErrorOccurred(script.found)
  <2>1. phase' = "running"
    BY <1>1, <1>4, <1>8
  <2>2. \A s \in Streams :
          outBuffer'[s] = Lines(TextsUpTo(script'.log, EntriesOf(script', s), written'))
    BY <1>1, <1>5, <1>6
  <2>3. written' <= Len(script'.log)
    <3>1. Len(script.log) \in Nat
      BY <1>1, ScriptIs, LenProperties
    <3> QED BY <1>1, <3>1
  <2> QED BY <1>1, <1>2, <1>3, <1>8, <2>1, <2>2, <2>3 DEF WorkOfTheScript, EntriesOf
<1> QED BY <1>7, <1>8

\* One more entry of the log.
LEMMA WorkWritten ==
  ASSUME PlainScripts, RunnerInv, WorkTypes, WorkOfTheScript, ScriptWrites
  PROVE  WorkOfTheScript'
<1> DEFINE log == script.log
           E == [stream: {"stdout", "stderr", "cerr"}, text: Text]
           n == written + 1
           entry == log[n]
           T(s, k) == TextsUpTo(log, EntriesOf(script, s), k)
<1>1. /\ phase = "running" /\ written < Len(log) /\ written' = n
      /\ outBuffer' = IF entry.stream = "cerr"
                        THEN outBuffer
                        ELSE [outBuffer EXCEPT ![entry.stream] = AddLine(@, entry.text)]
      /\ UNCHANGED <<phase, script, block, diagnostics, nullCharacters>>
  BY DEF ScriptWrites, lexerVars
<1>2. /\ script.loads /\ block = Block(script.expects)
      /\ diagnostics = [i \in 1 .. nullCharacters |-> NullCharacterIgnored] \o script.found
      /\ NullsTold /\ ~HasErrorOccurred(script.found)
      /\ \A s \in Streams : outBuffer[s] = Lines(T(s, written))
  BY <1>1 DEF WorkOfTheScript
<1>3. /\ written \in Nat /\ n \in Nat /\ log \in Seq(E) /\ Len(log) \in Nat
      /\ DOMAIN log = 1 .. Len(log)
  <2>1. log \in Seq(E)
    BY <1>1, ScriptIs
  <2> HIDE DEF log, E
  <2> QED BY <2>1, LenProperties DEF WorkTypes
<1>4. n \in 1 .. Len(log) /\ n <= Len(log) /\ n - 1 = written /\ written \in 0 .. Len(log)
  BY <1>1, <1>3
<1>5. entry.stream \in {"stdout", "stderr", "cerr"} /\ entry.text \in Text
  <2>1. entry \in E
    <3> HIDE DEF E, n
    <3> QED BY <1>3, <1>4
  <2> HIDE DEF entry
  <2> QED BY <2>1
<1>6. ASSUME NEW s \in Streams
      PROVE  /\ T(s, written) \in Seq(Text)
             /\ T(s, n) = T(s, written) \o (IF entry.stream = s THEN <<entry.text>> ELSE <<>>)
  <2> DEFINE chosen == EntriesOf(script, s)
  <2>1. n \in chosen <=> entry.stream = s
    BY <1>3, <1>4 DEF EntriesOf
  <2>2. \A i \in 1 .. Len(log) : log[i].text \in Text
    BY <1>1, ScriptIs DEF PlainText
  <2> HIDE DEF chosen, E, log, n
  <2>3. log \in Seq(E)
    BY <1>3
  <2>4. \A k \in 0 .. Len(log) : TextsUpTo(log, chosen, k) \in Seq(Text)
    BY <2>2, <2>3, TextsUpToIs
  <2>5. \A k \in 1 .. Len(log) :
          TextsUpTo(log, chosen, k) =
            TextsUpTo(log, chosen, k - 1) \o TextIf(log, chosen, k)
    BY <2>3, TextsUpToSteps
  <2> QED BY <1>4, <2>1, <2>4, <2>5 DEF chosen, TextIf
<1> HIDE DEF T, n
<1>7. ASSUME NEW s \in Streams PROVE outBuffer'[s] = Lines(T(s, n))
  <2> DEFINE before == T(s, written)
  <2>1. before \in Seq(Text) /\ outBuffer[s] = Lines(before)
    BY <1>2, <1>6
  <2>2. outBuffer \in [stdout: Text, stderr: Text]
    BY DEF WorkTypes
  <2> HIDE DEF before, entry
  <2>3. CASE entry.stream = s
    <3>1. outBuffer'[s] = AddLine(outBuffer[s], entry.text)
      BY <1>1, <2>2, <2>3 DEF Streams
    <3>2. T(s, n) = before \o <<entry.text>>
      BY <1>6, <2>3 DEF before
    <3> QED BY <1>5, <2>1, <3>1, <3>2, OneMoreLine
  <2>4. CASE entry.stream # s
    <3>1. outBuffer'[s] = outBuffer[s]
      BY <1>1, <1>5, <2>2, <2>4 DEF Streams
    <3>2. T(s, n) = before
      <4>1. T(s, n) = before \o <<>>
        BY <1>6, <2>4 DEF before
      <4> QED BY <2>1, <4>1, ConcatEmptySeq
    <3> QED BY <2>1, <3>1, <3>2
  <2> QED BY <2>3, <2>4
<1>8. NullsTold'
  BY <1>1, <1>2 DEF NullsTold
<1>9. \A s \in Streams :
        outBuffer'[s] = Lines(TextsUpTo(script'.log, EntriesOf(script', s), written'))
  BY <1>1, <1>7 DEF T
<1> QED BY <1>1, <1>2, <1>4, <1>8, <1>9 DEF WorkOfTheScript, EntriesOf

LEMMA WorkStep ==
  ASSUME PlainScripts, RunnerInv, LexerInv, WorkTypes, WorkOfTheScript, ExpectationsFound,
         [Next]_testVars
  PROVE  WorkOfTheScript'
<1>1. ASSUME phase' \notin {"lexing", "running", "comparing"} PROVE WorkOfTheScript'
  BY <1>1 DEF WorkOfTheScript
<1>2. ASSUME \/ MissingArgument \/ MissingDirectory \/ OpenDirectory \/ Compare \/ Finish
             \/ \E f \in files : SkipEntry(f) \/ LoadFails(f)
      PROVE  WorkOfTheScript'
  <2>1. phase' \in {"over", "choosing"}
    BY <1>2 DEF MissingArgument, MissingDirectory, OpenDirectory, Compare, Finish, SkipEntry,
                LoadFails, Return, Report
  <2> QED BY <1>1, <2>1
<1>3. ASSUME NEW f \in files, LoadFile(f) PROVE WorkOfTheScript'
  BY <1>3 DEF LoadFile, WorkOfTheScript
<1>4. ASSUME Lex PROVE WorkOfTheScript'
  BY <1>4 DEF Lex, runnerVars, WorkOfTheScript
<1>5. ASSUME Prepare PROVE WorkOfTheScript'
  BY <1>5, WorkPrepared
<1>6. ASSUME ScriptWrites PROVE WorkOfTheScript'
  BY <1>6, WorkWritten
<1>7. ASSUME ScriptEnds PROVE WorkOfTheScript'
  <2>1. /\ phase = "running" /\ written = Len(script.log)
        /\ phase' \in {"killed", "comparing"}
        /\ UNCHANGED <<script, block, diagnostics, outBuffer, nullCharacters>>
    BY <1>7 DEF ScriptEnds, lexerVars
  <2>2. \A s \in Streams : outBuffer[s] = Lines(Wrote(script, s))
    BY <2>1 DEF WorkOfTheScript, Wrote
  <2>3. NullsTold'
    BY <2>1 DEF WorkOfTheScript, NullsTold
  <2> QED BY <2>1, <2>2, <2>3 DEF WorkOfTheScript, Wrote, EntriesOf
<1>8. ASSUME UNCHANGED testVars PROVE WorkOfTheScript'
  BY <1>8, WorkStays DEF testVars, lexerVars, runnerVars
<1> QED BY <1>2, <1>3, <1>4, <1>5, <1>6, <1>7, <1>8 DEF Next

\* A verdict is right when it is given, and verdicts are not taken back.
LEMMA VerdictStep ==
  ASSUME PlainScripts, RunnerInv, LexerInv, WorkOfTheScript, VerdictsAreOfTheScript,
         [Next]_testVars
  PROVE  VerdictsAreOfTheScript'
<1>1. ASSUME UNCHANGED reports PROVE VerdictsAreOfTheScript'
  BY <1>1 DEF VerdictsAreOfTheScript
<1>2. ASSUME NEW f, NEW passed \in BOOLEAN, passed <=> DoesAsExpected(f),
             reports' = Append(reports, [script |-> f, passed |-> passed])
      PROVE  VerdictsAreOfTheScript'
  <2> DEFINE k == Len(reports)
             r == [script |-> f, passed |-> passed]
             R == [script: Given, passed: BOOLEAN] \cup {r}
  <2>1. r.script = f /\ r.passed = passed /\ r \in R
    OBVIOUS
  <2>2. reports \in Seq(R) /\ k \in Nat /\ DOMAIN reports = 1 .. k
    <3>1. reports \in Seq([script: Given, passed: BOOLEAN])
      BY DEF RunnerInv
    <3> HIDE DEF r
    <3> QED BY <3>1, SeqMonotonic, LenProperties
  <2> HIDE DEF r, R
  <2>3. /\ DOMAIN reports' = 1 .. k + 1
        /\ \A n \in 1 .. k : reports'[n] = reports[n]
        /\ reports'[k + 1] = r
    BY <1>2, <2>1, <2>2, AppendProperties, LenProperties DEF r
  <2> HIDE DEF k
  <2>4. ASSUME NEW n \in 1 .. k + 1
        PROVE  reports'[n].passed <=> DoesAsExpected(reports'[n].script)
    <3>1. CASE n = k + 1
      BY <1>2, <2>1, <2>3, <3>1
    <3>2. CASE n # k + 1
      <4>1. n \in 1 .. k
        BY <2>2, <3>2
      <4> QED BY <2>2, <2>3, <4>1 DEF VerdictsAreOfTheScript
    <3> QED BY <3>1, <3>2
  <2> QED BY <2>3, <2>4 DEF VerdictsAreOfTheScript
<1>3. ASSUME NEW f \in files, LoadFails(f) PROVE VerdictsAreOfTheScript'
  <2>1. ~DoesAsExpected(f)
    BY <1>3 DEF LoadFails, DoesAsExpected
  <2> QED BY <1>2, <1>3, <2>1 DEF LoadFails, Report
<1>4. ASSUME Compare PROVE VerdictsAreOfTheScript'
  <2> DEFINE passed == ExpectsMatched(block, outBuffer, diagnostics)
  <2>1. passed \in BOOLEAN
    BY DEF ExpectsMatched
  <2>2. passed <=> DoesAsExpected(script)
    BY <1>4, ComparisonIsOfTheScript DEF Compare
  <2>3. reports' = Append(reports, [script |-> script, passed |-> passed])
    BY <1>4 DEF Compare, Report
  <2> HIDE DEF passed
  <2> QED BY <1>2, <2>1, <2>2, <2>3
<1>5. \/ UNCHANGED reports
      \/ Compare
      \/ \E f \in files : LoadFails(f)
  BY DEF Next, MissingArgument, MissingDirectory, Return, OpenDirectory, SkipEntry, LoadFile,
         Lex, Prepare, ScriptWrites, ScriptEnds, Finish, testVars, runnerVars
<1> QED BY <1>1, <1>3, <1>4, <1>5

-----------------------------------------------------------------------------
(* The runner's progress.                                                  *)

\* The files of the directory main has not yet come to, the stage of the file it
\* is at, and what is left of a stage of many steps.
ToDo == IF phase = "starting" THEN Given ELSE files
StageOf ==
  [starting |-> 5, lexing |-> 4, running |-> 3, comparing |-> 2, choosing |-> 1,
   killed |-> 0, over |-> 0]
Work ==
  CASE phase = "lexing"  -> TurnsLeft
    [] phase = "running" -> Len(script.log) - written
    [] OTHER -> 0

\* A file less, or a later stage, or less of this one.
LessToDo ==
  \/ ToDo' \subseteq ToDo /\ ToDo' # ToDo
  \/ ToDo' = ToDo /\ StageOf[phase'] < StageOf[phase]
  \/ ToDo' = ToDo /\ phase' = phase /\ Work' < Work /\ Work' \in Nat

LEMMA StepLowers ==
  ASSUME RunnerInv, LexerInv, WorkTypes, Next
  PROVE  LessToDo
<1>1. CASE MissingArgument \/ MissingDirectory
  <2>1. /\ phase = "starting" /\ phase' = "over" /\ files = {} /\ files' = files
        /\ Given = {}
    BY <1>1 DEF MissingArgument, MissingDirectory, Return, RunnerInv, Given
  <2> QED BY <2>1 DEF LessToDo, ToDo, StageOf
<1>2. CASE OpenDirectory
  <2>1. /\ phase = "starting" /\ phase' = "choosing" /\ files' = Given
    BY <1>2 DEF OpenDirectory, Given
  <2> QED BY <2>1 DEF LessToDo, ToDo, StageOf
<1>3. CASE \E f \in files : SkipEntry(f) \/ LoadFails(f) \/ LoadFile(f)
  <2>1. PICK f \in files : files' = files \ {f} /\ phase = "choosing"
    BY <1>3 DEF SkipEntry, LoadFails, LoadFile
  <2>2. phase' # "starting"
    BY <1>3 DEF SkipEntry, LoadFails, LoadFile, Report
  <2> QED BY <2>1, <2>2 DEF LessToDo, ToDo
<1>4. CASE Lex
  <2>1. phase = "lexing" /\ phase' = phase /\ files' = files
    BY <1>4 DEF Lex, runnerVars
  <2>2. TurnsLeft' < TurnsLeft /\ TurnsLeft' \in Nat
    BY <1>4, TurnLowers DEF Lex, LexerInv
  <2>3. Work = TurnsLeft /\ Work' = TurnsLeft'
    BY <2>1 DEF Work
  <2> QED BY <2>1, <2>2, <2>3 DEF LessToDo, ToDo
<1>5. CASE Prepare
  <2>1. phase = "lexing" /\ phase' \in {"running", "comparing"} /\ files' = files
    BY <1>5 DEF Prepare
  <2> QED BY <2>1 DEF LessToDo, ToDo, StageOf
<1>6. CASE ScriptWrites
  <2>1. /\ phase = "running" /\ phase' = phase /\ files' = files /\ script' = script
        /\ written < Len(script.log) /\ written' = written + 1
    BY <1>6 DEF ScriptWrites
  <2>2. written \in Nat /\ Len(script.log) \in Nat
    BY <2>1, PendingScript DEF WorkTypes, Scripts
  <2>3. Work = Len(script.log) - written /\ Work' = Len(script.log) - (written + 1)
    BY <2>1 DEF Work
  <2>4. Work' < Work /\ Work' \in Nat
    <3> DEFINE k == Len(script.log)
    <3>1. k \in Nat /\ written < k /\ Work = k - written /\ Work' = k - (written + 1)
      BY <2>1, <2>2, <2>3
    <3> HIDE DEF k
    <3> QED BY <2>2, <3>1
  <2> QED BY <2>1, <2>4 DEF LessToDo, ToDo
<1>7. CASE ScriptEnds
  <2>1. phase = "running" /\ phase' \in {"killed", "comparing"} /\ files' = files
    BY <1>7 DEF ScriptEnds
  <2> QED BY <2>1 DEF LessToDo, ToDo, StageOf
<1>8. CASE Compare
  <2>1. phase = "comparing" /\ phase' = "choosing" /\ files' = files
    BY <1>8 DEF Compare, Report
  <2> QED BY <2>1 DEF LessToDo, ToDo, StageOf
<1>9. CASE Finish
  <2>1. phase = "choosing" /\ phase' = "over" /\ files' = files
    BY <1>9 DEF Finish, Return
  <2> QED BY <2>1 DEF LessToDo, ToDo, StageOf
<1> QED BY <1>1, <1>2, <1>3, <1>4, <1>5, <1>6, <1>7, <1>8, <1>9 DEF Next

-----------------------------------------------------------------------------
(* What the runner promises, of every directory.                           *)

\* The invariants hold along every run of the runner.
THEOREM RunnerInvariant == Spec => [](RunnerInv /\ LexerInv)
<1>1. Init => RunnerInv /\ LexerInv
  <2>1. Init => source \in Seq(Character) /\ Fresh
    BY DEF Init
  <2> QED BY <2>1, RunnerInit, FreshInv
<1>2. RunnerInv /\ LexerInv /\ [Next]_testVars => RunnerInv' /\ LexerInv'
  BY RunnerStep, RunnerStutters, LexerStep
<1> QED BY <1>1, <1>2, PTL DEF Spec

\* What the runner keeps has its types: the expected block and the buffers are
\* texts, whatever the comments hold and the scripts write, and the script it is
\* at is one of the directory.
THEOREM RunnerTypes == Spec => []TypeOK
<1>1. Init => WorkTypes
  BY WorkInit
<1>2. RunnerInv /\ LexerInv /\ WorkTypes /\ [Next]_testVars => WorkTypes'
  BY WorkKept
<1>3. RunnerInv /\ LexerInv /\ WorkTypes => TypeOK
  BY TypesAre
<1> QED BY <1>1, <1>2, <1>3, RunnerInvariant, PTL DEF Spec

\* In the runner, too, which lexes one script after the other, tokens stand in
\* order, tell their places and are as long as they can be, no character is lost
\* and comments are bracketed.
THEOREM LexerInRunner ==
  Spec => [](/\ TokensInOrder /\ NothingIsLost /\ CommentsBracketed
             /\ LinesLagByStrings /\ ColumnsTell /\ LongestTokens)
<1>1. LexerInv => /\ TokensInOrder /\ NothingIsLost /\ CommentsBracketed
                  /\ LinesLagByStrings /\ ColumnsTell /\ LongestTokens
  BY PlacedTells DEF LexerInv
<1> QED BY <1>1, RunnerInvariant, PTL

\* A script passes just when it does what its comments expect, message by message,
\* whatever scripts were run before it in the same process - if the texts hold no
\* null character, which the handlers put between them, and if what the tokens
\* hold is what the script's author expects.  The rest is proved: that the buffers
\* are the script's own, that putting texts one behind the other loses none of
\* them, and that trimming hides no more than blanks at the end.
THEOREM VerdictsAreRight ==
  ASSUME PlainScripts
  PROVE  Spec /\ []ExpectationsFound => []VerdictsAreOfTheScript
<1>1. Init => WorkTypes /\ WorkOfTheScript /\ VerdictsAreOfTheScript
  <2>1. ASSUME Init PROVE phase = "starting" /\ DOMAIN reports = {}
    BY <2>1 DEF Init
  <2> QED BY <2>1, WorkInit DEF WorkOfTheScript, VerdictsAreOfTheScript
<1>2. RunnerInv /\ LexerInv /\ WorkTypes /\ [Next]_testVars => WorkTypes'
  BY WorkKept
<1>3. /\ RunnerInv /\ LexerInv /\ WorkTypes /\ WorkOfTheScript /\ ExpectationsFound
      /\ [Next]_testVars
      => WorkOfTheScript'
  BY WorkStep
<1>4. /\ RunnerInv /\ LexerInv /\ WorkOfTheScript /\ VerdictsAreOfTheScript
      /\ [Next]_testVars
      => VerdictsAreOfTheScript'
  BY VerdictStep
<1> QED BY <1>1, <1>2, <1>3, <1>4, RunnerInvariant, PTL DEF Spec

\* If no verdict is wrong, the exit code tells whether all the scripts of the
\* directory do as expected: each of them is judged, once, and nothing else.
THEOREM ExitIsOfTheVerdicts == Spec /\ []VerdictsAreOfTheScript => []ExitTellsVerdicts
<1>1. RunnerInv /\ VerdictsAreOfTheScript => ExitTellsVerdicts
  <2> SUFFICES ASSUME RunnerInv, VerdictsAreOfTheScript, phase = "over",
                      argument.kind = "directory"
               PROVE  /\ Judged = {f \in argument.files : f.isScript}
                      /\ IsInjective([n \in DOMAIN reports |-> reports[n].script])
                      /\ exitCode = IF \A f \in argument.files : f.isScript => DoesAsExpected(f)
                                      THEN 0 ELSE 1
    BY DEF ExitTellsVerdicts, Judged
  <2>1. Judged = {f \in argument.files : f.isScript}
    BY DEF RunnerInv, EachOnce, Pending, ScriptsIn, Given
  <2>2. IsInjective([n \in DOMAIN reports |-> reports[n].script])
    BY DEF RunnerInv, EachOnce, IsInjective
  <2>3. (\A n \in DOMAIN reports : reports[n].passed)
          <=> \A f \in Judged : DoesAsExpected(f)
    BY DEF VerdictsAreOfTheScript, Judged
  <2>4. exitCode = IF \A n \in DOMAIN reports : reports[n].passed THEN 0 ELSE 1
    BY DEF RunnerInv
  <2> QED BY <2>1, <2>2, <2>3, <2>4
<1> QED BY <1>1, RunnerInvariant, PTL

\* So the exit code tells whether all scripts of the directory do as expected.
THEOREM ExitIsRight ==
  ASSUME PlainScripts
  PROVE  Spec /\ []ExpectationsFound => []ExitTellsVerdicts
BY VerdictsAreRight, ExitIsOfTheVerdicts, PTL

\* Every step leaves less to do: a file of the directory less, or a later stage of
\* the file the runner is at, or less of its source to lex or of its log to write.
\* So nothing but a script that loops keeps the runner: the safety half of
\* TestsEnd.
THEOREM RunnerProgress == Spec => [][Next => LessToDo]_testVars
<1>1. Init => WorkTypes
  BY WorkInit
<1>2. RunnerInv /\ LexerInv /\ WorkTypes /\ [Next]_testVars => WorkTypes'
  BY WorkKept
<1>3. RunnerInv /\ LexerInv /\ WorkTypes /\ [Next]_testVars => [Next => LessToDo]_testVars
  BY StepLowers
<1> QED BY <1>1, <1>2, <1>3, RunnerInvariant, PTL DEF Spec
=============================================================================
