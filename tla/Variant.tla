------------------------------ MODULE Variant ------------------------------
(***************************************************************************)
(* The value of an AutoIt expression: runtime/src/Variant.cpp, the integer *)
(* operations of UnsafeOperations.cpp and the operators that               *)
(* Interpreter.cpp applies to values.                                      *)
(*                                                                         *)
(* Only the kinds that some path of the program can build are here: no     *)
(* code constructs an Array, Binary, Function or Pointer variant.  A       *)
(* default constructed Variant is the empty string (Undefined).            *)
(***************************************************************************)
EXTENDS Integers, Sequences, SequencesExt, FiniteSets

CONSTANTS
  IntHalf,    \* half the number of 64-bit integers: 2^63 in the code
  DoubleMax,  \* the largest finite double, counted in halves
  Char        \* the characters strings are made of

DigitChar == <<"0", "1", "2", "3", "4", "5", "6", "7", "8", "9">>
Blank     == {" ", "\n", "\r"}
Letters   == {"T", "r", "u", "e", "F", "a", "l", "s", "D", "f", "t", "i", "n"}
TypeLetters == {"I", "6", "4", "K", "y", "w", "o", "d", "b", "B", "S", "g"}

ASSUME IntHalfAssumption == IntHalf \in Nat \ {0, 1}
ASSUME DoubleMaxAssumption == DoubleMax \in Nat
ASSUME CharAssumption ==
  /\ {DigitChar[i] : i \in 1 .. 10} \subseteq Char
  /\ {"-", "+", "."} \cup Blank \cup Letters \cup TypeLetters \subseteq Char

IntMin == -IntHalf
IntMax == IntHalf - 1
Int64  == IntMin .. IntMax
Text   == Seq(Char)

\* A double keeps its sign and, when finite, its magnitude in halves: no
\* operator of the interpreter does arithmetic on doubles.
Double == [class: {"finite", "inf", "nan"}, negative: BOOLEAN, halves: Nat]

Variant ==
       [type: {"Boolean"}, boolean: BOOLEAN]
  \cup [type: {"Double"},  double: Double]
  \cup [type: {"Int64"},   int64: Int64]
  \cup [type: {"Keyword"}, keyword: {"Default", "Null"}]
  \cup [type: {"String"},  string: Text]

MakeBoolean(b) == [type |-> "Boolean", boolean |-> b]
MakeDouble(d)  == [type |-> "Double",  double |-> d]
MakeInt(n)     == [type |-> "Int64",   int64 |-> n]
MakeKeyword(k) == [type |-> "Keyword", keyword |-> k]
MakeString(s)  == [type |-> "String",  string |-> s]
Undefined      == MakeString(<<>>)

TypeNameText ==
  [Boolean |-> <<"B", "o", "o", "l", "e", "a", "n">>,
   Double  |-> <<"D", "o", "u", "b", "l", "e">>,
   Int64   |-> <<"I", "n", "t", "6", "4">>,
   Keyword |-> <<"K", "e", "y", "w", "o", "r", "d">>,
   String  |-> <<"S", "t", "r", "i", "n", "g">>]
GetTypeName(v) == MakeString(TypeNameText[v.type])

-----------------------------------------------------------------------------
(* Integers: two's complement, as the code computes with sanitizers off.   *)

\* Slip: the sanitizers' suppression dropped and nothing in its place.
WrapNever(n) == n

Wrap(n) == ((n + IntHalf) % (2 * IntHalf)) - IntHalf

UnsafeAdd(l, r)      == Wrap(l + r)
UnsafeMinus(l, r)    == Wrap(l - r)
UnsafeMultiply(l, r) == Wrap(l * r)
UnsafeNegate(n)      == Wrap(-n)
UnsafeAbs(n)         == IF n > 0 THEN n ELSE Wrap(-n)

AbsInt(n) == IF n < 0 THEN -n ELSE n

\* C++ truncates towards zero.  IntMin / -1 overflows: see DivideOverflows.
UnsafeDivide(l, r) ==
  LET q == AbsInt(l) \div AbsInt(r)
  IN  Wrap(IF (l < 0) # (r < 0) THEN -q ELSE q)

\* The one quotient that is not an Int64: the division instruction traps on
\* x86 and yields IntMin elsewhere.
DivideOverflows(l, r) == l = IntMin /\ r = -1

-----------------------------------------------------------------------------
(* Text of numbers: std::to_string.                                        *)

\* As many powers as TLC's integers have: numbers of up to nine digits.
Pow10 == <<1, 10, 100, 1000, 10000, 100000, 1000000, 10000000, 100000000>>

ASSUME NumeralAssumption == IntHalf < 10 * Pow10[9] /\ DoubleMax < 20 * Pow10[9]

DigitCount(n) == 1 + Cardinality({k \in 2 .. 9 : Pow10[k] <= n})

DigitsOf(n) ==
  LET len == DigitCount(n)
  IN  [i \in 1 .. len |-> DigitChar[((n \div Pow10[len - i + 1]) % 10) + 1]]

Sign(negative) == IF negative THEN <<"-">> ELSE <<>>

IntToText(n) == Sign(n < 0) \o DigitsOf(AbsInt(n))

\* Six decimals in the code; a half needs one.
DoubleToText(d) ==
  Sign(d.negative) \o
    CASE d.class = "nan" -> <<"n", "a", "n">>
      [] d.class = "inf" -> <<"i", "n", "f">>
      [] OTHER -> DigitsOf(d.halves \div 2) \o
                    <<".", IF d.halves % 2 = 1 THEN "5" ELSE "0">>

-----------------------------------------------------------------------------
(* Numbers in text: std::strtol and std::strtod, which read the longest    *)
(* number the text starts with, after white space.                         *)

\* The first position at or after i whose character is not in C.
Skip(s, i, C) == i + Cardinality({j \in i .. Len(s) : \A k \in i .. j : s[k] \in C})

Digits        == {DigitChar[i] : i \in 1 .. 10}
DigitValue(c) == CHOOSE d \in 0 .. 9 : DigitChar[d + 1] = c
Decimal(s)    == FoldLeft(LAMBDA n, c : 10 * n + DigitValue(c), 0, s)

\* A sign, then digits from `first` to before `end`: empty when there are none.
Numeral(s) ==
  LET start  == Skip(s, 1, Blank)
      signed == start <= Len(s) /\ s[start] \in {"-", "+"}
      first  == IF signed THEN start + 1 ELSE start
  IN  [negative |-> signed /\ s[start] = "-",
       first    |-> first,
       end      |-> Skip(s, first, Digits)]

\* strtol saturates.
Saturate(n) == IF n \in Int64 THEN n ELSE IF n > 0 THEN IntMax ELSE IntMin

StrToL(s) ==
  LET num == Numeral(s)
      n   == Decimal(SubSeq(s, num.first, num.end - 1))
  IN  Saturate(IF num.negative THEN -n ELSE n)

\* The fraction, if strtod reads further than strtol does: where it ends.
FractionEnd(s) ==
  LET num == Numeral(s)
  IN  IF num.end <= Len(s) /\ s[num.end] = "."
        THEN LET end == Skip(s, num.end + 1, Digits)
             IN  IF end - num.first > 1 THEN end ELSE num.end
        ELSE num.end

NamedDouble(s, word) ==
  LET first == Numeral(s).first
  IN  first + 2 <= Len(s) /\ SubSeq(s, first, first + 2) = word

FiniteDouble(negative, halves) ==
  IF halves \in 0 .. DoubleMax
    THEN [class |-> "finite", negative |-> negative, halves |-> halves]
    ELSE [class |-> "inf",    negative |-> negative, halves |-> 0]

\* Any fraction but zero counts as a half.
StrToD(s) ==
  LET num   == Numeral(s)
      whole == Decimal(SubSeq(s, num.first, num.end - 1))
      half  == \E k \in num.end + 1 .. FractionEnd(s) - 1 : s[k] # "0"
  IN  FiniteDouble(num.negative, 2 * whole + (IF half THEN 1 ELSE 0))

-----------------------------------------------------------------------------
(* Casts.                                                                  *)

CastToBoolean(v) ==
  MakeBoolean(
    CASE v.type = "Boolean" -> v.boolean
      [] v.type = "Double"  -> v.double.class # "finite" \/ v.double.halves # 0
      [] v.type = "Int64"   -> v.int64 # 0
      [] v.type = "Keyword" -> FALSE
      [] v.type = "String"  -> v.string # <<>>)

CastToString(v) ==
  MakeString(
    CASE v.type = "Boolean" ->
           IF v.boolean THEN <<"T", "r", "u", "e">> ELSE <<"F", "a", "l", "s", "e">>
      [] v.type = "Double"  -> DoubleToText(v.double)
      [] v.type = "Int64"   -> IntToText(v.int64)
      [] v.type = "Keyword" ->
           IF v.keyword = "Default" THEN <<"D", "e", "f", "a", "u", "l", "t">> ELSE <<>>
      [] v.type = "String"  -> v.string)

\* The cast of a double is undefined when the clamped value is not an Int64
\* (NaN, and 2^63, which the upper bound rounds to): the conversion
\* instruction yields IntMin on x86; elsewhere it saturates, and takes NaN to 0.
DoubleToInt64(d) ==
  LET truncated == IF d.negative THEN -(d.halves \div 2) ELSE d.halves \div 2
  IN  CASE d.class = "nan" -> {IntMin, 0}
        [] d.class = "inf" -> IF d.negative THEN {IntMin} ELSE {IntMin, IntMax}
        [] truncated \in Int64 -> {truncated}
        [] OTHER -> IF d.negative THEN {IntMin} ELSE {IntMin, IntMax}

\* The integers the cast may give; one, but for the undefined cases above.
CastToInt64(v) ==
  CASE v.type = "Boolean" -> {IF v.boolean THEN 1 ELSE 0}
    [] v.type = "Double"  -> DoubleToInt64(v.double)
    [] v.type = "Int64"   -> {v.int64}
    [] v.type = "Keyword" -> {0}
    [] v.type = "String"  -> {StrToL(v.string)}

\* For a string: a double if strtod reads further than strtol.
TextToNumeric(s) ==
  LET negative == Numeral(s).negative
  IN  CASE NamedDouble(s, <<"i", "n", "f">>) ->
             MakeDouble([class |-> "inf", negative |-> negative, halves |-> 0])
        [] NamedDouble(s, <<"n", "a", "n">>) ->
             MakeDouble([class |-> "nan", negative |-> negative, halves |-> 0])
        [] FractionEnd(s) > Numeral(s).end -> MakeDouble(StrToD(s))
        [] OTHER -> MakeInt(StrToL(s))

CastToNumeric(v) ==
  CASE v.type \in {"Int64", "Double"} -> v
    [] v.type = "String"  -> TextToNumeric(v.string)
    [] v.type = "Boolean" -> MakeInt(IF v.boolean THEN 1 ELSE 0)
    [] v.type = "Keyword" -> MakeInt(0)

-----------------------------------------------------------------------------
(* Operators on values.                                                    *)

Concatenate(l, r) == MakeString(CastToString(l).string \o CastToString(r).string)

AbsNumeric(v) ==
  IF v.type = "Double" THEN MakeDouble([v.double EXCEPT !.negative = FALSE])
                       ELSE MakeInt(UnsafeAbs(v.int64))

\* Every kind is cast to a number first.
Abs(v) == AbsNumeric(CastToNumeric(v))

NegateNumeric(v) ==
  IF v.type = "Double" THEN MakeDouble([v.double EXCEPT !.negative = ~@])
                       ELSE MakeInt(UnsafeNegate(v.int64))

UnaryMinus(v) ==
  IF v.type \in {"Int64", "Double", "String"}
    THEN NegateNumeric(CastToNumeric(v))
    ELSE Undefined

UnaryOp == {"+", "-", "Not"}

\* Not is not implemented: it gives the empty string.
EvaluateUnaryExpression(v, op) ==
  CASE op = "+" -> v
    [] op = "-" -> UnaryMinus(v)
    [] OTHER    -> Undefined

DivideByZero(l) ==
  MakeDouble([class    |-> IF l = 0 THEN "nan" ELSE "inf",
              negative |-> l < 0,
              halves   |-> 0])

BinaryOp == {"+", "-", "*", "/", "&", "="}

EvaluateArithmetic(l, r, op) ==
  CASE op = "+" -> MakeInt(UnsafeAdd(l, r))
    [] op = "-" -> MakeInt(UnsafeMinus(l, r))
    [] op = "*" -> MakeInt(UnsafeMultiply(l, r))
    [] op = "/" -> IF r = 0 THEN DivideByZero(l) ELSE MakeInt(UnsafeDivide(l, r))

\* Arithmetic is for two integers only, and every operator that is not
\* implemented (here "=") gives the empty string.
EvaluateBinaryExpression(l, r, op) ==
  CASE op = "&" -> Concatenate(l, r)
    [] op \in {"+", "-", "*", "/"} /\ l.type = "Int64" /\ r.type = "Int64" ->
         EvaluateArithmetic(l.int64, r.int64, op)
    [] OTHER -> Undefined
=============================================================================
