------------------------ MODULE VirtualMachineProofs ------------------------
(***************************************************************************)
(* Every operation on values gives a value: an Int64 stays in its range,   *)
(* text is made of characters, and a cast gives the kind it names.  And    *)
(* what the operations of the virtual machine do to the scope list: its    *)
(* type, which scopes they leave alone, and where a name is found.         *)
(***************************************************************************)
EXTENDS VirtualMachine, Lemmas

-----------------------------------------------------------------------------
(* Integers.                                                               *)

LEMMA Int64Ints ==
  Int64 \subseteq Int /\ 0 \in Int64 /\ 1 \in Int64 /\ IntMin \in Int64 /\ IntMax \in Int64
BY IntHalfAssumption DEF Int64, IntMin, IntMax

\* Wrapping any integer gives an Int64.
LEMMA WrapType == ASSUME NEW n \in Int PROVE Wrap(n) \in Int64
BY IntHalfAssumption DEF Wrap, Int64, IntMin, IntMax

\* The arithmetic of UnsafeOperations.cpp never leaves the 64 bits.
LEMMA UnsafeType ==
  ASSUME NEW l \in Int64, NEW r \in Int64
  PROVE  /\ UnsafeAdd(l, r) \in Int64
         /\ UnsafeMinus(l, r) \in Int64
         /\ UnsafeMultiply(l, r) \in Int64
         /\ r # 0 => UnsafeDivide(l, r) \in Int64
<1>1. l \in Int /\ r \in Int
  BY Int64Ints
<1>2. l + r \in Int /\ l - r \in Int /\ l * r \in Int
  BY <1>1
<1>3. ASSUME r # 0 PROVE UnsafeDivide(l, r) \in Int64
  <2>1. AbsInt(l) \in Nat /\ AbsInt(r) \in Nat \ {0}
    BY <1>1, <1>3 DEF AbsInt
  <2>2. AbsInt(l) \div AbsInt(r) \in Int
    BY <2>1
  <2>3. -(AbsInt(l) \div AbsInt(r)) \in Int
    BY <2>2
  <2> QED BY <2>2, <2>3, WrapType DEF UnsafeDivide
<1> QED BY <1>2, <1>3, WrapType DEF UnsafeAdd, UnsafeMinus, UnsafeMultiply

LEMMA UnsafeUnaryType ==
  ASSUME NEW n \in Int64
  PROVE  UnsafeNegate(n) \in Int64 /\ UnsafeAbs(n) \in Int64
<1>1. n \in Int /\ -n \in Int
  BY Int64Ints
<1> QED BY <1>1, WrapType DEF UnsafeNegate, UnsafeAbs

-----------------------------------------------------------------------------
(* Text.                                                                   *)

LEMMA DigitsAreChars == \A i \in 1 .. 10 : DigitChar[i] \in Char
BY CharAssumption DEF DigitChar

LEMMA DigitCountType ==
  ASSUME NEW n PROVE DigitCount(n) \in 1 .. 9
<1> DEFINE S == {k \in 2 .. 9 : Pow10[k] <= n}
<1>1. IsFiniteSet(2 .. 9) /\ Cardinality(2 .. 9) = 8
  <2>1. 2 \in Int /\ 9 \in Int /\ ~(2 > 9) /\ 9 - 2 + 1 = 8
    OBVIOUS
  <2> QED BY <2>1, FS_Interval
<1>2. S \in SUBSET (2 .. 9)
  OBVIOUS
<1>3. IsFiniteSet(S) /\ Cardinality(S) <= 8
  <2> HIDE DEF S
  <2> QED BY <1>1, <1>2, FS_Subset
<1>4. Cardinality(S) \in Nat
  <2> HIDE DEF S
  <2> QED BY <1>3, FS_CardinalityType
<1>5. 1 + Cardinality(S) \in 1 .. 9
  <2> HIDE DEF S
  <2> QED BY <1>3, <1>4
<1> QED BY <1>5 DEF DigitCount

LEMMA Pow10Type == \A i \in 1 .. 9 : Pow10[i] \in Nat \ {0}
BY DEF Pow10

LEMMA DigitsOfType ==
  ASSUME NEW n \in Nat PROVE DigitsOf(n) \in Text
<1> DEFINE len == DigitCount(n)
<1>1. len \in 1 .. 9
  BY DigitCountType
<1>2. ASSUME NEW i \in 1 .. len
      PROVE  DigitChar[((n \div Pow10[len - i + 1]) % 10) + 1] \in Char
  <2> HIDE DEF len
  <2>1. len - i + 1 \in 1 .. 9
    BY <1>1
  <2>2. Pow10[len - i + 1] \in Nat \ {0}
    BY <2>1, Pow10Type
  <2>3. n \div Pow10[len - i + 1] \in Int
    BY <2>2
  <2>4. (n \div Pow10[len - i + 1]) % 10 \in 0 .. 9
    BY <2>3
  <2>5. ((n \div Pow10[len - i + 1]) % 10) + 1 \in 1 .. 10
    BY <2>4
  <2> QED BY <2>5, DigitsAreChars
<1> HIDE DEF len
<1>3. [i \in 1 .. len |-> DigitChar[((n \div Pow10[len - i + 1]) % 10) + 1]]
        \in [1 .. len -> Char]
  BY <1>2
<1>4. len \in Nat
  BY <1>1
<1>5. [i \in 1 .. len |-> DigitChar[((n \div Pow10[len - i + 1]) % 10) + 1]] \in Seq(Char)
  BY <1>3, <1>4
<1> QED BY <1>5 DEF DigitsOf, Text, len

LEMMA SignType == ASSUME NEW b \in BOOLEAN PROVE Sign(b) \in Text
BY CharAssumption DEF Sign, Text

LEMMA IntToTextType == ASSUME NEW n \in Int64 PROVE IntToText(n) \in Text
<1>1. n \in Int /\ (n < 0) \in BOOLEAN
  BY Int64Ints
<1>2. AbsInt(n) \in Nat
  BY <1>1 DEF AbsInt
<1>3. Sign(n < 0) \in Text /\ DigitsOf(AbsInt(n)) \in Text
  BY <1>1, <1>2, DigitsOfType, SignType
<1>4. Sign(n < 0) \o DigitsOf(AbsInt(n)) \in Text
  BY <1>3 DEF Text
<1> QED BY <1>4 DEF IntToText

LEMMA DoubleToTextType == ASSUME NEW d \in Double PROVE DoubleToText(d) \in Text
<1>1. Sign(d.negative) \in Text
  BY SignType DEF Double
<1>2. <<"n", "a", "n">> \in Text /\ <<"i", "n", "f">> \in Text
  BY CharAssumption DEF Text, Letters
<1>3. d.halves \div 2 \in Nat
  BY DEF Double
<1>4. DigitsOf(d.halves \div 2) \in Text
  BY <1>3, DigitsOfType
<1>5. <<".", IF d.halves % 2 = 1 THEN "5" ELSE "0">> \in Text
  <2>1. DigitChar[1] = "0" /\ DigitChar[6] = "5"
    BY DEF DigitChar
  <2>2. "0" \in Char /\ "5" \in Char
    BY <2>1, DigitsAreChars
  <2> QED BY <2>2, CharAssumption DEF Text
<1> QED BY <1>1, <1>2, <1>4, <1>5 DEF DoubleToText, Text

-----------------------------------------------------------------------------
(* Values and casts.                                                       *)

LEMMA MakeType ==
  /\ \A b \in BOOLEAN : MakeBoolean(b) \in Variant
  /\ \A d \in Double : MakeDouble(d) \in Variant
  /\ \A n \in Int64 : MakeInt(n) \in Variant
  /\ \A s \in Text : MakeString(s) \in Variant
  /\ Undefined \in Variant
BY DEF MakeBoolean, MakeDouble, MakeInt, MakeString, Undefined, Variant, Text

\* A value has the payload that its kind says.
LEMMA Payload ==
  ASSUME NEW v \in Variant
  PROVE  /\ v.type \in {"Boolean", "Double", "Int64", "Keyword", "String"}
         /\ v.type = "Boolean" => v.boolean \in BOOLEAN
         /\ v.type = "Double" => v.double \in Double
         /\ v.type = "Int64" => v.int64 \in Int64
         /\ v.type = "Keyword" => v.keyword \in {"Default", "Null"}
         /\ v.type = "String" => v.string \in Text
BY DEF Variant

LEMMA GetTypeNameType ==
  ASSUME NEW v \in Variant PROVE GetTypeName(v) \in Variant
<1>1. /\ <<"B", "o", "o", "l", "e", "a", "n">> \in Text
      /\ <<"D", "o", "u", "b", "l", "e">> \in Text
      /\ <<"I", "n", "t", "6", "4">> \in Text
      /\ <<"K", "e", "y", "w", "o", "r", "d">> \in Text
      /\ <<"S", "t", "r", "i", "n", "g">> \in Text
  BY CharAssumption DEF Text, Letters, TypeLetters
<1>2. \A t \in {"Boolean", "Double", "Int64", "Keyword", "String"} : TypeNameText[t] \in Text
  BY <1>1 DEF TypeNameText
<1> QED BY <1>2, Payload, MakeType DEF GetTypeName

LEMMA CastToStringType ==
  ASSUME NEW v \in Variant PROVE CastToString(v).string \in Text
<1>1. /\ <<"T", "r", "u", "e">> \in Text /\ <<"F", "a", "l", "s", "e">> \in Text
      /\ <<"D", "e", "f", "a", "u", "l", "t">> \in Text /\ <<>> \in Text
  BY CharAssumption DEF Text, Letters
<1>2. v.type = "Double" => DoubleToText(v.double) \in Text
  BY Payload, DoubleToTextType
<1>3. v.type = "Int64" => IntToText(v.int64) \in Text
  BY Payload, IntToTextType
<1> QED BY <1>1, <1>2, <1>3, Payload DEF CastToString, MakeString

LEMMA DoubleToInt64Type ==
  ASSUME NEW d \in Double PROVE DoubleToInt64(d) \subseteq Int64
BY Int64Ints DEF DoubleToInt64

\* strtol gives an Int64 for every text.
LEMMA StrToLType == ASSUME NEW s PROVE StrToL(s) \in Int64
<1>1. ASSUME NEW n PROVE Saturate(n) \in Int64
  BY Int64Ints DEF Saturate
<1> QED BY <1>1 DEF StrToL

LEMMA CastToInt64Type ==
  ASSUME NEW v \in Variant PROVE CastToInt64(v) \subseteq Int64
<1>1. v.type = "Double" => DoubleToInt64(v.double) \subseteq Int64
  BY Payload, DoubleToInt64Type
<1>2. 0 \in Int64 /\ (v.type = "Boolean" => (IF v.boolean THEN 1 ELSE 0) \in Int64)
  BY Int64Ints
<1> QED BY <1>1, <1>2, Payload, StrToLType DEF CastToInt64

\* strtod gives a double for every text, however long its digits.
LEMMA StrToDType == ASSUME NEW s PROVE StrToD(s) \in Double
<1>1. Numeral(s).negative \in BOOLEAN
  BY DEF Numeral
<1>2. ASSUME NEW b \in BOOLEAN, NEW h PROVE FiniteDouble(b, h) \in Double
  <2>1. 0 .. DoubleMax \subseteq Nat
    BY DoubleMaxAssumption
  <2> QED BY <2>1 DEF FiniteDouble, Double
<1> QED BY <1>1, <1>2 DEF StrToD

\* The cast gives an integer or a double, and nothing else.
Numeric == {v \in Variant : v.type \in {"Int64", "Double"}}

LEMMA MakeNumeric ==
  /\ \A n \in Int64 : MakeInt(n) \in Numeric
  /\ \A d \in Double : MakeDouble(d) \in Numeric
BY MakeType DEF Numeric, MakeInt, MakeDouble

LEMMA CastToNumericType ==
  ASSUME NEW v \in Variant PROVE CastToNumeric(v) \in Numeric
<1>1. ASSUME NEW s PROVE TextToNumeric(s) \in Numeric
  <2> DEFINE Special(class) ==
        [class |-> class, negative |-> Numeral(s).negative, halves |-> 0]
  <2>1. Numeral(s).negative \in BOOLEAN
    BY DEF Numeral
  <2>2. Special("inf") \in Double /\ Special("nan") \in Double
    BY <2>1 DEF Double
  <2>3. /\ MakeDouble(Special("inf")) \in Numeric /\ MakeDouble(Special("nan")) \in Numeric
        /\ MakeDouble(StrToD(s)) \in Numeric /\ MakeInt(StrToL(s)) \in Numeric
    BY <2>2, MakeNumeric, StrToDType, StrToLType
  <2> QED BY <2>3 DEF TextToNumeric
<1>2. MakeInt(0) \in Numeric /\ MakeInt(1) \in Numeric
  BY Int64Ints, MakeNumeric
<1>3. v.type \in {"Int64", "Double"} => v \in Numeric
  BY DEF Numeric
<1>4. v.type \in {"Int64", "Double"} \/ v.type = "String" \/ v.type = "Boolean"
        \/ v.type = "Keyword"
  BY Payload
<1>5. MakeInt(IF v.boolean THEN 1 ELSE 0) \in Numeric
  BY <1>2
<1> QED BY <1>1, <1>2, <1>3, <1>4, <1>5 DEF CastToNumeric

-----------------------------------------------------------------------------
(* Operators.                                                              *)

LEMMA NumericPayload ==
  ASSUME NEW v \in Numeric
  PROVE  /\ v.type = "Double" => v.double \in Double
         /\ v.type # "Double" => v.int64 \in Int64
BY Payload DEF Numeric

LEMMA ConcatenateType ==
  ASSUME NEW l \in Variant, NEW r \in Variant PROVE Concatenate(l, r) \in Variant
<1>1. CastToString(l).string \o CastToString(r).string \in Text
  BY CastToStringType DEF Text
<1> QED BY <1>1, MakeType DEF Concatenate

LEMMA AbsType == ASSUME NEW v \in Variant PROVE Abs(v) \in Variant
<1>1. ASSUME NEW n \in Numeric PROVE AbsNumeric(n) \in Variant
  <2>1. CASE n.type = "Double"
    <3>1. [n.double EXCEPT !.negative = FALSE] \in Double
      BY <2>1, NumericPayload DEF Double
    <3> QED BY <2>1, <3>1, MakeType DEF AbsNumeric
  <2>2. CASE n.type # "Double"
    BY <2>2, NumericPayload, UnsafeUnaryType, MakeType DEF AbsNumeric
  <2> QED BY <2>1, <2>2
<1> QED BY <1>1, CastToNumericType DEF Abs

LEMMA UnaryType ==
  ASSUME NEW v \in Variant, NEW op PROVE EvaluateUnaryExpression(v, op) \in Variant
<1>1. ASSUME NEW n \in Numeric PROVE NegateNumeric(n) \in Variant
  <2>1. CASE n.type = "Double"
    <3>1. [n.double EXCEPT !.negative = ~@] \in Double
      BY <2>1, NumericPayload DEF Double
    <3> QED BY <2>1, <3>1, MakeType DEF NegateNumeric
  <2>2. CASE n.type # "Double"
    BY <2>2, NumericPayload, UnsafeUnaryType, MakeType DEF NegateNumeric
  <2> QED BY <2>1, <2>2
<1>2. UnaryMinus(v) \in Variant
  BY <1>1, CastToNumericType, MakeType DEF UnaryMinus
<1> QED BY <1>2, MakeType DEF EvaluateUnaryExpression

\* Whatever the operator and the operands, the value is a value: a quotient by
\* zero is a double, and what is not implemented the empty string.
LEMMA BinaryType ==
  ASSUME NEW l \in Variant, NEW r \in Variant, NEW op \in BinaryOp
  PROVE  EvaluateBinaryExpression(l, r, op) \in Variant
<1>1. ASSUME l.type = "Int64", r.type = "Int64", op \in {"+", "-", "*", "/"}
      PROVE  EvaluateArithmetic(l.int64, r.int64, op) \in Variant
  <2>1. l.int64 \in Int64 /\ r.int64 \in Int64
    BY <1>1, Payload
  <2>2. DivideByZero(l.int64) \in Variant
    <3>1. (l.int64 < 0) \in BOOLEAN
      OBVIOUS
    <3>2. [class    |-> IF l.int64 = 0 THEN "nan" ELSE "inf",
           negative |-> l.int64 < 0,
           halves   |-> 0] \in Double
      BY <3>1 DEF Double
    <3> QED BY <3>2, MakeType DEF DivideByZero
  <2>3. /\ MakeInt(UnsafeAdd(l.int64, r.int64)) \in Variant
        /\ MakeInt(UnsafeMinus(l.int64, r.int64)) \in Variant
        /\ MakeInt(UnsafeMultiply(l.int64, r.int64)) \in Variant
        /\ r.int64 # 0 => MakeInt(UnsafeDivide(l.int64, r.int64)) \in Variant
    BY <2>1, UnsafeType, MakeType
  <2> QED BY <1>1, <2>2, <2>3 DEF EvaluateArithmetic
<1> QED BY <1>1, ConcatenateType, MakeType DEF EvaluateBinaryExpression

-----------------------------------------------------------------------------
(* Scopes.                                                                 *)

Scopes == Seq(Scope)
Binding == Variant \cup {Unbound}

LEMMA ScopeFields ==
  ASSUME NEW scope \in Scope
  PROVE  /\ scope.kind \in {"Function", "Block"}
         /\ scope.name \in ScopeName
         /\ scope.variables \in [Name -> Binding]
         /\ scope.statements \in Seq(Statement)
         /\ scope.index \in Nat
BY DEF Scope, Binding

\* A scope with one variable set is a scope, and the rest of it is as it was.
LEMMA SetVariableType ==
  ASSUME NEW scope \in Scope, NEW name \in Name, NEW v \in Variant
  PROVE  /\ SetVariable(scope, name, v) \in Scope
         /\ SetVariable(scope, name, v).kind = scope.kind
         /\ SetVariable(scope, name, v).name = scope.name
         /\ SetVariable(scope, name, v).statements = scope.statements
         /\ SetVariable(scope, name, v).index = scope.index
<1> DEFINE bound == [scope.variables EXCEPT ![name] = v]
<1>1. bound \in [Name -> Binding]
  BY ScopeFields DEF Binding
<1>2. [scope EXCEPT !.variables = bound] \in Scope
  <2> HIDE DEF bound
  <2> QED BY <1>1, Zenon DEF Scope, Binding
<1> QED BY <1>2, Zenon DEF SetVariable, Scope

LEMMA ScopeWithType ==
  ASSUME NEW variables \in [Name -> Binding], NEW kind \in {"Function", "Block"},
         NEW name \in ScopeName, NEW body \in Seq(Statement)
  PROVE  LET scope == ScopeWith(variables, kind, name, body)
         IN  /\ scope \in Scope /\ scope.kind = kind /\ scope.name = name
             /\ scope.statements = body /\ scope.index = 0
BY DEF ScopeWith, Scope, Binding

LEMMA NewScopeType ==
  ASSUME NEW kind \in {"Function", "Block"}, NEW name \in ScopeName,
         NEW body \in Seq(Statement)
  PROVE  LET scope == NewScope(kind, name, body)
         IN  /\ scope \in Scope /\ scope.kind = kind /\ scope.name = name
             /\ scope.statements = body /\ scope.index = 0
<1>1. NoVariables \in [Name -> Binding]
  BY DEF NoVariables, Binding
<1> QED BY <1>1, ScopeWithType DEF NewScope

-----------------------------------------------------------------------------
(* Pushing and popping.                                                    *)

LEMMA PushGlobalScopeType ==
  ASSUME NEW body \in Seq(Statement)
  PROVE  /\ PushGlobalScope(<<>>, body) = <<NewScope("Function", GlobalName, body)>>
         /\ PushGlobalScope(<<>>, body) \in Scopes
<1>1. NewScope("Function", GlobalName, body) \in Scope
  BY NewScopeType DEF ScopeName
<1> QED BY <1>1 DEF PushGlobalScope, Scopes

LEMMA PopScopeType ==
  ASSUME NEW s \in Scopes, s # <<>>
  PROVE  /\ PopScope(s) \in Scopes
         /\ Len(PopScope(s)) = Len(s) - 1
         /\ \A i \in 1 .. Len(s) - 1 : PopScope(s)[i] = s[i]
BY FrontType DEF PopScope, Scopes

LEMMA CurrentScopeType ==
  ASSUME NEW s \in Scopes, s # <<>>
  PROVE  CurrentScope(s) \in Scope /\ Len(s) \in 1 .. Len(s) /\ Len(s) \in Nat
BY DEF CurrentScope, Scopes

-----------------------------------------------------------------------------
(* Call stack.                                                             *)

LEMMA FunctionScopesBounded ==
  ASSUME NEW s \in Scopes
  PROVE  /\ Len(s) \in Nat
         /\ FunctionScopes(s) \in SUBSET (0 .. Len(s))
         /\ FunctionScopes(s) \subseteq DOMAIN s
         /\ IsFiniteSet(FunctionScopes(s))
         /\ Cardinality(FunctionScopes(s)) \in Nat
<1>1. Len(s) \in Nat /\ DOMAIN s = 1 .. Len(s)
  BY DEF Scopes
<1>2. FunctionScopes(s) \in SUBSET (0 .. Len(s)) /\ FunctionScopes(s) \subseteq DOMAIN s
  BY <1>1 DEF FunctionScopes
<1>3. IsFiniteSet(0 .. Len(s))
  BY <1>1, FS_Interval
<1>4. IsFiniteSet(FunctionScopes(s))
  BY <1>2, <1>3, FS_Subset
<1> QED BY <1>1, <1>2, <1>4, FS_CardinalityType

\* The k-th function from the top is there for every k up to their number.
LEMMA NthFunctionExists ==
  ASSUME NEW s \in Scopes, NEW k \in 1 .. Cardinality(FunctionScopes(s))
  PROVE  /\ NthFunction(s, k) \in FunctionScopes(s)
         /\ Cardinality(FunctionAbove(s, NthFunction(s, k))) = k
<1>1. \E i \in FunctionScopes(s) : Cardinality(UpFrom(FunctionScopes(s), i)) = k
  BY FunctionScopesBounded, NthLargest
<1>2. \A i : FunctionAbove(s, i) = UpFrom(FunctionScopes(s), i)
  BY DEF FunctionAbove, UpFrom
<1> QED BY <1>1, <1>2 DEF NthFunction

LEMMA GetStackTraceType ==
  ASSUME NEW s \in Scopes
  PROVE  GetStackTrace(s) \in Seq(ScopeName)
<1> DEFINE n == Cardinality(FunctionScopes(s))
<1>1. n \in Nat
  BY FunctionScopesBounded
<1>2. \A k \in 1 .. n : s[NthFunction(s, k)].name \in ScopeName
  BY NthFunctionExists, FunctionScopesBounded, ScopeFields DEF Scopes
<1>3. [k \in 1 .. n |-> s[NthFunction(s, k)].name] \in [1 .. n -> ScopeName]
  BY <1>2
<1>4. [k \in 1 .. n |-> s[NthFunction(s, k)].name] \in Seq(ScopeName)
  <2> HIDE DEF n
  <2> QED BY <1>1, <1>3
<1> QED BY <1>4 DEF GetStackTrace

-----------------------------------------------------------------------------
(* Variables.                                                              *)

\* What a scope holds under a name is a value.
LEMMA HeldIsVariant ==
  ASSUME NEW scope \in Scope, NEW name \in Name, Holds(scope, name)
  PROVE  scope.variables[name] \in Variant
BY ScopeFields DEF Holds, Binding, Unbound

\* A name is found in a scope that is searched and holds it, if there is one.
LEMMA LookupFound ==
  ASSUME NEW s \in Scopes, NEW name
  PROVE  LET i == LookupVariable(s, name)
         IN  \/ i = 0
             \/ i \in DOMAIN s /\ Searched(s, i) /\ Holds(s[i], name)
<1> DEFINE found == {i \in DOMAIN s : Searched(s, i) /\ Holds(s[i], name)}
<1>1. Len(s) \in Nat /\ DOMAIN s = 1 .. Len(s)
  BY DEF Scopes
<1>2. found \in SUBSET (0 .. Len(s))
  BY <1>1
<1>3. found # {} => Max(found) \in found
  <2> HIDE DEF found
  <2> QED BY <1>1, <1>2, MaxGreatest
<1> QED BY <1>3 DEF LookupVariable

\* Only variables differ.
SameButVariables(s, t) ==
  /\ t \in Scopes
  /\ Len(t) = Len(s)
  /\ \A i \in 1 .. Len(s) :
       /\ t[i].kind = s[i].kind
       /\ t[i].name = s[i].name
       /\ t[i].statements = s[i].statements
       /\ t[i].index = s[i].index

LEMMA SetVariableAt ==
  ASSUME NEW s \in Scopes, NEW i \in 1 .. Len(s), NEW name \in Name, NEW v \in Variant
  PROVE  SameButVariables(s, [s EXCEPT ![i] = SetVariable(@, name, v)])
<1> DEFINE q == SetVariable(s[i], name, v)
<1>1. s[i] \in Scope
  BY DEF Scopes
<1>2. /\ q \in Scope /\ q.kind = s[i].kind /\ q.name = s[i].name
      /\ q.statements = s[i].statements /\ q.index = s[i].index
  BY <1>1, SetVariableType
<1>3. SameButVariables(s, [s EXCEPT ![i] = q])
  <2> HIDE DEF q
  <2>1. [s EXCEPT ![i] = q] \in Seq(Scope) /\ Len([s EXCEPT ![i] = q]) = Len(s)
    BY <1>2 DEF Scopes
  <2>2. \A j \in 1 .. Len(s) : [s EXCEPT ![i] = q][j] = IF j = i THEN q ELSE s[j]
    BY DEF Scopes
  <2> QED BY <1>2, <2>1, <2>2 DEF SameButVariables, Scopes
<1> QED BY <1>3

LEMMA PushVariableType ==
  ASSUME NEW s \in Scopes, s # <<>>, NEW name \in Name, NEW v \in Variant
  PROVE  SameButVariables(s, PushVariable(s, name, v))
<1>1. SameButVariables(s, s)
  BY DEF SameButVariables
<1> QED BY <1>1, CurrentScopeType, SetVariableAt DEF PushVariable

LEMMA PushOrAssignVariableType ==
  ASSUME NEW s \in Scopes, s # <<>>, NEW name \in Name, NEW v \in Variant
  PROVE  SameButVariables(s, PushOrAssignVariable(s, name, v))
<1> DEFINE i == LookupVariable(s, name)
           at == IF i = 0 THEN Len(s) ELSE i
<1>1. at \in 1 .. Len(s)
  <2>1. i = 0 \/ i \in 1 .. Len(s)
    BY LookupFound DEF Scopes
  <2> HIDE DEF i
  <2> QED BY <2>1, CurrentScopeType
<1>2. SameButVariables(s, [s EXCEPT ![at] = SetVariable(@, name, v)])
  <2> HIDE DEF at
  <2> QED BY <1>1, SetVariableAt
<1> QED BY <1>2 DEF PushOrAssignVariable

-----------------------------------------------------------------------------
(* The shape of the scope list.                                            *)

\* What is pushed above the global scope: a function's scope or a block.
Pushable(scope) ==
  \/ scope.kind = "Function" /\ scope.name \in FunctionName
  \/ scope.kind = "Block" /\ scope.name = BlockName

\* The global scope, with the statements `body`, is at the bottom; no other is
\* global; and no scope is past its last statement.
WellFormed(s, body) ==
  /\ s \in Scopes
  /\ \A i \in 1 .. Len(s) :
       /\ s[i].index <= Len(s[i].statements)
       /\ i = 1 => /\ s[i].kind = "Function" /\ s[i].name = GlobalName
                   /\ s[i].statements = body
       /\ i # 1 => Pushable(s[i])

\* Nothing below was popped, and everything there is at the statement it was.
Extends(s, t) ==
  /\ Len(s) <= Len(t)
  /\ \A i \in 1 .. Len(s) : t[i].statements = s[i].statements /\ t[i].index = s[i].index

LEMMA GlobalAlone ==
  ASSUME NEW body
  PROVE  PushGlobalScope(<<>>, body) # <<>>
<1> DEFINE scope == NewScope("Function", GlobalName, body)
<1>1. PushGlobalScope(<<>>, body) = <<scope>> \o <<>>
  BY DEF PushGlobalScope
<1> HIDE DEF scope
<1>2. <<scope>> \o <<>> = <<scope>>
  <2>1. <<scope>> \in Seq({scope})
    OBVIOUS
  <2> QED BY <2>1
<1> QED BY <1>1, <1>2

LEMMA GlobalWellFormed ==
  ASSUME NEW body \in Seq(Statement)
  PROVE  WellFormed(PushGlobalScope(<<>>, body), body)
<1> DEFINE scope == NewScope("Function", GlobalName, body)
<1>1. /\ scope \in Scope /\ scope.kind = "Function" /\ scope.name = GlobalName
      /\ scope.statements = body /\ scope.index = 0
  BY NewScopeType DEF ScopeName
<1>2. PushGlobalScope(<<>>, body) = <<scope>> /\ <<scope>> \in Scopes
  BY PushGlobalScopeType
<1>3. Len(<<scope>>) = 1 /\ <<scope>>[1] = scope
  OBVIOUS
<1>4. 0 <= Len(body)
  OBVIOUS
<1> HIDE DEF scope
<1> QED BY <1>1, <1>2, <1>3, <1>4 DEF WellFormed

LEMMA SameButVariablesWellFormed ==
  ASSUME NEW s, NEW t, NEW body, WellFormed(s, body), SameButVariables(s, t)
  PROVE  WellFormed(t, body) /\ Extends(s, t)
<1>1. s \in Scopes /\ Len(s) \in Nat
  BY DEF WellFormed, Scopes
<1> QED BY <1>1 DEF WellFormed, SameButVariables, Extends, Pushable

\* Pushing scopes that are new keeps the list well formed.
LEMMA ConcatWellFormed ==
  ASSUME NEW s, NEW body, WellFormed(s, body), s # <<>>,
         NEW u \in Scopes,
         \A i \in 1 .. Len(u) : u[i].index = 0 /\ Pushable(u[i])
  PROVE  WellFormed(s \o u, body) /\ Extends(s, s \o u) /\ s \o u # <<>>
<1>1. s \in Seq(Scope) /\ u \in Seq(Scope) /\ Len(s) \in Nat \ {0} /\ Len(u) \in Nat
  BY DEF WellFormed, Scopes
<1>2. /\ s \o u \in Seq(Scope) /\ Len(s \o u) = Len(s) + Len(u)
      /\ \A i \in 1 .. Len(s) + Len(u) :
           (s \o u)[i] = IF i <= Len(s) THEN s[i] ELSE u[i - Len(s)]
  BY <1>1, ConcatProperties
<1>3. ASSUME NEW i \in 1 .. Len(s) PROVE (s \o u)[i] = s[i] /\ i \in 1 .. Len(s) + Len(u)
  BY <1>1, <1>2
<1>4. ASSUME NEW i \in 1 .. Len(s) + Len(u), i > Len(s)
      PROVE  /\ (s \o u)[i] = u[i - Len(s)] /\ i # 1
             /\ (s \o u)[i].index <= Len((s \o u)[i].statements)
             /\ Pushable((s \o u)[i])
  <2>1. i - Len(s) \in 1 .. Len(u)
    BY <1>1, <1>4
  <2>2. (s \o u)[i] = u[i - Len(s)]
    BY <1>1, <1>2, <1>4
  <2>3. u[i - Len(s)] \in Scope
    BY <1>1, <2>1
  <2>4. u[i - Len(s)].index = 0 /\ Len(u[i - Len(s)].statements) \in Nat
    BY <2>1, <2>3, ScopeFields
  <2> QED BY <1>1, <1>4, <2>1, <2>2, <2>4
<1>5. Extends(s, s \o u)
  BY <1>1, <1>2, <1>3 DEF Extends
<1>6. WellFormed(s \o u, body)
  <2>1. ASSUME NEW i \in 1 .. Len(s) + Len(u)
        PROVE  /\ (s \o u)[i].index <= Len((s \o u)[i].statements)
               /\ i = 1 => /\ (s \o u)[i].kind = "Function" /\ (s \o u)[i].name = GlobalName
                           /\ (s \o u)[i].statements = body
               /\ i # 1 => Pushable((s \o u)[i])
    <3>1. CASE i <= Len(s)
      <4>1. i \in 1 .. Len(s)
        BY <1>1, <3>1
      <4> QED BY <1>3, <4>1 DEF WellFormed
    <3>2. CASE i > Len(s)
      BY <1>4, <3>2
    <3> QED BY <1>1, <3>1, <3>2
  <2> QED BY <1>2, <2>1 DEF WellFormed, Scopes
<1> QED BY <1>1, <1>2, <1>5, <1>6

LEMMA PushBlockScopeWellFormed ==
  ASSUME NEW s, NEW body, WellFormed(s, body), s # <<>>, NEW block \in Seq(Statement)
  PROVE  /\ WellFormed(PushBlockScope(s, block), body) /\ PushBlockScope(s, block) # <<>>
         /\ Extends(s, PushBlockScope(s, block))
<1> DEFINE scope == NewScope("Block", BlockName, block)
<1>1. /\ scope \in Scope /\ scope.kind = "Block" /\ scope.name = BlockName
      /\ scope.index = 0
  <2>1. BlockName \in ScopeName /\ "Block" \in {"Function", "Block"}
    BY DEF ScopeName
  <2> QED BY <2>1, NewScopeType
<1>2. PushBlockScope(s, block) = s \o <<scope>>
  BY <1>1, AppendIsConcat DEF PushBlockScope, WellFormed, Scopes
<1>3. <<scope>> \in Scopes /\ \A i \in 1 .. Len(<<scope>>) : <<scope>>[i] = scope
  BY <1>1 DEF Scopes
<1> HIDE DEF scope
<1> QED BY <1>1, <1>2, <1>3, ConcatWellFormed DEF Pushable

LEMMA PopScopeWellFormed ==
  ASSUME NEW s, NEW body, WellFormed(s, body), s # <<>>
  PROVE  WellFormed(PopScope(s), body)
<1>1. s \in Scopes /\ Len(s) \in Nat \ {0}
  BY DEF WellFormed, Scopes
<1> QED BY <1>1, PopScopeType DEF WellFormed
=============================================================================
