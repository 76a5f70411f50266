--------------------------- MODULE MCExpressions ---------------------------
(***************************************************************************)
(* Token streams for TLC to parse expressions from, and what the parser    *)
(* should make of them.                                                    *)
(***************************************************************************)
EXTENDS ParsedExpression, SequencesExt, FiniteSetsExt

MCTooLarge == {"huge"}

\* The constants are what is said of them.  LET keeps TLC's coverage from
\* following them in a circle.
MCParseExpression(s) == LET r == ExpressionAt(s) IN r
MCParseExpressionRhs(lhs, s, precedence) == LET r == ExpressionRhsAt(lhs, s, precedence) IN r
MCParseFunctionCallArguments(s, arguments) == LET r == FunctionCallArgumentsAt(s, arguments) IN r
MCWritten(e) == LET ts == WrittenAs(e) IN ts
MCLeaves(e)  == LET ts == LeavesAs(e) IN ts
MCChainTree(ts, first, last) == LET e == ChainTreeAs(ts, first, last) IN e

-----------------------------------------------------------------------------
(* Every short stream of a few kinds; the text tells the tokens apart.     *)

Texts == <<"a", "b", "c", "d", "e", "f", "g", "h", "i">>
ShortKinds ==
  {"IntegerLiteral", "FunctionIdentifier", "LParen", "RParen", "OP_Plus",
   "OP_Multiply", "KW_Not", "OP_TernaryIf", "OP_TernaryElse"}

Huge == Tok("IntegerLiteral", "huge")
HugeStreams ==
  { <<Huge>>, <<Sign("OP_Minus"), Huge>>,
    <<Tok("BuiltIn", "f"), Sign("LParen"), Huge, Sign("RParen")>> }

\* Operators of every level, both additive ones.
FewOperators ==
  {"KW_And", "OP_LessThan", "OP_Concatenate", "OP_Plus", "OP_Minus", "OP_Multiply",
   "OP_Raise"}

\* An operand, and operators with an operand behind each.
ChainKinds(operators) ==
  [i \in 1 .. 2 * Len(operators) + 1 |->
     IF i % 2 = 1 THEN "IntegerLiteral" ELSE operators[i \div 2]]

-----------------------------------------------------------------------------
(* Trees.                                                                  *)

Atom == {Literal(Tok("IntegerLiteral", "n")), Variable(Tok("VariableIdentifier", "x")),
         Reference(Tok("FunctionIdentifier", "f"))}

Grown(S, T) ==
  [kind: {"UnaryExpression"}, operator: {"OP_Minus", "KW_Not"}, expression: S]
    \cup [kind: {"BinaryExpression"}, operator: {"OP_Plus", "OP_Multiply"}, lhs: S, rhs: S]
    \cup [kind: {"TernaryIfExpression"}, condition: S, ifTrue: T, ifFalse: T]
    \cup [kind: {"ArraySubscriptExpression"}, index: S]
    \cup [kind: {"FunctionCall", "BuiltInCall"}, function: {"f"},
           arguments: {<<>>} \cup {<<a>> : a \in S} \cup {<<a, b>> : a \in T, b \in S}]
Tree1   == Atom \cup Grown(Atom, Atom)
TreeSet == Tree1 \cup Grown(Tree1, Atom)

-----------------------------------------------------------------------------

MCSource ==
  {[i \in DOMAIN kinds |-> Tok(kinds[i], Texts[i])] :
     kinds \in SeqOf(ShortKinds, 5) \cup {ChainKinds(os) : os \in SeqOf(FewOperators, 4)}}
    \cup HugeStreams

-----------------------------------------------------------------------------

\* Parser.cpp:1398 has the pending operator take what binds more tightly to the
\* right: what binds less tightly is left to the operators around it, and no
\* operator is thrown away.
NoOperatorLost ==
  ExpressionParsed /\ IsChain(stream.tokens) /\ trees # <<>> =>
    \* The operators of the tree are those consumed.
    Len(Leaves(trees[1])) - 1 = stream.index \div 2
=============================================================================
