-------------------------- MODULE ParsedExpression --------------------------
(***************************************************************************)
(* One call of a function of the parser; here, of ParseExpression, and     *)
(* what it owes to those who write scripts: an expression that is written  *)
(* out is read back, and no operand of what is read is lost.               *)
(***************************************************************************)
EXTENDS Expressions

CONSTANTS
  NoText,      \* the text of a token that is only a sign
  Source,      \* sequences of tokens
  Tree,        \* trees to be written and read back, with all trees in them
  Written(_),  \* the tokens of a tree: WrittenAs
  Leaves(_),   \* the literals of a tree: LeavesAs
  ChainTree(_, _, _)  \* the tree of a part of a chain: ChainTreeAs

VARIABLES
  called,  \* the function of the parser
  origin,  \* the tree that the tokens are written from, if any
  stream,  \* the token stream
  trees,   \* what the function returned
  parsed   \* whether it did

vars == <<called, origin, stream, trees, parsed>>

-----------------------------------------------------------------------------
(* Trees.                                                                  *)

\* A literal that can be parsed.
LiteralToken ==
  {t \in Token : t.kind \in LiteralKind /\ (t.kind = "IntegerLiteral" => t.text \notin TooLarge)}

Atoms ==
  [kind: {"Literal"}, value: LiteralToken]
    \cup [kind: {"VariableExpression"}, name: STRING]
    \cup [kind: {"MacroExpression"}, macro: STRING]
    \cup [kind: {"FunctionReferenceExpression"}, function: STRING]
Unaries    == [kind: {"UnaryExpression"}, operator: UnaryOperator, expression: Tree]
Binaries   == [kind: {"BinaryExpression"}, operator: BinaryOperator, lhs: Tree, rhs: Tree]
Ternaries  == [kind: {"TernaryIfExpression"}, condition: Tree, ifTrue: Tree, ifFalse: Tree]
Subscripts == [kind: {"ArraySubscriptExpression"}, index: Tree]
Calls      == [kind: {"FunctionCall", "BuiltInCall"}, function: STRING, arguments: Seq(Tree)]

ASSUME TreeAssumption ==
  Tree \subseteq Atoms \cup Unaries \cup Binaries \cup Ternaries \cup Subscripts \cup Calls

-----------------------------------------------------------------------------
(* How trees are written: every compound operand in parentheses.           *)

ASSUME NoTextAssumption == NoText \in STRING

Tok(kind, text) == [kind |-> kind, text |-> text]
Sign(kind)      == Tok(kind, NoText)

IsCompound(e) == e.kind \in {"UnaryExpression", "BinaryExpression", "TernaryIfExpression"}
InParens(ts)  == <<Sign("LParen")>> \o ts \o <<Sign("RParen")>>

WrittenOperand(e) == IF IsCompound(e) THEN InParens(Written(e)) ELSE Written(e)

\* The last k of the arguments, for each k.
LastArguments(arguments) ==
  LET last[k \in 0 .. Len(arguments)] ==
        IF k = 0
          THEN <<>>
          ELSE Written(arguments[Len(arguments) - k + 1])
                 \o (IF k = 1 THEN <<>> ELSE <<Sign("Comma")>>) \o last[k - 1]
  IN  last
WithCommas(arguments) == LastArguments(arguments)[Len(arguments)]

FunctionToken(e) ==
  Tok(IF e.kind = "BuiltInCall" THEN "BuiltIn" ELSE "FunctionIdentifier", e.function)

WrittenAs(e) ==
  CASE e.kind = "Literal" -> <<e.value>>
    [] e.kind = "VariableExpression" -> <<Tok("VariableIdentifier", e.name)>>
    [] e.kind = "MacroExpression" -> <<Tok("Macro", e.macro)>>
    [] e.kind = "FunctionReferenceExpression" -> <<FunctionToken(e)>>
    [] e.kind = "UnaryExpression" -> <<Sign(e.operator)>> \o WrittenOperand(e.expression)
    [] e.kind = "BinaryExpression" ->
         WrittenOperand(e.lhs) \o <<Sign(e.operator)>> \o WrittenOperand(e.rhs)
    [] e.kind = "TernaryIfExpression" ->
         WrittenOperand(e.condition) \o <<Sign("OP_TernaryIf")>> \o Written(e.ifTrue)
           \o <<Sign("OP_TernaryElse")>> \o Written(e.ifFalse)
    [] e.kind = "ArraySubscriptExpression" ->
         <<Sign("LSquare")>> \o Written(e.index) \o <<Sign("RSquare")>>
    [] e.kind \in {"FunctionCall", "BuiltInCall"} ->
         <<FunctionToken(e)>> \o InParens(WithCommas(e.arguments))

\* A tree is finite, so it can be written.
ASSUME WrittenAssumption ==
  \A e \in Tree : Written(e) = WrittenAs(e) /\ Written(e) \in Seq(Token)

-----------------------------------------------------------------------------
(* The literals of a tree and of tokens, from left to right.               *)

LeavesAs(e) ==
  CASE e.kind = "Literal" -> <<e.value>>
    [] e.kind = "UnaryExpression" -> Leaves(e.expression)
    [] e.kind = "BinaryExpression" -> Leaves(e.lhs) \o Leaves(e.rhs)
    [] e.kind = "TernaryIfExpression" ->
         Leaves(e.condition) \o Leaves(e.ifTrue) \o Leaves(e.ifFalse)
    [] e.kind = "ArraySubscriptExpression" -> Leaves(e.index)
    [] OTHER -> <<>>

\* A tree is made after those in it.
LeavesDescent ==
  /\ \A token : \A e \in {Literal(token), Variable(token), Macro(token)} : Leaves(e) = LeavesAs(e)
  /\ \A a, b, c :
       \A e \in {Unary(a, b), Binary(a, b, c), Subscript(a), Ternary(a, b, c)} :
         Leaves(e) = LeavesAs(e)

\* Those of the first n tokens, for each n.
LiteralsUpto(ts) ==
  LET upto[n \in 0 .. Len(ts)] ==
        IF n = 0 THEN <<>>
        ELSE IF ts[n].kind \in LiteralKind THEN Append(upto[n - 1], ts[n]) ELSE upto[n - 1]
  IN  upto

-----------------------------------------------------------------------------
(* Chains: operands with a binary operator between any two.                *)

ASSUME SourceAssumption == Source \subseteq Seq(Token)

\* AutoIt's levels, from the loosest.
Levels ==
  << {"KW_And", "KW_Or"}, Comparison, {"OP_Concatenate"}, {"OP_Plus", "OP_Minus"},
     {"OP_Multiply", "OP_Divide"}, {"OP_Raise"} >>
Level(operator) == CHOOSE i \in DOMAIN Levels : operator \in Levels[i]

\* An assignment has no level.
ChainOperator == BinaryOperator \ CompoundAssignment

IsChain(ts) ==
  /\ Len(ts) % 2 = 1
  /\ \A i \in DOMAIN ts :
       IF i % 2 = 1 THEN ts[i] \in LiteralToken ELSE ts[i].kind \in ChainOperator
Operands(ts)    == Len(ts) \div 2 + 1
OperatorsOf(ts) == [i \in 1 .. Operands(ts) - 1 |-> ts[2 * i].kind]

\* The last of the loosest operators between two operands.
Root(operators, first, last) ==
  CHOOSE i \in first .. last - 1 :
    /\ \A j \in first .. last - 1 : Level(operators[i]) <= Level(operators[j])
    /\ \A j \in i + 1 .. last - 1 : Level(operators[i]) < Level(operators[j])

\* The tree of the operands first .. last.
ChainTreeAs(ts, first, last) ==
  IF first = last
    THEN Literal(ts[2 * first - 1])
    ELSE LET root == Root(OperatorsOf(ts), first, last)
         IN  Binary(ChainTree(ts, first, root), OperatorsOf(ts)[root],
                    ChainTree(ts, root + 1, last))

HasChainTrees(ts) ==
  IsChain(ts) =>
    \A last \in 1 .. Operands(ts) : \A first \in 1 .. last :
      ChainTree(ts, first, last) = ChainTreeAs(ts, first, last)

\* A chain is finite, so it has a tree.
ASSUME ChainTreeAssumption ==
  /\ \A ts \in Source : HasChainTrees(ts)
  /\ \A e \in Tree : HasChainTrees(Written(e))

\* From an operator that binds less tightly than the next one on, all bind more
\* tightly than it.
NeverFallsBack(operators) ==
  \A i \in 1 .. Len(operators) - 1 :
    Level(operators[i]) < Level(operators[i + 1]) =>
      \A k \in i + 1 .. Len(operators) : Level(operators[k]) > Level(operators[i])

-----------------------------------------------------------------------------

Init ==
  /\ called = "ParseExpression"
  /\ \/ /\ origin = <<>>
        /\ \E tokens \in Source : stream = Stream(tokens)
     \/ \E e \in Tree :
          /\ origin = <<e>>
          /\ stream = Stream(Written(e))
  /\ trees = <<>>
  /\ parsed = FALSE

Returns(r) ==
  /\ ~parsed
  /\ parsed' = TRUE
  /\ trees' = r.tree /\ stream' = r.stream
  /\ UNCHANGED <<called, origin>>

Parse == called = "ParseExpression" /\ Returns(ParseExpression(stream))

Spec == Init /\ [][Parse]_vars

-----------------------------------------------------------------------------

ExpressionParsed == called = "ParseExpression" /\ parsed

\* A stream is never read past its end, and what is made of it is made of at least
\* one token: the loops over arguments and operators end.
TypeOK ==
  /\ called \in {"ParseExpression", "ParseStatement", "ParseFunctionDefinition"}
  /\ stream.index \in 0 .. Len(stream.tokens)
  /\ stream.errors \in Nat
  /\ Len(trees) <= 1
  /\ trees # <<>> => stream.index > 0

\* A tree written with its parentheses is read back, to the last token: the
\* functions of the descent agree on who consumes what.
ReadsBackWhatIsWritten ==
  ExpressionParsed /\ origin # <<>> =>
    /\ trees = origin
    /\ stream.index = Len(stream.tokens) /\ stream.errors = 0

\* Whatever is parsed, no operand is lost or moved, unless an argument of a call
\* fails.
OperandsKept ==
  /\ ExpressionParsed /\ trees # <<>>
  /\ \A i \in DOMAIN stream.tokens :
       stream.tokens[i].kind \notin {"FunctionIdentifier", "BuiltIn"}
  =>
    Leaves(trees[1]) = LiteralsUpto(stream.tokens)[stream.index]

\* A chain of binary operators is parsed to its end, with AutoIt's precedences
\* and from left to right, exactly when its operators never fall back.
ChainsBindByLevel ==
  ExpressionParsed /\ IsChain(stream.tokens) =>
    ( /\ stream.index = Len(stream.tokens)
      /\ trees = <<ChainTree(stream.tokens, 1, Operands(stream.tokens))>> )
      <=> NeverFallsBack(OperatorsOf(stream.tokens))
=============================================================================
