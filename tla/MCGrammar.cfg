CONSTANTS
  TooLarge <- MCTooLarge
  ParseExpression <- MCParseExpression
  ParseExpressionRhs <- MCParseExpressionRhs
  ParseFunctionCallArguments <- MCParseFunctionCallArguments
  ParseStatement <- MCParseStatement
  ParseBody <- MCParseBody
  ParseWhileBody <- MCParseWhileBody
  ParseElseIfCases <- MCParseElseIfCases
  ParseSpecifiers <- MCParseSpecifiers
  ParseParameterPart <- MCParseParameterPart
  ParseParameters <- MCParseParameters
  NoText = ""
  Source <- GrammarSource
  Tree <- GrammarTree
  Written <- MCWritten
  Leaves <- MCLeaves
  ChainTree <- MCChainTree
  LineBreak <- MCLineBreak
  NextLine <- MCNextLine
  StatementTree <- StatementSet
  FunctionTree <- FunctionSet
  WrittenStatement <- MCWrittenStatement
SPECIFICATION GrammarSpec
INVARIANTS
  TypeOK
  ReadsBackWhatIsWritten
  ChainsBindByLevel
  OperandsKept
  StatementsReadBack
CHECK_DEADLOCK FALSE
