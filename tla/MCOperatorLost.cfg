CONSTANTS
  TooLarge <- MCTooLarge
  ParseExpression <- MCParseExpression
  ParseExpressionRhs <- MCParseExpressionRhs
  ParseFunctionCallArguments <- MCParseFunctionCallArguments
  NoText = ""
  Source <- MCSource
  Tree <- TreeSet
  Written <- MCWritten
  Leaves <- MCLeaves
  ChainTree <- MCChainTree
SPECIFICATION Spec
INVARIANT NoOperatorLost
CHECK_DEADLOCK FALSE
