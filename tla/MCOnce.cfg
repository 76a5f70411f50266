CONSTANTS
  Component <- MCComponent
  Source <- SpellingSource
  System <- SpellingSystem
  Argument <- MCArgument
  Text <- MCText
  TextPath <- MCTextPath
  TooLong <- MCTooLong
  MaxNumberOfIncludeNesting = 3
  MCTooLarge = {"huge"}
  ParseExpression <- MCParseExpression
  ParseExpressionRhs <- MCParseExpressionRhs
  ParseFunctionCallArguments <- MCParseFunctionCallArguments
  ParseStatement <- MCParseStatement
  ParseBody <- MCParseBody
  ParseWhileBody <- MCParseWhileBody
  ParseElseIfCases <- MCParseElseIfCases
  ParseSpecifiers <- MCParseSpecifiers
  ParseParameterPart <- MCParseParameterPart
  ParseParameters <- MCParseParameters
  PathNamed <- MCPathNamed
  StatementAt <- MCStatementAt
  FunctionDefinitionAt <- MCFunctionDefinitionAt
SPECIFICATION Spec
PROPERTY OnceFileIncludedOnce
CHECK_DEADLOCK FALSE
