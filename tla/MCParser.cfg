CONSTANTS
  Component <- MCComponent
  Source <- MCSource
  System <- MCSystem
  Argument <- MCArgument
  Text <- MCText
  TextPath <- MCTextPath
  TooLong <- MCTooLong
  MaxNumberOfIncludeNesting = 3
  MCTooLarge = {"huge"}
  ParseExpression <- MCParseExpression
  ParseExpressionRhs <- MCParseExpressionRhs
  ParseFunctionCallArguments <- MCParseFunctionCallArguments
  ParseStatement <- MCParseStatement
  ParseBody <- MCParseBody
  ParseWhileBody <- MCParseWhileBody
  ParseElseIfCases <- MCParseElseIfCases
  ParseSpecifiers <- MCParseSpecifiers
  ParseParameterPart <- MCParseParameterPart
  ParseParameters <- MCParseParameters
  PathNamed <- MCPathNamed
  StatementAt <- MCStatementAt
  FunctionDefinitionAt <- MCFunctionDefinitionAt
SPECIFICATION Spec
INVARIANTS
  TypeOK
  SearchPathFollowsFile
  NestingBounded
  IncludesExpand
  GoesOnBehindErrors
  BodiesWholeOrEmpty
PROPERTIES
  OnceFilesNotReentered
  ParsingEnds
CHECK_DEADLOCK FALSE
