SPECIFICATION ConnectionSpec
CONSTANTS
  Pipelines <- MCPipelines
  Requests <- MCRequests
  MinimumSize = 2
  MaxBodySize = 2
  MaxChunks = 3
  Main = main
  Tasks = {main, child}
INVARIANTS AnswersInOrder AnswerIntact CountedAsAnswered  ClientJudged MessagesInOrder NothingLeftBehind
CHECK_DEADLOCK FALSE
