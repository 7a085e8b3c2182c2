SPECIFICATION ConnectionSpec
CONSTANTS
  Pipelines <- MCPipelines
  Requests <- MCRequests
  MinimumSize = 2
  MaxBodySize = 2
  MaxChunks = 3
  Main = main
  Tasks = {main, child}
INVARIANTS HandlersMayStream
CHECK_DEADLOCK FALSE
