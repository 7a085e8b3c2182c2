SPECIFICATION Spec
CONSTANTS
    Numerals = {"7"}
    Dependencies = {"user", "session", "scoped", "broken", "bearer"}
    Schemes = {"bearer"}
    DepParams <- MCDepParams
    Generators = {"session"}
    Routers = {"app", "router"}
    Prefix <- MCPrefix
    RouterDeps <- MCRouterDeps
    Programs <- MCPrograms
    Version <- MCVersion
    Revisions <- MCRevisions
    Paths <- MCPaths
    Methods = {"GET", "POST"}
    Requests <- MCRequests
INVARIANTS RoutingCorrect FastPathsAgree PlanFollowsSignature SchemaTrue BreaksReported
CHECK_DEADLOCK FALSE
