CONSTANTS
    Paths <- MCPaths
    GroupPaths <- MCGroupPaths
    Methods = {"GET", "HEAD", "POST"}
    Mws = {m1, m2}
    Escaped = {"%"}
    MAX_MW = 1
    MAX_ROUTE_PARAMS = 2
    SEEN_MAX = 2
    ALLOW_MAX = 2
    ROUTE_ARENA = 12
    MaxSize = 3
    N = 2
    MAX_LISTENERS = 1
    MaxRuns = 2
    RequestPaths <- MCRequestPaths
    RequestMethods = {"HEAD", "POST"}
    SmallSize = 1
SPECIFICATION FairServer
\* The process may abort, and has no more to do after its last run.
CHECK_DEADLOCK FALSE
INVARIANTS DispatchIsRight ChainRunsOnce WorkersWithinRun
PROPERTIES TableIsReadOnly FailureIsReported RunReturns
