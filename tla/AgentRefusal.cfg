SPECIFICATION Spec
CONSTANTS
    Tools = {"run_query"}
    Blocked = {}
    RetrySafe = {"run_query"}
    MaxIterations = 1
    MaxToolCalls = 1
    MaxRepairs = 0
    MaxTokens = 2
    MaxLlmRetries = 0
    MaxMcpRetries = 0
    MaxParallel = 1
INVARIANT RefusalIsPermissionDenied
CHECK_DEADLOCK FALSE
