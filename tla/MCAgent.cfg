SPECIFICATION FairSpec
CONSTANTS
    Tools = {"run_query", "validate_permission_policy", "publish_permission_policy"}
    Blocked = {"publish_permission_policy"}
    RetrySafe = {"run_query"}
    MaxIterations = 2
    MaxToolCalls = 3
    MaxRepairs = 1
    MaxTokens = 2
    MaxLlmRetries = 1
    MaxMcpRetries = 1
    MaxParallel = 2
INVARIANTS RepliesComplete SubmittedOnce BudgetsHold StatusTruthful
PROPERTIES QuietAfterDeadline Terminates
CHECK_DEADLOCK FALSE
