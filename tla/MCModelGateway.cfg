\* A run and a subagent's run on a branch, two requests each: a quota of three calls, one
\* token, one retry.
SPECIFICATION LiveSpec
CONSTANTS
    Root = "root"
    Branches = {"branch"}
    Callers = {"main", "child"}
    TaskOf <- MCTaskOf
    MaxModelCalls = 3
    MaxTokens = 1
    MaxRetries = 1
    AuditCap = 3
    Sizes = {1}
    MaxUsage = 1
    MaxRequests = 2
INVARIANTS Accounted NoSecondOutput
PROPERTY RequestReturns
\* All requests made.
CHECK_DEADLOCK FALSE
