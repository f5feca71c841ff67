\* One window that is closed and opened again while its run is still ending.
SPECIFICATION Spec
CONSTANTS
    Parents = {"p"}
    Windows = {"w"}
    Requests = {"q", "r"}
    MaxThreads = 1
    MaxTurns = 2
    MaxOpens = 2
    MaxRuns = 2
INVARIANT OwnHistory
\* The bounds are used up.
CHECK_DEADLOCK FALSE
