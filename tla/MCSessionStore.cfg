\* Two turns, a compactor, one crash or one edit of the file at any point.
SPECIFICATION Spec
CONSTANTS
    t1 = t1
    t2 = t2
    TurnIds <- MCTurnIds
    MaxRuns = 2
    Compaction = TRUE
    MaxEdits = 1
    MaxCrashes = 1
    MaxFaults = 0
SYMMETRY Symmetry
CONSTRAINT EditOrCrash
INVARIANTS SessionHonest
PROPERTY EndedTurnsFixed
\* A deleted session with no run left is the end.
CHECK_DEADLOCK FALSE
