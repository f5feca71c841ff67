\* Two child sessions, two activations at a time, grandchildren, a shutdown.
SPECIFICATION Spec
CONSTANTS
    c1 = c1
    c2 = c2
    Children <- MCChildren
    MaxRuns = 3
    MaxParallel = 2
    MaxDepth = 2
    Waits = FALSE
    Closes = TRUE
SYMMETRY Symmetry
INVARIANTS Supervised
\* Everything has ended.
CHECK_DEADLOCK FALSE
