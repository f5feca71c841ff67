\* One child session under a wait, with refused follow-ups and a shutdown; liveness.
SPECIFICATION LiveSpec
CONSTANTS
    c1 = c1
    c2 = c2
    Children <- MCOneChild
    MaxRuns = 2
    MaxParallel = 1
    MaxDepth = 1
    Waits = TRUE
    Closes = TRUE
INVARIANTS NoLostWakeup
PROPERTIES ChildrenStop
\* Everything has ended.
CHECK_DEADLOCK FALSE
