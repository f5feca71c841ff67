\* Two steps, two inputs, up to two calls per reply, a history that can fill up.
SPECIFICATION FairSpec
CONSTANTS
    MaxSteps = 2
    Inputs = {i1, i2}
    QueueCap = 1
    CallIds = {c1, c2}
    HistoryLimit = 6
INVARIANTS HistoryHonest
PROPERTIES RunSettles
