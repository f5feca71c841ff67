SPECIFICATION StaleSpec
CONSTANTS
    N = 2
    KindChoices <- MCStaleKinds
    MaxParallel = 2
    SlotBytes = 1
    MaxBytes = 2
    Limits = {4}
INVARIANT PolicyFresh
