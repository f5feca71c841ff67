\* Three calls, two at a time; a history one unit short of three full results, and one
\* with room for the fallback records only.
SPECIFICATION FairSpec
CONSTANTS
    N = 3
    KindChoices <- MCKinds
    MaxParallel = 2
    SlotBytes = 1
    MaxBytes = 2
    Limits = {3, 5}
INVARIANTS
    DurableTruth
PROPERTIES
    BatchDiscipline
    BatchEnds
    ContractHolds
