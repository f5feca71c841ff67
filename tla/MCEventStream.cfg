SPECIFICATION FairSpec
CONSTANTS
    Clients = {c1}
    MaxEvents = 5
    RingCap = 2
    JournalEvents = 2
    JournalBytes = 3
    Sizes = {1, 2, 4}
INVARIANTS ViewSound
PROPERTIES StreamEnds
