\* Sessions: one turn, a compactor, an edit, a crash and a failing save at any point.  Memory: two
\* runs of one environment and the management route, batches of two operations.  Spill: two runs in
\* two environments, two results.  Compaction: five groups, two runs.  Search: two sessions, two
\* searches.  Projects: two directories under two requests.  One fault at any point.
SPECIFICATION AllLiveSpec
CONSTANTS
    TurnIds = {t1}
    MaxRuns = 2
    Compaction = TRUE
    MaxEdits = 1
    MaxCrashes = 1
    MemoryClients = {"run", "peer", "route"}
    Agents = {"run"}
    Writers = {"run", "route"}
    Stores = {"shared", "own"}
    StoreOf <- MCStoreOf
    Texts = {"a"}
    BadText = "bad"
    MaxEntries = 1
    MaxOps = 2
    MaxNextId = 1
    Runs = {"r1", "r2"}
    Archives = {"a1", "a2"}
    ArchiveOf <- MCArchiveOf
    Bodies <- MCBodies
    Shapes <- MCShapes
    MaxEntryBytes = 3
    MaxRunBytes = 4
    MaxTotalBytes = 5
    PageLimit = 3
    MaxPuts = 2
    Trigger = 8
    Target = 6
    Margin = 2
    MinBudget = 1
    MaxSummary = 3
    RecentGroups = 2
    MaxSummaryCalls = 2
    SummaryFit = 3
    MaxGroups = 5
    Sessions = {"s", "t"}
    Terms = {"x"}
    MaxRevision = 3
    MaxSearches = 2
    Keys = {"k", "l"}
    Paths = {"a", "b"}
    MaxProjects = 2
    MaxChanges = 3
    MaxFaults = 1
INVARIANTS Recoverable ArchiveSound ContextKept SearchExact IdentityStable
PROPERTIES MemoryKept TurnEnds
\* Every bound can be used up; a deleted session with no run left is the end.
CHECK_DEADLOCK FALSE
