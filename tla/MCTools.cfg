\* Planner: two runs of a session, replies of two calls, three changes of the plan.  edit: two calls
\* through two names of a file, one link changed under them.  shell: four bytes in two streams.
\* Terminal: five bytes printed, two inputs, each sent up to twice.  Rules: two calls in two rounds,
\* two edits of rule files.
SPECIFICATION AllSpec
CONSTANTS
    Goals = {"g"}
    StepLists <- MCStepLists
    Reasons = {"why"}
    Proposals = {"# plan"}
    Slots = 2
    MaxRevision = 3
    MaxRuns = 2
    Editors = {"c1", "c2"}
    Names = {"f", "link", "out"}
    InitialLink <- MCInitialLink
    InitialText <- MCInitialText
    Edits <- MCEdits
    Inside = {"f"}
    Outside = "out"
    MaxText = 9
    MaxRelinks = 1
    PagedFiles <- MCPagedFiles
    PageLimits = {1, 2, 9}
    ReadBytes = 9
    LongNotice = 5
    ShortNotice = 2
    Walks <- MCWalks
    Queries <- MCQueries
    MaxResults = 2
    GrepLimits = {1, 5, 20}
    LabelBytes = 1
    GrepWords <- MCGrepWords
    Inline = 7
    ArchiveTrigger = 5
    ArchivePreview = 3
    MaxCapture = 9
    Room = 6
    Marker = 1
    Notice = 0
    MaxWrites = 4
    KeptBytes = 3
    TerminalPage = 2
    MaxPrinted = 5
    MaxInputs = 2
    MaxCopies = 2
    Calls = {"c1", "c2"}
    Dirs <- MCDirs
    HistoryDirs <- MCHistoryDirs
    MaxDirs = 3
    MaxEdits = 2
    MaxRounds = 2
INVARIANTS PlanHonest EditSafe PagesCover GrepExact CommandContained TerminalExact RulesApplied
PROPERTY NoLostEdit
\* Every bound can be used up.
CHECK_DEADLOCK FALSE
