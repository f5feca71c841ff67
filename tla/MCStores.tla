------------------------------ MODULE MCStores ------------------------------
(***************************************************************************)
(* The stores that keep what a task leaves behind, checked in one run: the *)
(* session file under storage failures, memory, spilled results, compacted *)
(* histories, the search index and the projects.  They share nothing: a    *)
(* behaviour picks one of them in its first state and stays with it.       *)
(***************************************************************************)
EXTENDS SessionStore

CONSTANTS
    MemoryClients, Agents, Writers, Stores, StoreOf, Texts, BadText, MaxEntries, MaxOps, MaxNextId,
    Runs, Archives, ArchiveOf, Bodies, MaxEntryBytes, MaxRunBytes, MaxTotalBytes, PageLimit, MaxPuts,
    Shapes, Trigger, Target, Margin, MinBudget, MaxSummary, RecentGroups, MaxSummaryCalls,
    SummaryFit, MaxGroups,
    Sessions, Terms, MaxRevision, MaxSearches,
    Keys, Paths, MaxProjects, MaxChanges

\* No client of the memory is taken for the absence of one; a batch has a largest size.
ASSUME MemoryAssumption == "nobody" \notin MemoryClients /\ MaxOps \in Nat

\* Nor is a run taken for no run; a character has at least one byte.
ASSUME SpillAssumption ==
    /\ "nobody" \notin Runs /\ Bodies \subseteq Seq(Nat \ {0})
    /\ MaxRunBytes \in Nat /\ MaxTotalBytes \in Nat

\* What a run adds to its transcript is no system message, and has at least one byte.
ASSUME ContextAssumption ==
    Shapes \subseteq [kind : {"user", "step", "media"}, size : Nat \ {0}] /\ MaxSummary \in Nat

VARIABLES
    part,
    memoryFile, memoryGate, flock, pc, call, known, next, cancel,
    files, temps, lock, mutex, active, stage, put, ended, cancelled, published, expired, reader, puts,
    groups, summaries, job, sent, saved, fresh, compactedRuns, halt,
    docs, rows, catalog, search, searches,
    data, disk, lease, seen

\* One bound of failures for all parts: `faults` is the session's.
sessionVars == <<process, file, log, sentOn, edits, crashes>>
memoryVars == <<memoryFile, memoryGate, flock, pc, call, known, next, cancel>>
spillVars == <<files, temps, lock, mutex, active, stage, put, ended, cancelled, published, expired,
               reader, puts>>
compactionVars == <<groups, summaries, job, sent, saved, fresh, compactedRuns, halt>>
searchVars == <<docs, rows, catalog, search, searches>>
projectVars == <<data, disk, lease, seen>>
allVars == <<part, vars, memoryVars, spillVars, compactionVars, searchVars, projectVars>>

\* Two runs of one environment share a FileStore; a management route opens its own.
MCStoreOf == [c \in MemoryClients |-> IF c = "route" THEN "own" ELSE "shared"]
\* Two workspace environments, one run each.
MCArchiveOf == [r \in Runs |-> IF r = "r1" THEN "a1" ELSE "a2"]
\* Character widths of the results the runs archive.
MCBodies == {<<2>>, <<1, 2>>}
\* A user message, a step of calls and results, and one with media.
MCShapes == {[kind |-> "user", size |-> 1], [kind |-> "step", size |-> 3], [kind |-> "media", size |-> 1]}

Memory == INSTANCE Memory WITH Clients <- MemoryClients, file <- memoryFile, gate <- memoryGate
Spill == INSTANCE Spill
Compactor == INSTANCE Compaction WITH runs <- compactedRuns
SearchIndex == INSTANCE SearchIndex
Projects == INSTANCE Projects

AllInit ==
    /\ part \in {"session", "memory", "spill", "compaction", "search", "projects"}
    /\ Init /\ Memory!Init /\ Spill!Init /\ Compactor!Init /\ SearchIndex!Init /\ Projects!Init

\* A step of the session part; the fairness of its tasks is stated of these.
Within(A) ==
    /\ part = "session"
    /\ A
    /\ UNCHANGED <<part, memoryVars, spillVars, compactionVars, searchVars, projectVars>>

AllNext ==
    \/ Within(Next)
    \/ /\ UNCHANGED <<part, sessionVars>>
       /\ \/ /\ part = "memory" /\ Memory!Next
             /\ UNCHANGED <<spillVars, compactionVars, searchVars, projectVars>>
          \/ /\ part = "spill" /\ Spill!Next
             /\ UNCHANGED <<memoryVars, compactionVars, searchVars, projectVars>>
          \/ /\ part = "compaction" /\ Compactor!Next
             /\ UNCHANGED <<faults, memoryVars, spillVars, searchVars, projectVars>>
          \/ /\ part = "search" /\ SearchIndex!Next
             /\ UNCHANGED <<faults, memoryVars, spillVars, compactionVars, projectVars>>
          \/ /\ part = "projects" /\ Projects!Next
             /\ UNCHANGED <<memoryVars, spillVars, compactionVars, searchVars>>

AllSpec == AllInit /\ [][AllNext]_allVars

\* The fairness of SessionStore, of the session part.
AllFairness ==
    /\ WF_allVars(Within(Admission))
    /\ WF_allVars(Within(\E o \in AllOutcomes : Open(o)))
    /\ \A r \in RunIds :
        /\ WF_allVars(Within(Task(r)))
        /\ WF_allVars(Within(Disk(r)))
        /\ WF_allVars(Within(Finalizer(r)))

AllLiveSpec == AllSpec /\ AllFairness

-----------------------------------------------------------------------------

\* Memory: the store loses no update and gives no id a second meaning.
MemoryKept == Memory!MemoryKept

\* Spill: an archived result stays within its quotas, is where its locator says, and reads back
\* whole.
ArchiveSound == Spill!ArchiveSound

\* Compaction: nothing of a history is forgotten, in the run that compacts it and in the next.
ContextKept == Compactor!ContextKept

\* Search: a page is the answer for the sessions as they are, and the index skips nothing stale.
SearchExact == SearchIndex!SearchExact

\* Projects: a project id that was ever listed names one directory for ever.
IdentityStable == Projects!IdentityStable

=============================================================================
