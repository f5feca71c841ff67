---------------------------- MODULE SessionStore ----------------------------
(***************************************************************************)
(* One saved session: the file the Store replaces as a whole, the          *)
(* admission of turns, the checkpoints of their runs, the finalizer, the   *)
(* edits of other clients, and the death and restart of the process        *)
(* (packages/sessions/src/store.rs, context.rs, lifecycle.rs and           *)
(* packages/application/src/sessions.rs).                                  *)
(*                                                                         *)
(* A step is what happens under the store's gate, or between two awaits.   *)
(* A commit is the one operation that looks at a token while it holds the  *)
(* gate, so it takes two steps.  A saved file keeps its messages, not      *)
(* their text; a digest is the sequence it is taken of.                    *)
(***************************************************************************)
EXTENDS Integers, Sequences, FiniteSets, SequencesExt

CONSTANTS
    TurnIds,       \* request ids of turns; a retry has the same id
    MaxRuns,       \* bound: runs started by all processes
    Compaction,    \* a compactor is attached to the store
    MaxEdits,      \* bound: seeds, renames, flags and auxiliary state
    MaxCrashes,    \* bound: deaths of the process
    MaxFaults      \* bound: saves that return an error

ASSUME RunsAssumption == MaxRuns \in Nat \ {0}
ASSUME TurnAssumption == 0 \notin TurnIds
ASSUME BoundsAssumption ==
    /\ Compaction \in BOOLEAN
    /\ MaxEdits \in Nat /\ MaxCrashes \in Nat /\ MaxFaults \in Nat

VARIABLES
    up,        \* a process owns the lock and has opened the store
    present,   \* the file exists
    created,   \* it was created once
    doc,       \* its contents
    gate,      \* run whose commit is writing under Store.gate, or 0
    adm,       \* the one admission in progress (SessionApplication.starts)
    runs,      \* run id -> what its task, its finalizer and its commit do
    log,       \* turns the file had at each revision: what clients may have read
    sentOn,    \* turn -> number of turns its sender had read
    edits, crashes, faults

process == <<up, gate, adm, runs>>
file == <<present, created, doc>>
bounds == <<edits, crashes, faults>>
vars == <<process, file, log, sentOn, bounds>>

RunIds == 1..MaxRuns
\* Terminal statuses of a turn; "failed" stands for the four that are not success.
Ended == {"completed", "failed", "interrupted"}
LastStage == 5   \* BeforeModel, AfterModel, ToolIntent, ToolSettled, AfterTools

Prompt(t) == [role |-> "user", of |-> t]
Call(r) == [role |-> "call", of |-> r]
Answer(r) == [role |-> "answer", of |-> r]
Outcome(r, s) == [role |-> "tool", of |-> r, status |-> s]
Summary == [role |-> "summary"]
Seed == [role |-> "seed"]

NoCheckpoint == [run |-> 0, rev |-> 0, turn |-> 0, msgs |-> <<>>, call |-> "none", final |-> "none"]
NoBase == [set |-> FALSE, input |-> <<>>, pending |-> FALSE]
Blank == [rev |-> 0, status |-> "idle", turns |-> <<>>, cp |-> NoCheckpoint,
          archive |-> <<>>, base |-> NoBase, origin |-> 0]
Idle == [pc |-> "idle", turn |-> 0, run |-> 0, input |-> <<>>]
Unused == [turn |-> 0, pc |-> "unused", input |-> <<>>, acked |-> 0,
           op |-> "none", cancelled |-> FALSE, want |-> "none",
           report |-> "none", told |-> "none"]

Init ==
    /\ up = TRUE /\ gate = 0 /\ adm = Idle
    /\ runs = [r \in RunIds |-> Unused]
    /\ present = FALSE /\ created = FALSE /\ doc = Blank
    /\ log = <<>>
    /\ sentOn = [t \in TurnIds |-> 0]
    /\ edits = 0 /\ crashes = 0 /\ faults = 0

-----------------------------------------------------------------------------
(* Reading a file: Document::working_history, history and Store::load.     *)

LastTurn == doc.turns[Len(doc.turns)]
TurnSet == {doc.turns[i].id : i \in DOMAIN doc.turns}
IndexOf(t) == CHOOSE i \in DOMAIN doc.turns : doc.turns[i].id = t

\* Mutant: an intent without a result counts as never dispatched.
RecoveredSkips(cp) ==
    CASE cp.call \in {"pending", "intent"} -> <<Outcome(cp.run, "skipped")>>
      [] cp.call = "settled" -> <<Outcome(cp.run, "ok")>>
      [] cp.call = "none" -> <<>>
\* A call the checkpoint left open gets the result its durable state allows.
Recovered(cp) ==
    CASE cp.call = "pending" -> <<Outcome(cp.run, "skipped")>>
      [] cp.call = "intent" -> <<Outcome(cp.run, "unknown")>>
      [] cp.call = "settled" -> <<Outcome(cp.run, "ok")>>
      [] cp.call = "none" -> <<>>
WorkingHistory(d) ==
    IF d.cp.run # 0 THEN d.cp.msgs \o Recovered(d.cp)
    ELSE IF ~d.base.set THEN <<>>
    ELSE d.base.input \o (IF d.turns = <<>> THEN <<>> ELSE <<Prompt(Last(d.turns).id)>>)
History(d) ==
    LET working == WorkingHistory(d)
    IN IF d.base.set
       THEN d.archive \o SubSeq(working, Len(d.base.input) + 1, Len(working))
       ELSE working

\* The base a history is rebuilt on is the one its run was given.
BaseFits(d) ==
    IF d.base.set
    THEN /\ IsPrefix(d.base.input, WorkingHistory(d))
         /\ d.cp.run = 0 => d.base.pending
         /\ (d.cp.run = 0 /\ d.turns = <<>>) => Len(d.base.input) = d.origin
    ELSE d.turns = <<>> /\ d.cp.run = 0 /\ d.archive = <<>>
CheckpointFits(d) ==
    d.cp.run # 0 =>
        /\ d.cp.turn \in DOMAIN d.turns
        /\ d.turns[d.cp.turn].run = d.cp.run
TurnsFit(d) ==
    /\ \A i, j \in DOMAIN d.turns : d.turns[i].id = d.turns[j].id => i = j
    /\ \A i \in DOMAIN d.turns :
        /\ d.turns[i].start = (IF i = 1 THEN d.origin ELSE d.turns[i - 1].end)
        /\ d.turns[i].start < d.turns[i].end
        /\ d.turns[i].status = "running" => i = Len(d.turns)
Loads(d) ==
    /\ CheckpointFits(d) /\ TurnsFit(d) /\ BaseFits(d)
    /\ d.status = (IF d.turns = <<>> THEN "idle" ELSE Last(d.turns).status)
    /\ Len(History(d)) = (IF d.turns = <<>> THEN d.origin ELSE Last(d.turns).end)
CanLoad == present /\ Loads(doc)

-----------------------------------------------------------------------------
(* Store::save: one revision more, whole or not at all.  An error leaves   *)
(* the old file, or comes after the atomic replacement ("landed").         *)

SaveOutcomes == {"ok"} \cup (IF faults < MaxFaults THEN {"lost", "landed"} ELSE {})
Save(new, o) ==
    /\ doc' = IF o = "lost" THEN doc ELSE [new EXCEPT !.rev = @ + 1]
    /\ log' = IF o = "lost" THEN log ELSE Append(log, Len(new.turns))
    /\ faults' = IF o \in {"lost", "landed"} THEN faults + 1 ELSE faults

GateFree == up /\ gate = 0

\* Store::create_in.  A retry finds the file; a deleted session's key is not used again.
Create(o) ==
    /\ GateFree /\ ~created /\ o \in SaveOutcomes
    /\ Save(Blank, o)
    /\ present' = (o # "lost") /\ created' = present'
    /\ UNCHANGED <<process, sentOn, edits, crashes>>

\* Store::initialize_history: only into a session nothing has happened to.
InitializeHistory(o) ==
    /\ GateFree /\ edits < MaxEdits /\ o \in SaveOutcomes /\ CanLoad
    /\ doc.turns = <<>> /\ ~doc.base.set
    /\ Save([doc EXCEPT !.archive = <<Seed>>, !.origin = 1,
                        !.base = [set |-> TRUE, input |-> <<Seed>>, pending |-> TRUE]], o)
    /\ edits' = edits + 1
    /\ UNCHANGED <<process, present, created, sentOn, crashes>>

\* Store::rename and update_state: only between turns.
Edit(o) ==
    /\ GateFree /\ edits < MaxEdits /\ o \in SaveOutcomes /\ CanLoad
    /\ doc.status # "running"
    /\ Save(doc, o) /\ edits' = edits + 1
    /\ UNCHANGED <<process, present, created, sentOn, crashes>>

\* Store::set_flag and update_auxiliary_state: also while a run is active.
Touch(o) ==
    /\ GateFree /\ edits < MaxEdits /\ o \in SaveOutcomes /\ CanLoad
    /\ Save(doc, o) /\ edits' = edits + 1
    /\ UNCHANGED <<process, present, created, sentOn, crashes>>

\* Store::delete.
Delete ==
    /\ GateFree /\ CanLoad /\ doc.status # "running"
    /\ present' = FALSE /\ doc' = Blank /\ log' = <<>>
    /\ UNCHANGED <<process, created, sentOn, bounds>>

-----------------------------------------------------------------------------
(* SessionApplication::start, serialized by its `starts` lock.             *)

\* Document::next_workset: everything, or what the compactor leaves of the last workset.
Worksets ==
    IF Compaction
    THEN {WorkingHistory(doc)} \cup (IF WorkingHistory(doc) = <<>> THEN {} ELSE {<<Summary>>})
    ELSE {History(doc)}
\* Mutant: the archive keeps the workset, not the whole history.
AdmittedWorkset(t, w) ==
    [doc EXCEPT !.archive = w,
                !.base = [set |-> TRUE, input |-> w, pending |-> TRUE],
                !.cp = NoCheckpoint, !.status = "running",
                !.turns = Append(@, [id |-> t, run |-> 0, status |-> "running",
                                     start |-> Len(History(doc)),
                                     end |-> Len(History(doc)) + 1])]
Admitted(t, w) ==
    [doc EXCEPT !.archive = History(doc),
                !.base = [set |-> TRUE, input |-> w, pending |-> TRUE],
                !.cp = NoCheckpoint, !.status = "running",
                !.turns = Append(@, [id |-> t, run |-> 0, status |-> "running",
                                     start |-> Len(History(doc)),
                                     end |-> Len(History(doc)) + 1])]
\* Store::editable: the sender has seen this revision and no run is active.
Editable(revision) == revision = doc.rev /\ doc.status # "running"

\* Mutant: a retry is answered from the saved turn and then run again.
PrepareAgain(t, revision, o) ==
    /\ GateFree /\ adm.pc = "idle" /\ o \in SaveOutcomes
    /\ Editable(revision) /\ CanLoad
    /\ \E w \in Worksets :
        /\ IF t \in TurnSet THEN o = "ok" /\ UNCHANGED <<doc, log, faults>> ELSE Save(Admitted(t, w), o)
        /\ adm' = IF o = "ok" THEN [pc |-> "starting", turn |-> t, run |-> 0, input |-> w] ELSE Idle
    /\ sentOn' = [sentOn EXCEPT ![t] = log[revision]]
    /\ UNCHANGED <<up, gate, runs, present, created, edits, crashes>>
\* Store::prepare_with_context.  A known id is answered with its saved turn and changes nothing.
Prepare(t, revision, o) ==
    /\ GateFree /\ adm.pc = "idle" /\ o \in SaveOutcomes
    /\ Editable(revision) /\ t \notin TurnSet /\ CanLoad
    /\ \E w \in Worksets :
        /\ Save(Admitted(t, w), o)
        /\ adm' = IF o = "ok" THEN [pc |-> "starting", turn |-> t, run |-> 0, input |-> w] ELSE Idle
    /\ sentOn' = [sentOn EXCEPT ![t] = log[revision]]
    /\ UNCHANGED <<up, gate, runs, present, created, edits, crashes>>

\* AgentApplication::start_task_with_history under SessionRuntime::start, which
\* spawns the run's finalizer at once.
Start(r) ==
    /\ up /\ adm.pc = "starting"
    /\ runs[r].pc = "unused" /\ \A q \in 1..(r - 1) : runs[q].pc # "unused"
    /\ runs' = [runs EXCEPT ![r] = [Unused EXCEPT !.turn = adm.turn, !.pc = "live", !.input = adm.input]]
    /\ adm' = [adm EXCEPT !.pc = "binding", !.run = r]
    /\ UNCHANGED <<up, gate, file, log, sentOn, bounds>>
\* The registry is full or closing, or the runtime refuses the request.
StartRefused ==
    /\ up /\ adm.pc = "starting"
    /\ adm' = [adm EXCEPT !.pc = "failing"]
    /\ UNCHANGED <<up, gate, runs, file, log, sentOn, bounds>>

\* Store::fail_start.
FailStart(o) ==
    /\ GateFree /\ adm.pc = "failing" /\ CanLoad /\ o \in SaveOutcomes
    /\ LastTurn.id = adm.turn /\ LastTurn.status = "running"
    /\ Save([doc EXCEPT !.turns[Len(doc.turns)].status = "failed", !.status = "failed"], o)
    /\ adm' = Idle
    /\ UNCHANGED <<up, gate, runs, present, created, sentOn, edits, crashes>>

\* Store::bind.  Its failure cancels the run, which may end at any time anyway.
Bind(o) ==
    /\ GateFree /\ adm.pc = "binding" /\ adm' = Idle
    /\ \/ /\ CanLoad /\ adm.turn \in TurnSet /\ o \in SaveOutcomes
          /\ doc.turns[IndexOf(adm.turn)].run = 0
          /\ Save([doc EXCEPT !.turns[IndexOf(adm.turn)].run = adm.run], o)
       \/ \* a checkpoint of the run came first, or the session is gone
          /\ o = "ok"
          /\ CanLoad /\ adm.turn \in TurnSet => doc.turns[IndexOf(adm.turn)].run # 0
          /\ UNCHANGED <<doc, log, faults>>
    /\ UNCHANGED <<up, gate, runs, present, created, sentOn, edits, crashes>>

-----------------------------------------------------------------------------
(* The run, as Checkpoints::write shows it to the store: one commit at a   *)
(* time, and none after one that failed.                                   *)

\* What a run has said by the time of checkpoint n, and the state of its call.
Said(r, n) == IF n < 2 THEN <<>> ELSE IF n < LastStage THEN <<Call(r)>>
              ELSE <<Call(r), Outcome(r, "ok")>>
CallState(n) == CASE n = 2 -> "pending" [] n = 3 -> "intent" [] n = 4 -> "settled" [] OTHER -> "none"
\* repair_unsettled: the transcript of RunFinished has a result for every call.
Closed(r, n) ==
    CASE n < 2 -> <<>>
      [] n = 2 -> <<Call(r), Outcome(r, "skipped")>>
      [] n = 3 -> <<Call(r), Outcome(r, "unknown")>>
      [] OTHER -> <<Call(r), Outcome(r, "ok")>>
Transcript(r) ==
    runs[r].input \o <<Prompt(runs[r].turn)>> \o
        (CASE runs[r].want = "none" -> Said(r, runs[r].acked + 1)
           [] runs[r].want = "failed" -> Closed(r, runs[r].acked)
           [] runs[r].want = "completed" -> Append(Closed(r, runs[r].acked), Answer(r)))
Snapshot(r) ==
    [run |-> r, rev |-> runs[r].acked + 1, turn |-> Len(doc.turns), msgs |-> Transcript(r),
     call |-> IF runs[r].want = "none" THEN CallState(runs[r].acked + 1) ELSE "none",
     final |-> runs[r].want]

\* Checkpoints::write hands the next snapshot to the sink.
Write(r, want) ==
    /\ up /\ runs[r].pc = "live" /\ runs[r].op = "none"
    /\ want = "none" => runs[r].acked < LastStage
    /\ want = "completed" => runs[r].acked \in {1, LastStage}
    /\ runs' = [runs EXCEPT ![r].op = "queued", ![r].want = want]
    /\ UNCHANGED <<up, gate, adm, file, log, sentOn, bounds>>

\* Store::commit_with_state up to the replacement: what the file must look like.
Accepts(r) ==
    /\ CanLoad /\ doc.turns # <<>>
    /\ LastTurn.id = runs[r].turn /\ LastTurn.run \in {0, r}
    /\ doc.cp.run = r => runs[r].acked + 1 = doc.cp.rev + 1
    /\ LastTurn.status = "running"
\* Nobody waits for the answer of a commit its run has given up.
Answered(r, answer) == IF runs[r].pc = "live" THEN answer ELSE "none"
CommitBegin(r) ==
    /\ GateFree /\ runs[r].op = "queued"
    /\ IF Accepts(r) /\ ~runs[r].cancelled
       THEN gate' = r /\ runs' = [runs EXCEPT ![r].op = "writing"]
       ELSE gate' = gate /\ runs' = [runs EXCEPT ![r].op = Answered(r, "refused")]
    /\ UNCHANGED <<up, adm, file, log, sentOn, bounds>>

Committed(r) ==
    LET cp == Snapshot(r)
        with == [doc EXCEPT !.cp = cp, !.base.pending = FALSE, !.turns[cp.turn].run = r]
        status == IF cp.final = "none" THEN "running" ELSE cp.final
    IN [with EXCEPT !.turns[cp.turn].end = Len(History(with)),
                    !.turns[cp.turn].status = status, !.status = status]
\* The second look at the token, then the replacement.  Cancelled between the
\* two, the commit still lands; "dropped" is the token seen in time.
CommitEnd(r, o) ==
    /\ up /\ gate = r
    /\ o \in SaveOutcomes \cup (IF runs[r].cancelled THEN {"dropped"} ELSE {})
    /\ IF o = "dropped" THEN UNCHANGED <<doc, log, faults>> ELSE Save(Committed(r), o)
    /\ gate' = 0
    /\ runs' = [runs EXCEPT ![r].op = Answered(r, IF o = "ok" THEN "done" ELSE "error")]
    /\ UNCHANGED <<up, adm, present, created, sentOn, edits, crashes>>

\* The answer of the sink reaches the run.
Acknowledged(r) ==
    /\ up /\ runs[r].pc = "live" /\ runs[r].op = "done"
    /\ runs' = [runs EXCEPT ![r].op = "none", ![r].report = runs[r].want, ![r].want = "none",
                            ![r].acked = IF runs[r].want = "none" THEN @ + 1 ELSE @,
                            ![r].pc = IF runs[r].want = "none" THEN "live" ELSE "settling"]
    /\ UNCHANGED <<up, gate, adm, file, log, sentOn, bounds>>
\* It fails, or the deadline passes first and cancels the operation, which
\* goes on in its own thread.
NotAcknowledged(r) ==
    /\ up /\ runs[r].pc = "live" /\ runs[r].op # "none"
    /\ runs' = [runs EXCEPT ![r].pc = "settling", ![r].report = "failed",
                            ![r].cancelled = runs[r].op \notin {"error", "refused"}]
    /\ UNCHANGED <<up, gate, adm, file, log, sentOn, bounds>>

-----------------------------------------------------------------------------
(* SessionRuntime::start's finalizer: Store::finish, then the waiters.     *)

Finished(r) ==
    [doc EXCEPT !.turns[Len(doc.turns)].status = runs[r].report,
                !.turns[Len(doc.turns)].end = Len(History(doc)),
                !.status = runs[r].report]
StillRunning(r) == CanLoad /\ runs[r].turn \in TurnSet
                   /\ doc.turns[IndexOf(runs[r].turn)].status = "running"
Told(r, what) == [runs EXCEPT ![r].pc = "over", ![r].report = "none", ![r].told = what]
Settle(r, o) ==
    /\ GateFree /\ runs[r].pc = "settling"
    /\ \/ /\ StillRunning(r) /\ LastTurn.id = runs[r].turn /\ runs[r].report # "completed"
          /\ o \in SaveOutcomes /\ Save(Finished(r), o)
          /\ runs' = Told(r, IF o = "ok" THEN runs[r].report ELSE "error")
       \/ \* the last checkpoint has settled the turn; or the session is gone, or a
          \* success is not in the file, which is an error
          /\ (StillRunning(r) => runs[r].report = "completed") /\ o = "ok"
          /\ runs' = Told(r, IF CanLoad /\ ~StillRunning(r) THEN runs[r].report ELSE "error")
          /\ UNCHANGED <<doc, log, faults>>
    /\ UNCHANGED <<up, gate, adm, present, created, sentOn, edits, crashes>>

-----------------------------------------------------------------------------
(* The process dies with everything in memory; Store::open by the next.    *)

Crash ==
    /\ up /\ crashes < MaxCrashes /\ crashes' = crashes + 1
    /\ up' = FALSE /\ gate' = 0 /\ adm' = Idle
    /\ runs' = [r \in RunIds |->
                   [Unused EXCEPT !.turn = runs[r].turn, !.acked = runs[r].acked, !.told = runs[r].told,
                                  !.pc = IF runs[r].pc = "unused" THEN "unused" ELSE "dead"]]
    /\ UNCHANGED <<file, log, sentOn, edits, faults>>

Interrupted ==
    [doc EXCEPT !.turns[Len(doc.turns)].status = "interrupted",
                !.turns[Len(doc.turns)].end = Len(History(doc)),
                !.status = "interrupted"]
\* Mutant: the next process leaves a running turn as it is.
OpenAsIs(o) ==
    /\ ~up /\ o = "ok" /\ up' = TRUE
    /\ UNCHANGED <<gate, adm, runs, file, log, sentOn, bounds>>
Open(o) ==
    /\ ~up
    /\ IF CanLoad /\ doc.status = "running"
       THEN o \in SaveOutcomes /\ Save(Interrupted, o) /\ up' = (o = "ok")
       ELSE o = "ok" /\ up' = TRUE /\ UNCHANGED <<doc, log, faults>>
    /\ UNCHANGED <<gate, adm, runs, present, created, sentOn, edits, crashes>>

-----------------------------------------------------------------------------
AllOutcomes == {"ok", "lost", "landed", "dropped"}

Clients ==
    \/ Delete
    \/ \E o \in AllOutcomes : Create(o) \/ InitializeHistory(o) \/ Edit(o) \/ Touch(o)
    \/ \E revision \in DOMAIN log, t \in TurnIds, o \in AllOutcomes : Prepare(t, revision, o)
Admission ==
    \/ StartRefused
    \/ \E r \in RunIds : Start(r)
    \/ \E o \in AllOutcomes : FailStart(o) \/ Bind(o)
Task(r) ==
    \/ \E want \in {"none", "completed", "failed"} : Write(r, want)
    \/ Acknowledged(r) \/ NotAcknowledged(r)
Disk(r) == CommitBegin(r) \/ \E o \in AllOutcomes : CommitEnd(r, o)
Finalizer(r) == \E o \in AllOutcomes : Settle(r, o)
Process == Crash \/ \E o \in AllOutcomes : Open(o)

Next ==
    \/ Clients \/ Admission \/ Process
    \/ \E r \in RunIds : Task(r) \/ Disk(r) \/ Finalizer(r)

Spec == Init /\ [][Next]_vars

\* Admission is a task of its own and every disk operation runs to its end on a
\* blocking thread; a run is bounded by its limits; the host is started again.
Fairness ==
    /\ WF_vars(Admission) /\ WF_vars(\E o \in AllOutcomes : Open(o))
    /\ \A r \in RunIds : WF_vars(Task(r)) /\ WF_vars(Disk(r)) /\ WF_vars(Finalizer(r))
LiveSpec == Spec /\ Fairness

-----------------------------------------------------------------------------
Statuses == Ended \cup {"running"}

\* Types of every variable; the gate is held only by a commit that is writing
\* (Store.gate), and a run exists only for an admitted turn.
TypeOK ==
    /\ up \in BOOLEAN /\ present \in BOOLEAN /\ created \in BOOLEAN
    /\ present => created
    /\ gate \in 0..MaxRuns
    /\ \A r \in RunIds : gate = r <=> runs[r].op = "writing"
    /\ adm.pc \in {"idle", "starting", "failing", "binding"}
    /\ adm.turn \in TurnIds \cup {0} /\ adm.run \in 0..MaxRuns
    /\ doc.rev \in Nat /\ doc.status \in Statuses \cup {"idle"}
    /\ \A i \in DOMAIN doc.turns :
        /\ doc.turns[i].id \in TurnIds /\ doc.turns[i].status \in Statuses
        /\ doc.turns[i].run \in 0..MaxRuns
        /\ doc.turns[i].start \in Nat /\ doc.turns[i].end \in Nat
    /\ \A r \in RunIds :
        /\ runs[r].pc \in {"unused", "live", "settling", "over", "dead"}
        /\ runs[r].op \in {"none", "queued", "writing", "done", "error", "refused"}
        /\ runs[r].acked \in 0..LastStage
        /\ runs[r].want \in {"none", "completed", "failed"}
        /\ runs[r].report \in {"none", "completed", "failed"}
        /\ runs[r].told \in {"none", "completed", "failed", "error"}
        /\ (runs[r].pc = "unused") = (runs[r].turn \notin TurnIds)
    /\ log \in Seq(0..Cardinality(TurnIds))
    /\ edits \in 0..MaxEdits /\ crashes \in 0..MaxCrashes /\ faults \in 0..MaxFaults

\* The store's own checks never turn against it.  No sequence of saves, however it
\* fails or is cut short by a crash, leaves a file Store::load rejects: that
\* session could never be opened again.  And without a storage failure only a commit
\* its run has given up is refused, whatever bind and other clients save meanwhile.
Loadable ==
    /\ present => Loads(doc)
    /\ faults = 0 => \A r \in RunIds : runs[r].op \in {"error", "refused"} => runs[r].cancelled

\* A turn is executed at most once: neither a retry, nor a failed save, nor a
\* restart gives a second run to the same turn id (SessionApplication::start).
OneRunPerTurn ==
    \A r, q \in RunIds : runs[r].turn = runs[q].turn /\ runs[r].turn \in TurnIds => r = q

\* A checkpoint the run was told is stored is in the file while its turn is the
\* last one, across late commits, other clients' saves and restarts; and a run
\* whose waiters are told it completed has its turn completed and its answer in the
\* history, as long as the session exists (SavedRun::wait after Store::finish).
AckedIsStored ==
    \A r \in RunIds :
        /\ (runs[r].acked > 0 /\ present /\ LastTurn.id = runs[r].turn) =>
            doc.cp.run = r /\ doc.cp.rev >= runs[r].acked
        /\ (runs[r].told = "completed" /\ present) =>
            /\ doc.turns[IndexOf(runs[r].turn)].status = "completed"
            /\ Answer(r) \in Range(History(doc))

\* A call that may have run (its intent was acknowledged) is never shown to a
\* later turn as one that was not dispatched (Document::working_history).
EffectNotDenied ==
    \A r \in RunIds : runs[r].acked >= 3 => Outcome(r, "skipped") \notin Range(History(doc))

\* A turn continues exactly the conversation its sender had read: none was
\* added in between (the revision Store::editable compares).
SeenBeforeSent ==
    \A i \in DOMAIN doc.turns : sentOn[doc.turns[i].id] = i - 1

\* Once a turn has ended neither its status nor its messages change: not by a
\* late commit, a finalizer, a restart, a later turn or compaction.
Settled(d, i) ==
    [status |-> d.turns[i].status, msgs |-> SubSeq(History(d), d.turns[i].start + 1, d.turns[i].end)]
EndedTurnsFixed ==
    [][present /\ present' =>
        \A i \in DOMAIN doc.turns : doc.turns[i].status \in Ended =>
            i \in DOMAIN doc'.turns /\ Settled(doc', i) = Settled(doc, i)]_vars

\* As long as saves succeed a turn that was admitted ends, whatever its start,
\* its run, a late commit or the death of the process do in between.
TurnEnds == doc.status = "running" ~> doc.status # "running" \/ faults > 0

\* The file a session is continued from can be opened, holds what was acknowledged,
\* denies no effect, and every turn in it was sent by someone who had seen the rest.
SessionHonest == Loadable /\ AckedIsStored /\ EffectNotDenied /\ SeenBeforeSent

\* Failing saves, edits and restarts leave a file that opens and repeat no turn.
Recoverable == Loadable /\ OneRunPerTurn
=============================================================================
