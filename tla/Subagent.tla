------------------------------ MODULE Subagent ------------------------------
(***************************************************************************)
(* Delegation inside one root task (packages/subagent/src/service.rs,      *)
(* execution.rs): runs start children on saved sessions of their own,      *)
(* children start grandchildren, and a run that ends stops what it started.*)
(*                                                                         *)
(* An activation is a run on a child session; the root's run is number 1.  *)
(* A step is the code between two awaits, or one lock section where other  *)
(* threads can come in between.                                            *)
(***************************************************************************)
EXTENDS Integers, FiniteSets

CONSTANTS
    Children,      \* child sessions that may be created
    MaxRuns,       \* bound: the root's run and all activations
    MaxParallel,   \* config.max_parallel
    MaxDepth,      \* config.max_depth
    Waits,         \* whether the run has a call of wait
    Closes         \* whether the run has a shutdown

ASSUME BoundAssumption == MaxRuns \in Nat \ {0} /\ MaxParallel \in Nat \ {0} /\ MaxDepth \in Nat
ASSUME FlagAssumption == Waits \in BOOLEAN /\ Closes \in BOOLEAN

VARIABLES
    run,       \* run id -> its task, its entry in `parents` and its activation
    doc,       \* child -> its saved session
    active,    \* Service.active: child -> activation, 0 if none
    permits,   \* AgentExecutionLimiter.active
    asked,     \* a request that passed Service::parent and waits for the lock
    adm,       \* the holder of Service.admission
    closing,   \* Service::shutdown
    waiter     \* one call of Service::wait

vars == <<run, doc, active, permits, asked, adm, closing, waiter>>

Runs == 1..MaxRuns
RootRun == 1
None == [by |-> 0, child |-> 0]
Free == [pc |-> "free", by |-> 0, child |-> 0]
\* pc: a run drives its steps, then finish_transforms calls Service::finish,
\* which stops, collects and waits; then it reports.
Unstarted == [pc |-> "none", owner |-> 0, child |-> 0, depth |-> 0, registered |-> FALSE, stop |-> FALSE,
              cancelled |-> FALSE, kids |-> {}, status |-> "none", monitor |-> "none"]

Init ==
    /\ run = [r \in Runs |-> IF r = RootRun THEN [Unstarted EXCEPT !.pc = "driving"] ELSE Unstarted]
    /\ doc = [c \in Children |-> [status |-> "absent", owner |-> 0, depth |-> 0, refused |-> FALSE]]
    /\ active = [c \in Children |-> 0]
    /\ permits = 0 /\ asked = None /\ adm = Free
    /\ closing = [pc |-> "no", kids |-> {}]
    /\ waiter = [pc |-> "idle", by |-> 0, child |-> 0, woken |-> FALSE, status |-> "none"]

-----------------------------------------------------------------------------
(* TaskControl::branch: cancelling a run cancels all below it.             *)

Above[r \in 0..MaxRuns] == IF r = 0 THEN {} ELSE {r} \cup Above[run[r].owner]
Cancelled(rs) ==
    [r \in Runs |-> IF run[r].pc # "none" /\ Above[r] \cap rs # {}
                    THEN [run[r] EXCEPT !.cancelled = TRUE] ELSE run[r]]
\* Parent::check.
ParentOk(r) == ~run[r].cancelled /\ ~run[r].stop
\* Service::changed.
Wake == [waiter EXCEPT !.woken = waiter.pc # "idle"]

\* Service::capture in a run's context transform.  A child's capture fails, and
\* with it the run, when the root's entry is gone.
Capture(r) ==
    /\ run[r].pc = "driving" /\ ~run[r].registered
    /\ r # RootRun => run[RootRun].registered
    /\ run' = [run EXCEPT ![r].registered = TRUE]
    /\ UNCHANGED <<doc, active, permits, asked, adm, closing, waiter>>

\* The user, the deadline, or a caller of interrupt.
CancelRun(r) ==
    /\ run[r].pc = "driving" /\ ~run[r].cancelled
    /\ run' = Cancelled({r})
    /\ UNCHANGED <<doc, active, permits, asked, adm, closing, waiter>>

-----------------------------------------------------------------------------
(* Service::spawn and followup.  Both run as tasks of their own, so they   *)
(* go on when the calling tool, or the calling run, is gone.               *)

\* Service::parent.
Reachable(r) == run[r].pc = "driving" /\ run[r].registered /\ closing.pc = "no" /\ ParentOk(r)
\* Before the admission lock.
Ask(r, c) ==
    /\ asked = None /\ Reachable(r)
    /\ asked' = [by |-> r, child |-> c]
    /\ UNCHANGED <<run, doc, active, permits, adm, closing, waiter>>

\* Parent::allows: the root, or the session that created the child.
Allows(r, c) == r = RootRun \/ doc[c].owner = run[r].child
SpawnFits(r, c) == doc[c].status = "absent" /\ run[r].depth < MaxDepth
FollowupFits(r, c) == doc[c].status # "absent" /\ Allows(r, c) /\ active[c] = 0
\* Inside the lock: the checks, then a permit.  A refusal leaves no trace.
Admit ==
    LET r == asked.by
        c == asked.child
    IN
    /\ asked # None /\ adm = Free /\ asked' = None
    /\ IF /\ ParentOk(r) /\ permits < MaxParallel
          /\ SpawnFits(r, c) \/ FollowupFits(r, c)
       THEN /\ permits' = permits + 1
            /\ adm' = [pc |-> IF doc[c].status = "absent" THEN "create" ELSE "prepare", by |-> r, child |-> c]
       ELSE UNCHANGED <<permits, adm>>
    /\ UNCHANGED <<run, doc, active, closing, waiter>>

\* An early return of spawn_inner or activate drops the permit and the lock.
GiveUp == adm' = Free /\ permits' = permits - 1

\* The host or the store refuses before the turn is saved.
AdmissionFails ==
    /\ adm.pc \in {"create", "prepare"} /\ GiveUp
    /\ UNCHANGED <<run, doc, active, asked, closing, waiter>>

\* Store::create_in and initialize_history.
CreateChild ==
    /\ adm.pc = "create"
    /\ doc' = [doc EXCEPT ![adm.child].status = "idle", ![adm.child].owner = run[adm.by].child,
                          ![adm.child].depth = run[adm.by].depth + 1]
    /\ adm' = [adm EXCEPT !.pc = "prepare"]
    /\ UNCHANGED <<run, active, permits, asked, closing, waiter>>
\* activate: the parent is checked, the turn is saved, the parent is checked again.
PrepareChild ==
    /\ adm.pc = "prepare"
    /\ IF ParentOk(adm.by) /\ doc[adm.child].status # "running"
       THEN /\ doc' = [doc EXCEPT ![adm.child].status = "running"]
            /\ adm' = [adm EXCEPT !.pc = "check"] /\ UNCHANGED permits
       ELSE GiveUp /\ doc' = doc
    /\ UNCHANGED <<run, active, asked, closing, waiter>>
CheckParent ==
    /\ adm.pc = "check"
    /\ adm' = [adm EXCEPT !.pc = IF ParentOk(adm.by) THEN "start" ELSE "refused"]
    /\ UNCHANGED <<run, doc, active, permits, asked, closing, waiter>>
\* The runtime starts the child, which is entered in `active` before its
\* monitor is spawned; the lock is released (the view read last changes nothing).
StartChild(q) ==
    /\ adm.pc = "start" /\ q > adm.by
    /\ run[q].pc = "none" /\ \A p \in 1..(q - 1) : run[p].pc # "none"
    /\ run' = [run EXCEPT ![q] = [Unstarted EXCEPT !.pc = "driving", !.owner = adm.by, !.child = adm.child,
                                      !.depth = doc[adm.child].depth,
                                      !.cancelled = run[adm.by].cancelled, !.monitor = "watching"]]
    /\ active' = [active EXCEPT ![adm.child] = q]
    /\ doc' = [doc EXCEPT ![adm.child].refused = FALSE]
    /\ waiter' = Wake /\ adm' = Free
    /\ UNCHANGED <<permits, asked, closing>>
\* The model's name cannot be saved, or the runtime refuses the run.
StartFails ==
    /\ adm.pc \in {"check", "start"} /\ adm' = [adm EXCEPT !.pc = "refused"]
    /\ UNCHANGED <<run, doc, active, permits, asked, closing, waiter>>
\* Store::fail_start; nobody is told of this change.
FailStart ==
    /\ adm.pc = "refused" /\ GiveUp
    /\ doc' = [doc EXCEPT ![adm.child].status = "ended", ![adm.child].refused = TRUE]
    /\ UNCHANGED <<run, active, asked, closing, waiter>>

-----------------------------------------------------------------------------
(* Service::finish, awaited by the run for at most its hook timeout.       *)

Activations(r) == {q \in Runs : run[q].owner = r /\ active[run[q].child] = q}
\* The run leaves `parents` and its stop token is cancelled.
FinishBegin(r, status) ==
    /\ run[r].pc = "driving"
    /\ run' = [run EXCEPT ![r].pc = "finishing", ![r].status = status,
                          ![r].registered = FALSE, ![r].stop = @ \/ run[r].registered]
    /\ UNCHANGED <<doc, active, permits, asked, adm, closing, waiter>>
\* Mutant: the admission lock is not taken.
FinishCollectUnlocked(r) ==
    LET kids == Activations(r) IN
    /\ run[r].pc = "finishing"
    /\ run' = [Cancelled(kids) EXCEPT ![r].pc = "settling", ![r].kids = kids]
    /\ UNCHANGED <<doc, active, permits, asked, adm, closing, waiter>>
\* Under the admission lock: the run's children as they are in `active`.  Those
\* without an outcome are cancelled, and make a success a failure.
FinishCollect(r) ==
    LET kids == Activations(r)
        unfinished == {q \in kids : run[q].pc # "reported"}
    IN
    /\ run[r].pc = "finishing" /\ adm = Free
    /\ run' = [Cancelled(unfinished) EXCEPT
                  ![r].pc = "settling", ![r].kids = kids,
                  ![r].status = IF unfinished = {} THEN run[r].status ELSE "failed"]
    /\ UNCHANGED <<doc, active, permits, asked, adm, closing, waiter>>
\* The outcome is committed and published; a child's session has ended.
Reported(r) ==
    doc' = [c \in Children |-> IF c = run[r].child THEN [doc[c] EXCEPT !.status = "ended"] ELSE doc[c]]
\* settle_all: every collected child's monitor is done; the error of one that
\* could not be settled is the run's.
FinishEnd(r, settled) ==
    /\ run[r].pc = "settling" /\ \A q \in run[r].kids : run[q].monitor = "done"
    /\ ~settled => run[r].kids # {}
    /\ run' = [run EXCEPT ![r].pc = "reported", ![r].status = IF settled THEN @ ELSE "failed"] /\ Reported(r)
    /\ UNCHANGED <<active, permits, asked, adm, closing, waiter>>
\* The hook times out: an error for the run, and the rest is left to the monitors.
FinishTimeout(r) ==
    /\ run[r].pc \in {"finishing", "settling"}
    /\ run' = [run EXCEPT ![r].pc = "reported", ![r].status = "failed"] /\ Reported(r)
    /\ UNCHANGED <<active, permits, asked, adm, closing, waiter>>

-----------------------------------------------------------------------------
(* The task activate spawns for every activation.                          *)

\* Mutant: the monitor watches the parent's task, not its stop token.
MonitorStopsTask(q) ==
    /\ run[q].monitor = "watching" /\ run[run[q].owner].cancelled /\ ~run[q].cancelled
    /\ run' = Cancelled({q})
    /\ UNCHANGED <<doc, active, permits, asked, adm, closing, waiter>>
\* The parent's stop token cancels the child.
MonitorStops(q) ==
    /\ run[q].monitor = "watching" /\ run[run[q].owner].stop /\ ~run[q].cancelled
    /\ run' = Cancelled({q})
    /\ UNCHANGED <<doc, active, permits, asked, adm, closing, waiter>>
\* The child has ended: the permit first, then the entry, then the observers.
MonitorEnds(q) ==
    /\ run[q].monitor = "watching" /\ run[q].pc = "reported"
    /\ permits' = permits - 1 /\ run' = [run EXCEPT ![q].monitor = "released"]
    /\ UNCHANGED <<doc, active, asked, adm, closing, waiter>>
MonitorRemoves(q) ==
    /\ run[q].monitor = "released"
    /\ active' = IF active[run[q].child] = q THEN [active EXCEPT ![run[q].child] = 0] ELSE active
    /\ run' = [run EXCEPT ![q].monitor = "removed"]
    /\ UNCHANGED <<doc, permits, asked, adm, closing, waiter>>
\* Mutant: only `done` is set.
MonitorTellsNone(q) ==
    /\ run[q].monitor = "removed"
    /\ run' = [run EXCEPT ![q].monitor = "done"]
    /\ UNCHANGED <<doc, active, permits, asked, adm, closing, waiter>>
MonitorTells(q) ==
    /\ run[q].monitor = "removed"
    /\ run' = [run EXCEPT ![q].monitor = "done"] /\ waiter' = Wake
    /\ UNCHANGED <<doc, active, permits, asked, adm, closing>>

-----------------------------------------------------------------------------
(* Service::shutdown.                                                      *)

ShutdownBegin ==
    /\ Closes /\ closing.pc = "no" /\ closing' = [closing EXCEPT !.pc = "closed"]
    /\ UNCHANGED <<run, doc, active, permits, asked, adm, waiter>>
ShutdownStops ==
    /\ closing.pc = "closed" /\ closing' = [closing EXCEPT !.pc = "stopped"]
    /\ run' = [r \in Runs |-> IF run[r].registered THEN [run[r] EXCEPT !.stop = TRUE] ELSE run[r]]
    /\ UNCHANGED <<doc, active, permits, asked, adm, waiter>>
ShutdownCollects ==
    LET kids == {q \in Runs : run[q].child \in Children /\ active[run[q].child] = q} IN
    /\ closing.pc = "stopped" /\ adm = Free
    /\ closing' = [pc |-> "collected", kids |-> kids]
    /\ run' = Cancelled(kids)
    /\ UNCHANGED <<doc, active, permits, asked, adm, waiter>>
ShutdownEnds ==
    /\ closing.pc = "collected" /\ \A q \in closing.kids : run[q].monitor = "done"
    /\ closing' = [closing EXCEPT !.pc = "done"]
    /\ run' = [r \in Runs |-> [run[r] EXCEPT !.registered = FALSE]]
    /\ UNCHANGED <<doc, active, permits, asked, adm, waiter>>

-----------------------------------------------------------------------------
(* Service::wait on one child: subscribe, then read the saved status, then *)
(* `active`, and sleep until something changed.                            *)

WaitBegin(r, c) ==
    /\ Waits /\ waiter.pc = "idle" /\ Reachable(r) /\ doc[c].status # "absent" /\ Allows(r, c)
    /\ waiter' = [pc |-> "view", by |-> r, child |-> c, woken |-> FALSE, status |-> "none"]
    /\ UNCHANGED <<run, doc, active, permits, asked, adm, closing>>
WaitViews ==
    /\ waiter.pc = "view"
    /\ waiter' = [waiter EXCEPT !.pc = "look", !.status = doc[waiter.child].status]
    /\ UNCHANGED <<run, doc, active, permits, asked, adm, closing>>
Settling(c) == active[c] # 0 /\ run[active[c]].monitor # "done"
WaitLooks ==
    /\ waiter.pc = "look"
    /\ waiter' = [waiter EXCEPT !.pc = IF Settling(waiter.child) \/ waiter.status = "running"
                                       THEN "asleep" ELSE "returned"]
    /\ UNCHANGED <<run, doc, active, permits, asked, adm, closing>>
WaitWakes ==
    /\ waiter.pc = "asleep" /\ waiter.woken
    /\ waiter' = [waiter EXCEPT !.pc = "view", !.woken = FALSE]
    /\ UNCHANGED <<run, doc, active, permits, asked, adm, closing>>
\* Its deadline, its caller's token or the parent's stop.
WaitLeaves ==
    /\ waiter.pc = "asleep"
    /\ waiter' = [waiter EXCEPT !.pc = "left"]
    /\ UNCHANGED <<run, doc, active, permits, asked, adm, closing>>

-----------------------------------------------------------------------------
Admission == Admit \/ AdmissionFails \/ CreateChild \/ PrepareChild \/ CheckParent \/ StartFails \/ FailStart
             \/ \E q \in Runs : StartChild(q)
Finish(r) == (\E status \in {"completed", "failed"} : FinishBegin(r, status)) \/ FinishCollect(r)
             \/ (\E settled \in BOOLEAN : FinishEnd(r, settled))
Monitor(q) == MonitorStops(q) \/ MonitorEnds(q) \/ MonitorRemoves(q) \/ MonitorTells(q)
Shutdown == ShutdownBegin \/ ShutdownStops \/ ShutdownCollects \/ ShutdownEnds
Wait == WaitViews \/ WaitLooks \/ WaitWakes

Next ==
    \/ Admission \/ Shutdown \/ Wait \/ WaitLeaves
    \/ \E r \in Runs : Capture(r) \/ CancelRun(r) \/ Finish(r) \/ FinishTimeout(r) \/ Monitor(r)
    \/ \E r \in Runs, c \in Children : Ask(r, c) \/ WaitBegin(r, c)
Spec == Init /\ [][Next]_vars
\* Admission and the monitors are tasks of their own that await only the disk
\* and each other; a run that is cancelled ends (Run).
LiveSpec ==
    /\ Spec /\ WF_vars(Admission)
    /\ \A r \in Runs :
        /\ WF_vars(Monitor(r)) /\ SF_vars(FinishCollect(r)) /\ WF_vars(\E settled \in BOOLEAN : FinishEnd(r, settled))
        /\ WF_vars(run[r].cancelled /\ \E status \in {"completed", "failed"} : FinishBegin(r, status))

-----------------------------------------------------------------------------
\* Types; permits are those of the admission in progress and of the monitors
\* that have not seen their child end, never more than max_parallel.
TypeOK ==
    /\ active \in [Children -> 0..MaxRuns]
    /\ adm.pc \in {"free", "create", "prepare", "check", "start", "refused"}
    /\ \A r \in Runs :
        /\ run[r].pc \in {"none", "driving", "finishing", "settling", "reported"}
        /\ run[r].owner < r /\ run[r].kids \subseteq Runs
        /\ run[r].monitor \in {"none", "watching", "released", "removed", "done"}
    /\ \A c \in Children : doc[c].status \in {"absent", "idle", "running", "ended"}
    /\ permits \in 0..MaxParallel
    /\ permits = Cardinality({q \in Runs : run[q].monitor = "watching"}) + (IF adm = Free THEN 0 ELSE 1)

\* A run reported as completed left no child unfinished: everything it started,
\* by an admission that was on its way when it began to finish too, had its
\* outcome, and its capacity is free again (Service::finish against activate).
CompletedLeavesNone ==
    \A r \in Runs : (run[r].pc = "reported" /\ run[r].status = "completed") =>
        \A q \in Runs : run[q].owner = r => run[q].pc = "reported" /\ run[q].monitor \notin {"watching", "released"}

\* An activation that has not settled is the one `active` holds for its session:
\* interrupt, finish and shutdown find it, and no second one runs on the session.
OneActivation == \A q \in Runs : run[q].monitor \in {"watching", "released"} => active[run[q].child] = q

\* After shutdown has returned nothing is running for the service, not even
\* what passed the closed check before it was closed.
ShutdownComplete ==
    closing.pc = "done" =>
        /\ adm.pc \notin {"check", "start"}
        /\ \A q \in Runs : run[q].child \in Children => run[q].monitor \notin {"watching", "released"}

\* A wait that sleeps has a wakeup coming, except for a child whose new turn
\* was refused before it started: fail_start tells no one and the wait ends
\* with its timeout.
NoLostWakeup ==
    (waiter.pc = "asleep" /\ ~waiter.woken) =>
        \/ \E q \in Runs : run[q].child = waiter.child /\ run[q].monitor \notin {"none", "done"}
        \/ adm.child = waiter.child \/ doc[waiter.child].refused

\* When a run ends all its descendants are stopped, even if its hook timed out.
ChildrenStop ==
    \A r \in Runs : (run[r].pc = "reported") ~>
        \A q \in Runs : run[q].owner = r => run[q].monitor = "done"

\* Children are supervised: a completed parent and a shut down service leave none
\* behind, a child has one activation, and every permit is held by somebody.
Supervised == TypeOK /\ CompletedLeavesNone /\ OneActivation /\ ShutdownComplete
=============================================================================
