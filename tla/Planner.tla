------------------------------ MODULE Planner ------------------------------
(***************************************************************************)
(* The plan of a session (packages/planner/src/state.rs, plugin.rs,        *)
(* history.rs and apps/server/src/planning.rs): the copy a live run works  *)
(* on, the results that report it, and the copy in the session file, which *)
(* the same write replaces that acknowledges a result.                     *)
(*                                                                         *)
(* One session, one run at a time.  A plan tool's body has no await, so it *)
(* is one step; what reports it and what stores it are later ones.  The    *)
(* session's turns and late commits are the subject of SessionStore: here  *)
(* a commit that returns an error is stored or it is not.                  *)
(***************************************************************************)
EXTENDS Integers, Sequences, FiniteSets, SequencesExt

CONSTANTS
    Goals,         \* what a plan may be for
    StepLists,     \* lists of steps the model may send
    Reasons,       \* explanations it may give
    Proposals,     \* proposals it may submit
    Slots,         \* calls of one reply are 1..Slots
    MaxRevision,   \* bound: changes of the plan
    MaxRuns        \* bound: runs of the session

Statuses == {"pending", "in_progress", "completed"}
ASSUME ListAssumption ==
    \A s \in StepLists : \A i \in DOMAIN s : s[i].status \in Statuses
ASSUME BoundAssumption == Slots \in Nat /\ MaxRevision \in Nat /\ MaxRuns \in Nat

VARIABLES
    saved,      \* the plan in the session file, NoPlan before the first one
    enabled,    \* the planner is installed in this process
    run,        \* "none", "live", "ending" (no further call), "failed" (a commit did)
    runs,       \* runs so far
    seed,       \* the plan bound to the run's metadata, NoPlan without planner
    live,       \* Inner.runs of this run, NoPlan before initialize
    calls,      \* the calls of the reply that is being executed
    confirmed,  \* plans in the run's Success results, in memory
    stored      \* plans ever written to the file, as state or in a result

vars == <<saved, enabled, run, runs, seed, live, calls, confirmed, stored>>

NoPlan == [revision |-> -1]
Blank(mode) == [revision |-> 0, mode |-> mode, goal |-> "none", steps |-> <<>>,
                reason |-> "none", proposal |-> "none"]
NoCall == [tool |-> "none", pc |-> "done"]

Init ==
    /\ saved = NoPlan /\ enabled \in BOOLEAN
    /\ run = "none" /\ runs = 0 /\ seed = NoPlan /\ live = NoPlan
    /\ calls = [i \in 1..Slots |-> NoCall]
    /\ confirmed = {} /\ stored = {}

-----------------------------------------------------------------------------
(* PlanSnapshot                                                            *)

IsComplete(steps) == steps # <<>> /\ \A i \in DOMAIN steps : steps[i].status = "completed"
AwaitsHost(p) == p.mode = "plan_only" /\ p.proposal # "none"
Validate(p) ==
    /\ (p.goal = "none") = (p.steps = <<>>)
    /\ \A i, j \in DOMAIN p.steps : i # j =>
        /\ p.steps[i].id # p.steps[j].id /\ p.steps[i].text # p.steps[j].text
        /\ {p.steps[i].status, p.steps[j].status} # {"in_progress"}
    /\ p.proposal # "none" => p.steps # <<>> /\ ~(p.mode = "plan_only" /\ IsComplete(p.steps))
\* What a change leads to: nothing if it does not validate.
Advance(p) ==
    LET next == [p EXCEPT !.revision = @ + 1]
    IN IF Validate(next) /\ next.revision <= MaxRevision THEN {next} ELSE {}

Completed(steps) == SelectSeq(steps, LAMBDA s : s.status = "completed")
Titles(steps) == [i \in DOMAIN steps |-> <<steps[i].id, steps[i].text>>]
\* The records a list keeps of the steps that were completed.
KeptOf(old, steps) == SelectSeq(steps, LAMBDA s : \E o \in Range(Completed(old)) : o.id = s.id)
\* The change is more than progress and needs an explanation.
NeedsReason(p, u) ==
    IF p.steps = <<>> \/ u.new THEN p.steps # <<>>
    ELSE \/ Titles(p.steps) # Titles(u.steps)
         \/ \E o \in Range(p.steps), s \in Range(u.steps) :
                o.id = s.id /\ o.status = "in_progress" /\ s.status = "pending"
\* In plan_only a step keeps the status it has, and a new one is pending.
ClaimsNothing(p, u) ==
    \A s \in Range(u.steps) :
        LET old == {o \in Range(p.steps) : o.id = s.id /\ ~u.new}
        IN s.status = IF old = {} THEN "pending" ELSE (CHOOSE o \in old : TRUE).status
\* PlanSnapshot::update with the current revision: the set of its results, empty
\* if it is refused.  The same list again changes nothing, not even the revision.
Update(p, u) ==
    LET fresh == p.steps = <<>> \/ u.new
        next == [p EXCEPT !.goal = u.goal, !.steps = u.steps,
                          !.proposal = IF fresh THEN "none" ELSE @,
                          !.reason = IF u.reason # "none" \/ fresh THEN u.reason ELSE @]
    IN IF /\ ~AwaitsHost(p) /\ u.steps # <<>>
          /\ u.new /\ p.steps # <<>> => IsComplete(p.steps)
          /\ ~fresh => u.goal = p.goal /\ KeptOf(p.steps, u.steps) = Completed(p.steps)
          /\ NeedsReason(p, u) => u.reason # "none"
          /\ p.mode = "plan_only" => ClaimsNothing(p, u)
          /\ Validate(next)
       THEN IF next = p THEN {p} ELSE Advance(next)
       ELSE {}
Updates == [goal : Goals, steps : StepLists, new : BOOLEAN, reason : Reasons \cup {"none"}]
Submit(p, text) ==
    IF p.mode = "plan_only" /\ p.proposal = "none" THEN Advance([p EXCEPT !.proposal = text]) ELSE {}

-----------------------------------------------------------------------------
(* The host: planning.rs                                                   *)

\* state(doc): a session without a saved plan has no confirmed result either.
State == IF saved = NoPlan THEN Blank("normal") ELSE saved

EnterPlanMode(p) == Advance([p EXCEPT !.mode = "plan_only", !.proposal = "none"])
ResumeExecution(p) == IF AwaitsHost(p) THEN Advance([p EXCEPT !.mode = "normal"]) ELSE {}
Reset(p) == Advance([Blank(p.mode) EXCEPT !.revision = p.revision])
\* Action::Normal leaves the mode without a submission; already normal, it changes nothing.
Normal(p) ==
    IF AwaitsHost(p) THEN {}
    ELSE IF p.mode = "normal" THEN {p} ELSE Advance([p EXCEPT !.mode = "normal"])

\* change, on the revision the client has read, under Store::update_state: no run is active.
Change ==
    /\ enabled /\ run = "none"
    /\ \E next \in EnterPlanMode(State) \cup ResumeExecution(State) \cup Reset(State) \cup Normal(State) :
        saved' = next /\ stored' = stored \cup {next}
    /\ UNCHANGED <<enabled, run, runs, seed, live, calls, confirmed>>

\* context: the plan is bound to the new run when its turn is admitted.  Without the
\* planner a session in plan_only starts none.
Start ==
    /\ run = "none" /\ runs < MaxRuns
    /\ enabled \/ State.mode = "normal"
    /\ run' = "live" /\ runs' = runs + 1
    /\ seed' = IF enabled THEN State ELSE NoPlan
    /\ live' = NoPlan /\ confirmed' = {}
    /\ UNCHANGED <<saved, enabled, calls, stored>>

-----------------------------------------------------------------------------
(* The run's tools                                                         *)

PlanTools == {"plan_read", "plan_update", "plan_submit"}
\* A planning tool is read-only and on the host's list; the other has side effects.
Tools == PlanTools \cup {"search", "write"}
Allowed(p, t) ==
    IF AwaitsHost(p) THEN t = "plan_read"
    ELSE IF p.mode = "normal" THEN t # "plan_submit"
    ELSE t \in PlanTools \cup {"search"}
\* Without the planner its tools are not there and nothing is filtered.
Offered(t) == IF seed = NoPlan THEN t \notin PlanTools ELSE Allowed(live', t)
\* Mutant: the plan tools may share a group with others.
ExclusiveNone(t) == FALSE
\* ToolConcurrency::Exclusive.
Exclusive(t) == t \in PlanTools

\* A model round: initialize, select, and a reply with calls of what was offered.
Reply ==
    /\ run = "live" /\ \A i \in 1..Slots : calls[i].pc = "done"
    /\ live' = IF live = NoPlan THEN seed ELSE live
    /\ calls' \in [1..Slots -> [tool : {t \in Tools : Offered(t)}, pc : {"queued"}]]
    /\ UNCHANGED <<saved, enabled, run, runs, seed, confirmed, stored>>

At(i, where) == calls' = [calls EXCEPT ![i].pc = where]
\* The policy decides when the call's group runs (ToolBatch); a denied call ends.
Policy(i) ==
    /\ run = "live" /\ calls[i].pc = "queued"
    /\ \A j \in 1..(i - 1) : Exclusive(calls[i].tool) \/ Exclusive(calls[j].tool) => calls[j].pc = "done"
    /\ At(i, IF seed = NoPlan \/ Allowed(live, calls[i].tool) THEN "decided" ELSE "done")
    /\ UNCHANGED <<saved, enabled, run, runs, seed, live, confirmed, stored>>
\* Any other tool: its body takes its time.
Enter(i) ==
    /\ run = "live" /\ calls[i].pc = "decided" /\ calls[i].tool \notin PlanTools
    /\ At(i, "body")
    /\ UNCHANGED <<saved, enabled, run, runs, seed, live, confirmed, stored>>
Leave(i) ==
    /\ calls[i].pc = "body" /\ At(i, "settled")
    /\ UNCHANGED <<saved, enabled, run, runs, seed, live, confirmed, stored>>
\* What plan_read, plan_update and plan_submit may make of the live plan.
Outcomes(t) ==
    CASE t = "plan_read"   -> {live}
      [] t = "plan_update" -> UNION {Update(live, u) : u \in Updates}
      [] t = "plan_submit" -> UNION {Submit(live, text) : text \in Proposals}
\* PlanTool::execute: the live plan changes at once; the result says so, or the
\* cancellation or the tool's deadline came first and it is unknown, which ends the run.
Execute(i) ==
    /\ run = "live" /\ calls[i].pc = "decided" /\ calls[i].tool \in PlanTools
    /\ \E next \in Outcomes(calls[i].tool) :
        /\ live' = next
        /\ \/ confirmed' = confirmed \cup {next} /\ run' = run
           \/ confirmed' = confirmed /\ run' = "ending"
    /\ At(i, "settled")
    /\ UNCHANGED <<saved, enabled, runs, seed, stored>>
\* The arguments or the revision are refused, or it was cancelled before it began.
ExecuteFails(i) ==
    /\ run = "live" /\ calls[i].pc = "decided" /\ calls[i].tool \in PlanTools
    /\ At(i, "settled")
    /\ UNCHANGED <<saved, enabled, run, runs, seed, live, confirmed, stored>>

-----------------------------------------------------------------------------
(* Checkpoints: PlanningSink::commit                                       *)

\* recover_checkpoint over the seed and the run's own results.
Conflicts ==
    \/ \E p, q \in confirmed : p.revision = q.revision /\ p # q
    \/ \E p \in confirmed : p.revision < seed.revision \/ (p.revision = seed.revision /\ p # seed)
Recovered == CHOOSE p \in confirmed \cup {seed} : \A q \in confirmed : q.revision <= p.revision
\* checkpoint_state: a run without a seed leaves the saved plan alone.
Written == IF seed = NoPlan THEN saved ELSE Recovered
\* A commit of the run, at any of its checkpoints; the result of a call is known to
\* the model when the one after its settlement succeeded.
Commit(ok) ==
    /\ run \in {"live", "ending"} /\ (ok => ~Conflicts)
    /\ \/ ~Conflicts /\ saved' = Written /\ stored' = stored \cup confirmed \cup ({Written} \ {NoPlan})
       \/ ~ok /\ UNCHANGED <<saved, stored>>
    /\ run' = IF ok THEN run ELSE "failed"
    /\ calls' = [i \in 1..Slots |-> IF ok /\ calls[i].pc = "settled" THEN [calls[i] EXCEPT !.pc = "done"] ELSE calls[i]]
    /\ UNCHANGED <<enabled, runs, seed, live, confirmed>>

Over == /\ run' = "none" /\ live' = NoPlan /\ confirmed' = {} /\ seed' = NoPlan
        /\ calls' = [i \in 1..Slots |-> NoCall]
\* The run ends, its bodies collected, and the planner's finish hook forgets it.
End ==
    /\ run # "none" /\ \A i \in 1..Slots : calls[i].pc # "body"
    /\ Over /\ UNCHANGED <<saved, enabled, runs, stored>>
\* The process dies, or is restarted with other settings while idle.
Restart ==
    /\ Over /\ enabled' \in BOOLEAN
    /\ UNCHANGED <<saved, runs, stored>>

Next ==
    \/ Change \/ Start \/ Reply \/ End \/ Restart
    \/ \E i \in 1..Slots : Policy(i) \/ Enter(i) \/ Leave(i) \/ Execute(i) \/ ExecuteFails(i)
    \/ \E ok \in BOOLEAN : Commit(ok)
Spec == Init /\ [][Next]_vars

-----------------------------------------------------------------------------
\* The host decides what a run may do.  A tool with side effects is in flight only if
\* the session's saved mode is normal, which only Change can make it; and once a
\* proposal is submitted nothing but plan_read runs, later calls of the same batch and
\* calls the policy approved before it included (Planner::allowed, PLAN_SUBMIT).
HostDecides ==
    \A i \in 1..Slots : calls[i].pc = "body" =>
        /\ calls[i].tool = "write" => State.mode = "normal"
        /\ live # NoPlan => ~AwaitsHost(live)

\* A revision names one plan, in the file and in every stored result, over runs,
\* host changes, unknown results, lost commits and restarts; the saved plan is the
\* newest of them; and so recovering it from a checkpoint never finds a conflict,
\* which would fail the commit and the run (recover_checkpoint, checkpoint_state).
RevisionNamesPlan ==
    /\ \A p, q \in stored : p.revision = q.revision => p = q
    /\ \A p \in stored : p.revision <= saved.revision
    /\ seed # NoPlan => ~Conflicts

\* The plan is the host's to approve, and a revision names one plan.
PlanHonest == HostDecides /\ RevisionNamesPlan
=============================================================================
