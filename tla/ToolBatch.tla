------------------------------ MODULE ToolBatch ------------------------------
(***************************************************************************)
(* One batch of tool calls of one run: `execute_batch` and `run_one` of    *)
(* packages/runtime/src/tools.rs, the commit protocol `Checkpoints::write` *)
(* of checkpoint.rs and the `ToolBudget` of history.rs.                    *)
(*                                                                         *)
(* The scheduler and all the `run_one` futures live in one task: a future  *)
(* advances only while the scheduler awaits `running.next()` (phase        *)
(* "poll"), and each step below is the code between two awaits.  The run's *)
(* cancellation token, the task's deadline and token fuse, and the storage *)
(* behind the checkpoint sink belong to other threads and move at any time.*)
(***************************************************************************)
EXTENDS Integers, FiniteSets

CONSTANTS
    N,            \* number of calls in the model's reply
    KindChoices,  \* the assignments of a kind to each call that are explored
    MaxParallel,  \* limits.max_parallel_tools
    SlotBytes,    \* size of a call's fallback record (ToolBudget::new)
    MaxBytes,     \* size reserved for the largest admissible result
    Limits        \* history bytes that may be left for the results of the batch

Calls == 1..N
Kind == {"exclusive", "parallel", "unoffered", "invalid", "gated"}
Status == {"Success", "Error", "Denied", "Skipped", "Unknown"}
NoCall == 0

ASSUME NAssumption == N \in Nat \ {0}
ASSUME KindAssumption == KindChoices \subseteq [Calls -> Kind]
ASSUME ParallelAssumption == MaxParallel \in Nat \ {0}
\* RunLimits::validate keeps max_tool_result_bytes >= 128, so a reservation is
\* never smaller than the fallback record; admit_reply refuses a reply whose N
\* fallback records do not fit.
ASSUME BudgetAssumption ==
    /\ SlotBytes \in Nat \ {0} /\ MaxBytes \in Nat /\ Limits \subseteq Nat
    /\ SlotBytes <= MaxBytes
    /\ \A l \in Limits : N * SlotBytes <= l

VARIABLES
    configured,   \* a checkpoint sink is registered
    kind,         \* what preflight will find out about each call
    phase,        \* where execute_batch is
    next,         \* preflight: the call under examination
    todo,         \* prepared calls whose group has not begun
    queue,        \* calls of the current group that are not dispatched
    running,      \* FuturesUnordered: dispatched and not yet collected
    fatal,        \* the batch has a fatal error
    groupCancel,  \* the current group's child token is cancelled
    pc,           \* where run_one of each call is
    result,       \* status of the ToolResult of each call, "none" before
    failed,       \* run_one of the call returns an error next to its result
    started,      \* calls whose body was entered (bus.start_tool)
    settled,      \* calls whose result the scheduler holds
    limit, slot, used,   \* ToolBudget
    holder,       \* the call that holds the checkpoint lock across a commit
    ckptError,    \* CheckpointStatus.error, sticky
    revision,     \* RunCheckpoint.revision of the snapshot in memory
    acked,        \* last_acknowledged_revision
    current,      \* pending_tools of the snapshot in memory
    limbo,        \* a snapshot was handed to the sink and is not stored yet
    durable,      \* pending_tools of the snapshot the sink has stored
    durableRev,   \* its revision
    cancelled,    \* the run's cancellation token
    stopped       \* task.check() fails: deadline or token fuse

batchVars == <<phase, next, todo, queue, running, fatal, groupCancel, settled>>
callVars == <<pc, result, failed, started>>
budgetVars == <<limit, slot, used>>
stateVars == <<ckptError, revision, acked, current>>
sinkVars == <<limbo, durable, durableRev>>
ckptVars == <<holder, stateVars, sinkVars>>
envVars == <<cancelled, stopped>>
vars == <<configured, kind, batchVars, callVars, budgetVars, ckptVars, envVars>>

(***************************************************************************)
(* The batch begins when the reply has been admitted with a record's room  *)
(* per call and the AfterModel snapshot has been acknowledged.             *)
(***************************************************************************)
Init ==
    /\ configured \in BOOLEAN
    /\ kind \in KindChoices
    /\ phase = "preflight" /\ next = 1
    /\ todo = {} /\ queue = {} /\ running = {} /\ settled = {}
    /\ fatal = FALSE /\ groupCancel = FALSE
    /\ pc = [i \in Calls |-> "idle"]
    /\ result = [i \in Calls |-> "none"]
    /\ failed = [i \in Calls |-> FALSE]
    /\ started = {}
    /\ limit \in Limits
    /\ slot = [i \in Calls |-> SlotBytes] /\ used = N * SlotBytes
    /\ holder = NoCall /\ ckptError = FALSE
    /\ revision = 1 /\ acked = 1
    /\ current = [i \in Calls |-> "pending"]
    /\ limbo = FALSE
    /\ durable = [i \in Calls |-> "pending"] /\ durableRev = 1
    /\ cancelled = FALSE /\ stopped = FALSE

-----------------------------------------------------------------------------
(* The world outside the task.                                             *)

\* RunSession::cancel, the task's token, Engine::cancel_all.
Cancel ==
    /\ ~cancelled
    /\ cancelled' = TRUE
    /\ UNCHANGED <<configured, kind, batchVars, callVars, budgetVars, ckptVars, stopped>>

\* The deadline passes or the reported tokens reach their fuse (TaskControl::check).
Expire ==
    /\ ~stopped
    /\ stopped' = TRUE
    /\ UNCHANGED <<configured, kind, batchVars, callVars, budgetVars, ckptVars, cancelled>>

\* The storage behind the sink stores the snapshot it was handed: before it
\* acknowledges, or after the runtime has given up waiting for it.
Land ==
    /\ limbo
    /\ limbo' = FALSE
    /\ durable' = current
    /\ durableRev' = revision
    /\ UNCHANGED <<configured, kind, batchVars, callVars, budgetVars, holder, stateVars, envVars>>

-----------------------------------------------------------------------------
(* Preflight: static checks of every call, in order, before any dispatch.  *)

RejectStatus(k) == IF k = "invalid" THEN "Error" ELSE "Denied"

\* ToolBudget::replace.
Fits(i, bytes) == used - slot[i] + bytes <= limit
Replace(i, bytes) ==
    /\ slot' = [slot EXCEPT ![i] = bytes]
    /\ used' = used - slot[i] + bytes
    /\ UNCHANGED limit

\* Nothing has started: every call is closed with a fallback record.
SkipAll ==
    /\ result' = [i \in Calls |-> "Skipped"]
    /\ settled' = Calls
    /\ todo' = {}
    /\ fatal' = TRUE
    /\ phase' = "done"
    /\ UNCHANGED <<configured, kind, next, queue, running, groupCancel,
                   pc, failed, started, budgetVars, ckptVars, envVars>>

\* task.check() and checkpoints.check(); the run token is looked at only once
\* the call is known to have been offered.
PreflightFails == stopped \/ ckptError \/ (cancelled /\ kind[next] # "unoffered")

PreflightStop ==
    /\ phase = "preflight" /\ next <= N
    /\ PreflightFails
    /\ SkipAll

Rejected == kind[next] \in {"unoffered", "invalid", "gated"}

PreflightReject ==
    /\ phase = "preflight" /\ next <= N
    /\ ~PreflightFails /\ Rejected
    /\ \E bytes \in {SlotBytes, MaxBytes} : Fits(next, bytes) /\ Replace(next, bytes)
    /\ result' = [result EXCEPT ![next] = RejectStatus(kind[next])]
    /\ settled' = settled \union {next}
    /\ next' = next + 1
    /\ UNCHANGED <<configured, kind, phase, todo, queue, running, fatal, groupCancel,
                   pc, failed, started, ckptVars, envVars>>

\* The rejection's own text does not fit the history.
PreflightOverflow ==
    /\ phase = "preflight" /\ next <= N
    /\ ~PreflightFails /\ Rejected
    /\ \E bytes \in {SlotBytes, MaxBytes} : ~Fits(next, bytes)
    /\ SkipAll

PreflightReady ==
    /\ phase = "preflight" /\ next <= N
    /\ ~PreflightFails /\ ~Rejected
    /\ todo' = todo \union {next}
    /\ next' = next + 1
    /\ UNCHANGED <<configured, kind, phase, queue, running, fatal, groupCancel, settled,
                   callVars, budgetVars, ckptVars, envVars>>

PreflightDone ==
    /\ phase = "preflight" /\ next > N
    /\ phase' = "schedule"
    /\ UNCHANGED <<configured, kind, next, todo, queue, running, fatal, groupCancel, settled,
                   callVars, budgetVars, ckptVars, envVars>>

-----------------------------------------------------------------------------
(* The scheduler: an exclusive call is a group of its own, the parallel    *)
(* calls between two exclusive ones form a group.                          *)

Group(i) ==
    IF kind[i] = "exclusive" THEN {i}
    ELSE {j \in todo : j >= i /\ \A k \in todo : i <= k /\ k <= j => kind[k] = "parallel"}

First(S, i) == i \in S /\ \A j \in S : i <= j

BeginGroup ==
    /\ phase = "schedule" /\ ~fatal
    /\ \E i \in todo :
         /\ First(todo, i)
         /\ queue' = Group(i)
         /\ todo' = todo \ Group(i)
    /\ groupCancel' = FALSE
    /\ phase' = "fill"
    /\ UNCHANGED <<configured, kind, next, running, fatal, settled,
                   callVars, budgetVars, ckptVars, envVars>>

\* while fatal.is_none() && running.len() < max_parallel: reserve, then push.
CanDispatch == ~fatal /\ Cardinality(running) < MaxParallel /\ queue # {}

Dispatch(i) ==
    /\ phase = "fill" /\ CanDispatch
    /\ First(queue, i)
    /\ Fits(i, MaxBytes)
    /\ Replace(i, MaxBytes)
    /\ queue' = queue \ {i}
    /\ running' = running \union {i}
    /\ pc' = [pc EXCEPT ![i] = "enter"]
    /\ UNCHANGED <<configured, kind, phase, next, todo, fatal, groupCancel, settled,
                   result, failed, started, ckptVars, envVars>>

\* The inner loop ends: nothing may be pushed, or no room can be reserved, which
\* is fatal only when no call in flight could still give room back.
NoRoom == CanDispatch /\ \A i \in queue : First(queue, i) => ~Fits(i, MaxBytes)

\* Mutant: `continue` for `break` when no room is left while calls are in flight.
StopFillingSpins ==
    /\ phase = "fill"
    /\ ~CanDispatch \/ NoRoom
    /\ fatal' = (fatal \/ (NoRoom /\ running = {}))
    /\ phase' = IF NoRoom /\ running # {} THEN "fill" ELSE "poll"
    /\ UNCHANGED <<configured, kind, next, todo, queue, running, groupCancel, settled,
                   callVars, budgetVars, ckptVars, envVars>>
StopFilling ==
    /\ phase = "fill"
    /\ ~CanDispatch \/ NoRoom
    /\ fatal' = (fatal \/ (NoRoom /\ running = {}))
    /\ phase' = "poll"
    /\ UNCHANGED <<configured, kind, next, todo, queue, running, groupCancel, settled,
                   callVars, budgetVars, ckptVars, envVars>>

\* running.next() yields call i: account for its result, note a fatal error.
Collect(i) ==
    /\ phase = "poll" /\ i \in running /\ pc[i] = "ended"
    /\ \E bytes \in IF result[i] = "Skipped" THEN {SlotBytes} ELSE {SlotBytes, MaxBytes} :
         /\ IF Fits(i, bytes) THEN Replace(i, bytes) ELSE UNCHANGED budgetVars
         /\ fatal' = (fatal \/ failed[i] \/ ~Fits(i, bytes))
         /\ groupCancel' = (groupCancel \/ ~Fits(i, bytes) \/ (failed[i] /\ ~fatal))
    /\ settled' = settled \union {i}
    /\ running' = running \ {i}
    /\ phase' = "fill"
    /\ UNCHANGED <<configured, kind, next, todo, queue, callVars, ckptVars, envVars>>

\* running.next() yields None: what was never dispatched is skipped.
EndGroup ==
    /\ phase = "poll" /\ running = {}
    /\ result' = [i \in Calls |-> IF i \in queue THEN "Skipped" ELSE result[i]]
    /\ settled' = settled \union queue
    /\ queue' = {}
    /\ phase' = "schedule"
    /\ UNCHANGED <<configured, kind, next, todo, running, fatal, groupCancel,
                   pc, failed, started, budgetVars, ckptVars, envVars>>

\* No group is left, or the remaining ones are skipped after a fatal error; a call
\* without a result would be closed as skipped.
Finish ==
    /\ phase = "schedule"
    /\ fatal \/ todo = {}
    /\ result' = [i \in Calls |-> IF i \in todo \/ i \notin settled THEN "Skipped" ELSE result[i]]
    /\ settled' = settled \union todo
    /\ todo' = {}
    /\ phase' = "done"
    /\ UNCHANGED <<configured, kind, next, queue, running, fatal, groupCancel,
                   pc, failed, started, budgetVars, ckptVars, envVars>>

-----------------------------------------------------------------------------
(* run_one: one call on its way from dispatch to settlement.               *)

Stop == stopped \/ cancelled \/ groupCancel

Polled(i, where) == phase = "poll" /\ i \in running /\ pc[i] = where
RunOneUnchanged == UNCHANGED <<configured, kind, batchVars, budgetVars, envVars>>

\* run_one returns a result (with an error next to it when err).
Return(i, status, err) ==
    /\ pc' = [pc EXCEPT ![i] = "ended"]
    /\ result' = [result EXCEPT ![i] = status]
    /\ failed' = [failed EXCEPT ![i] = err]

Enter(i) ==
    /\ Polled(i, "enter")
    /\ IF Stop THEN Return(i, "Skipped", TRUE)
               ELSE /\ pc' = [pc EXCEPT ![i] = "intent"]
                    /\ UNCHANGED <<result, failed>>
    /\ UNCHANGED <<started, ckptVars>> /\ RunOneUnchanged

\* Checkpoints::write once the lock is ours: a sticky error or an oversized
\* snapshot refuses (the latter becomes the sticky error), otherwise the lock is
\* held across the sink's commit.
Update(i, entry) ==
    /\ current' = [current EXCEPT ![i] = entry]
    /\ revision' = revision + 1
BeginCommit(i, entry) ==
    /\ holder = NoCall /\ ~ckptError
    /\ Update(i, entry)
    /\ holder' = i
    /\ limbo' = TRUE
    /\ UNCHANGED <<ckptError, acked, durable, durableRev>>
Oversized(i, entry) ==
    /\ holder = NoCall /\ ~ckptError
    /\ Update(i, entry)
    /\ ckptError' = TRUE
    /\ UNCHANGED <<holder, acked, sinkVars>>
Refused ==
    /\ holder = NoCall /\ ckptError
    /\ UNCHANGED ckptVars

\* The sink acknowledges (it has stored the snapshot), or the wait for it ends in
\* an error or a timeout: then nobody knows what is stored.
Acknowledged(i) ==
    /\ holder = i /\ ~limbo
    /\ holder' = NoCall
    /\ acked' = revision
    /\ UNCHANGED <<ckptError, revision, current, sinkVars>>
Unacknowledged(i) ==
    /\ holder = i
    /\ holder' = NoCall
    /\ ckptError' = TRUE
    /\ UNCHANGED <<revision, acked, current, sinkVars>>

\* After the intent is acknowledged the stop conditions are looked at again.
AfterIntent(i) ==
    IF Stop THEN Return(i, "Skipped", TRUE)
    ELSE /\ pc' = [pc EXCEPT ![i] = "policy"]
         /\ UNCHANGED <<result, failed>>

\* Mutant: the intent of a call is not committed before it goes on.
IntentUncommitted(i) ==
    /\ Polled(i, "intent")
    /\ UNCHANGED started /\ RunOneUnchanged
    /\ AfterIntent(i)
    /\ UNCHANGED ckptVars
Intent(i) ==
    /\ Polled(i, "intent")
    /\ UNCHANGED started /\ RunOneUnchanged
    /\ \/ /\ ~configured
          /\ AfterIntent(i)
          /\ UNCHANGED ckptVars
       \/ /\ configured
          /\ Refused \/ Oversized(i, "intent")
          /\ Return(i, "Skipped", TRUE)
       \/ /\ configured
          /\ BeginCommit(i, "intent")
          /\ pc' = [pc EXCEPT ![i] = "intentCommit"]
          /\ UNCHANGED <<result, failed>>

IntentCommitted(i) ==
    /\ Polled(i, "intentCommit")
    /\ UNCHANGED started /\ RunOneUnchanged
    /\ \/ Acknowledged(i) /\ AfterIntent(i)
       \/ Unacknowledged(i) /\ Return(i, "Skipped", TRUE)

\* Nothing has run: the outcome is recorded through a ToolSettled commit.
Withhold(i, status, err) ==
    /\ pc' = [pc EXCEPT ![i] = "settle"]
    /\ result' = [result EXCEPT ![i] = status]
    /\ failed' = [failed EXCEPT ![i] = err]

\* The dynamic policies, then the third look at the stop conditions.  A cancelled
\* token makes a pending policy an error; a policy may also fail by itself.
Policy(i) ==
    /\ Polled(i, "policy")
    /\ \/ /\ ~Stop
          /\ pc' = [pc EXCEPT ![i] = "check"]
          /\ UNCHANGED <<result, failed>>
       \/ ~cancelled /\ ~groupCancel /\ Withhold(i, "Denied", FALSE)
       \/ Withhold(i, "Skipped", TRUE)
    /\ UNCHANGED <<started, ckptVars>> /\ RunOneUnchanged

\* Mutant: the checkpoint status is not looked at again.
StartBodyUnchecked(i) ==
    /\ Polled(i, "check")
    /\ holder = NoCall
    /\ started' = started \union {i}
    /\ pc' = [pc EXCEPT ![i] = "body"]
    /\ UNCHANGED <<result, failed, ckptVars>> /\ RunOneUnchanged

\* checkpoints.check() waits for the lock; without an error the body is entered.
StartBody(i) ==
    /\ Polled(i, "check")
    /\ holder = NoCall
    /\ IF ckptError
       THEN /\ Return(i, "Skipped", TRUE)
            /\ UNCHANGED started
       ELSE /\ started' = started \union {i}
            /\ pc' = [pc EXCEPT ![i] = "body"]
            /\ UNCHANGED <<result, failed>>
    /\ UNCHANGED ckptVars /\ RunOneUnchanged

\* Mutant: an interrupted body is reported as never executed.
BodyStatusSkipped == {"Success", "Error", "Skipped"}

\* The body returns, fails, is interrupted (cancellation, timeout or panic), and
\* the result transforms, validation and size cap may add a fatal error.
BodyStatus == {"Success", "Error", "Unknown"}
EndBody(i) ==
    /\ Polled(i, "body")
    /\ \E status \in BodyStatus, err \in BOOLEAN :
         /\ status \notin {"Success", "Error"} \/ cancelled \/ groupCancel => err
         /\ Withhold(i, status, err)
    /\ UNCHANGED <<started, ckptVars>> /\ RunOneUnchanged

\* checkpoints.settled: a refused or failed commit keeps the result and makes it fatal.
Settle(i) ==
    /\ Polled(i, "settle")
    /\ UNCHANGED <<started, result>> /\ RunOneUnchanged
    /\ \/ /\ ~configured
          /\ pc' = [pc EXCEPT ![i] = "ended"]
          /\ UNCHANGED <<failed, ckptVars>>
       \/ /\ configured
          /\ Refused \/ Oversized(i, result[i])
          /\ pc' = [pc EXCEPT ![i] = "ended"]
          /\ failed' = [failed EXCEPT ![i] = TRUE]
       \/ /\ configured
          /\ BeginCommit(i, result[i])
          /\ pc' = [pc EXCEPT ![i] = "settleCommit"]
          /\ UNCHANGED failed

SettleCommitted(i) ==
    /\ Polled(i, "settleCommit")
    /\ pc' = [pc EXCEPT ![i] = "ended"]
    /\ UNCHANGED <<started, result>> /\ RunOneUnchanged
    /\ \/ Acknowledged(i) /\ UNCHANGED failed
       \/ Unacknowledged(i) /\ failed' = [failed EXCEPT ![i] = TRUE]

-----------------------------------------------------------------------------
Scheduler ==
    \/ PreflightStop \/ PreflightReject \/ PreflightOverflow \/ PreflightReady \/ PreflightDone
    \/ BeginGroup \/ StopFilling \/ EndGroup \/ Finish
    \/ \E i \in Calls : Dispatch(i) \/ Collect(i)

RunOne(i) ==
    \/ Enter(i) \/ Intent(i) \/ IntentCommitted(i) \/ Policy(i)
    \/ StartBody(i) \/ EndBody(i) \/ Settle(i) \/ SettleCommitted(i)

Done == phase = "done" /\ UNCHANGED vars

Next == Scheduler \/ (\E i \in Calls : RunOne(i)) \/ Cancel \/ Expire \/ Land \/ Done

Spec == Init /\ [][Next]_vars

\* Tokio polls a ready task; `bounded` ends every policy, body and commit by its
\* timeout plus the grace.  Cancel, Expire and Land are under no obligation.
FairSpec == Spec /\ WF_vars(Scheduler) /\ \A i \in Calls : WF_vars(RunOne(i))

-----------------------------------------------------------------------------
Outcome == Status \union {"none"}
Entry == {"pending", "intent"} \union Outcome
PcValues == {"idle", "enter", "intent", "intentCommit", "policy", "check",
             "body", "settle", "settleCommit", "ended"}

TypeBatch ==
    /\ configured \in BOOLEAN
    /\ kind \in [Calls -> Kind]
    /\ phase \in {"preflight", "schedule", "fill", "poll", "done"}
    /\ next \in 1..(N + 1)
    /\ todo \subseteq Calls /\ queue \subseteq Calls
    /\ running \subseteq Calls /\ settled \subseteq Calls
    /\ fatal \in BOOLEAN /\ groupCancel \in BOOLEAN
    /\ cancelled \in BOOLEAN /\ stopped \in BOOLEAN
TypeCalls ==
    /\ pc \in [Calls -> PcValues]
    /\ result \in [Calls -> Outcome]
    /\ failed \in [Calls -> BOOLEAN]
    /\ started \subseteq Calls
TypeBudget == limit \in Limits /\ slot \in [Calls -> Nat] /\ used \in Int
TypeLock == holder \in Calls \union {NoCall} /\ ckptError \in BOOLEAN /\ limbo \in BOOLEAN
TypeRevisions == revision \in Nat /\ acked \in Nat /\ durableRev \in Nat
TypeSnapshots == current \in [Calls -> Entry] /\ durable \in [Calls -> Entry]

\* Every variable holds a value of its type.
TypeOK == TypeBatch /\ TypeCalls /\ TypeBudget /\ TypeLock /\ TypeRevisions /\ TypeSnapshots

\* A crash at any moment leaves a snapshot that never hides a dispatch: with a
\* sink, a body that was entered is stored as intended or settled, and a stored
\* settlement tells what really happened.
DurableTruth ==
    configured =>
        \A i \in Calls :
            /\ i \in started => durable[i] # "pending"
            /\ durable[i] \in Status => durable[i] = result[i]

\* "Denied" and "Skipped" mean that the body was never entered, "Success" and
\* "Unknown" that it was (the ToolStatus contract of run_one and execute_batch).
StatusHonest ==
    \A i \in Calls :
        /\ result[i] \in {"Denied", "Skipped"} => i \notin started
        /\ result[i] \in {"Success", "Unknown"} => i \in started
        /\ result[i] = "Error" => (i \in started <=> kind[i] # "invalid")

\* While an exclusive call is in flight nothing else is, and a call is in flight
\* only when every earlier call that is separated from it by an exclusive one (or
\* is one) has been collected: later policies see what an exclusive tool did.
ExclusiveOrder ==
    \A i, j \in Calls :
        i < j /\ j \in running /\ "exclusive" \in {kind[i], kind[j]} => i \in settled

\* No more bodies than max_parallel_tools at a time, none outside the running set.
BoundedParallelism ==
    /\ Cardinality(running) <= MaxParallel
    /\ \A i \in Calls : pc[i] = "body" => i \in running

\* A result in flight always fits the history: ToolBudget::settle cannot fail for a
\* dispatched call, so its result is never lost to the limit.
InFlightFits ==
    /\ used <= limit
    /\ \A i \in running : Fits(i, MaxBytes)

\* When the batch ends every call has exactly one settled result and no future is left.
AllSettled == phase = "done" =>
    /\ settled = Calls /\ running = {} /\ holder = NoCall
    /\ \A i \in Calls : result[i] # "none"

\* The acknowledged revision is stored: last_acknowledged_revision never runs ahead
\* of the storage, and the storage never holds a revision that was not handed to it.
AckedIsStored == configured => acked <= durableRev /\ durableRev <= revision

\* After the first failed acknowledgement no body is entered and no new snapshot is
\* made ("no automatic retry or replay").
StopsAtFirstFailure ==
    [][ckptError => started' = started /\ revision' = revision /\ acked' = acked]_vars

\* The batch implements the contract of its calls: entered at most once, closed
\* exactly once and truthfully.  Preflight results are provisional, since a later
\* preflight failure turns them into "Skipped".
Contract == INSTANCE ToolContract WITH
    entered <- started,
    closed <- [i \in Calls |-> IF phase # "preflight" /\ i \in settled
                              THEN result[i] ELSE "open"]
ContractHolds == Contract!Spec

\* Every batch ends, whatever the tools, the policies and the sink do.
BatchEnds == <>(phase = "done")

\* How a batch may run its calls: exclusive calls alone and in order, no call in
\* flight whose result could not be kept, and nothing new after a first failure.
BatchDiscipline == [](ExclusiveOrder /\ InFlightFits) /\ StopsAtFirstFailure
=============================================================================
