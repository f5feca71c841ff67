---------------------------- MODULE ModelGateway ----------------------------
(***************************************************************************)
(* Model calls of a task and of the runs branched from it: the shared call *)
(* quota, the token circuit breaker, the accounting that rolls up to the   *)
(* root, the audit record of every attempt and the retries                 *)
(* (packages/runtime/src/model.rs, TaskControl in packages/api/src/run.rs).*)
(*                                                                         *)
(* The main loop of a run, its summaries and its tools all call their      *)
(* run's Gateway at the same time; a subagent's run has a gateway of its   *)
(* own on a branch of the same task.  A step is one atomic operation of    *)
(* the code or one lock section.                                           *)
(***************************************************************************)
EXTENDS Integers, Sequences, FiniteSets

CONSTANTS
    Root,          \* the task that has the quota
    Branches,      \* TaskControl::branch of it
    Callers,       \* callers of complete
    TaskOf,        \* caller -> the task of its run
    MaxModelCalls, \* task limits.max_model_calls
    MaxTokens,     \* task limits.max_reported_tokens
    MaxRetries,    \* run limits.model_retry.max_retries
    AuditCap,      \* run limits.max_audit_bytes
    Sizes,         \* what an attempt reserves of it
    MaxUsage,      \* bound: tokens one attempt reports
    MaxRequests    \* bound: requests per caller

Tasks == {Root} \cup Branches
ASSUME TaskAssumption ==
    /\ Root \notin Branches /\ IsFiniteSet(Branches)
    /\ TaskOf \in [Callers -> Tasks] /\ IsFiniteSet(Callers) /\ "none" \notin Callers
ASSUME QuotaAssumption ==
    /\ MaxModelCalls \in Nat \ {0} /\ MaxTokens \in Nat \ {0} /\ MaxRetries \in Nat
    /\ AuditCap \in Nat /\ Sizes \subseteq Nat \ {0}
    /\ MaxUsage \in Nat \ {0} /\ MaxRequests \in Nat \ {0}

VARIABLES
    calls, tokens, incomplete,   \* TaskInner of every task
    cancelled,                   \* its token
    late,                        \* the deadline, shared by the whole tree
    audits,                      \* the records of every run's gateway
    reserved,                    \* their reserved bytes
    locked,                      \* caller that holds the gateway's audits lock, or "none"
    pc, req                      \* every caller: where it is, and its request

counters == <<calls, tokens, incomplete>>
env == <<cancelled, late>>
book == <<audits, reserved>>
vars == <<counters, env, book, locked, pc, req>>

NoRequest == [n |-> 0, size |-> 0, retry |-> 0, index |-> 0,
              output |-> FALSE, usage |-> 0, result |-> "none"]

Init ==
    /\ calls = [t \in Tasks |-> 0] /\ tokens = [t \in Tasks |-> 0]
    /\ incomplete = [t \in Tasks |-> FALSE]
    /\ cancelled = [t \in Tasks |-> FALSE] /\ late = FALSE
    /\ audits = [t \in Tasks |-> <<>>] /\ reserved = [t \in Tasks |-> 0]
    /\ locked = [t \in Tasks |-> "none"]
    /\ pc = [c \in Callers |-> "idle"] /\ req = [c \in Callers |-> NoRequest]

-----------------------------------------------------------------------------
(* TaskControl.                                                            *)

\* A branch's token is a child of the root's.
IsCancelled(t) == cancelled[Root] \/ cancelled[t]
\* TaskControl::check, the parent first.
Check(t) ==
    /\ ~IsCancelled(t) /\ ~late
    /\ tokens[Root] < MaxTokens /\ tokens[t] < MaxTokens
\* TaskControl::check_model_call_available.
CallAvailable(t) == Check(t) /\ calls[Root] < MaxModelCalls
CapacityFor(t, size) == reserved[t] + size <= AuditCap

Cancel(t) ==
    /\ ~cancelled[t] /\ cancelled' = [cancelled EXCEPT ![t] = TRUE]
    /\ UNCHANGED <<counters, late, book, locked, pc, req>>
DeadlinePasses ==
    /\ ~late /\ late' = TRUE
    /\ UNCHANGED <<counters, cancelled, book, locked, pc, req>>

-----------------------------------------------------------------------------
(* Gateway::complete: one request, attempt by attempt.                     *)

Go(c, where) == pc' = [pc EXCEPT ![c] = where]
Return(c) == Go(c, "idle")

Begin(c, size) ==
    /\ pc[c] = "idle" /\ req[c].n < MaxRequests
    /\ Go(c, "loop")
    /\ req' = [req EXCEPT ![c] = [NoRequest EXCEPT !.n = req[c].n + 1, !.size = size]]
    /\ UNCHANGED <<counters, env, book, locked>>

\* Gateway::reserve_audit takes the lock of the audits and keeps it over the
\* reservation of the call; the task is checked before its counter is moved.
ReserveBegin(c) ==
    LET t == TaskOf[c] IN
    /\ pc[c] = "loop" /\ locked[t] = "none"
    /\ IF ~IsCancelled(t) /\ CapacityFor(t, req[c].size) /\ Check(t)
       THEN Go(c, "reserve") /\ locked' = [locked EXCEPT ![t] = c]
       ELSE Return(c) /\ locked' = locked
    /\ UNCHANGED <<counters, env, book, req>>
\* Mutant: the counter was compared before and is only moved here.
ReserveRootUnchecked(c) ==
    /\ pc[c] = "reserve"
    /\ calls' = [calls EXCEPT ![Root] = @ + 1] /\ Go(c, "granted")
    /\ UNCHANGED <<tokens, incomplete, env, book, locked, req>>
\* TaskControl::reserve_model_call on the root: fetch_update below the limit.
ReserveRoot(c) ==
    /\ pc[c] = "reserve"
    /\ IF calls[Root] < MaxModelCalls
       THEN /\ calls' = [calls EXCEPT ![Root] = @ + 1]
            /\ Go(c, "granted") /\ locked' = locked
       ELSE /\ Return(c) /\ locked' = [locked EXCEPT ![TaskOf[c]] = "none"]
            /\ calls' = calls
    /\ UNCHANGED <<tokens, incomplete, env, book, req>>
\* Mutant: the lock is held over the attempt.
ReserveEndHolds(c) ==
    LET t == TaskOf[c] IN
    /\ pc[c] = "granted"
    /\ calls' = IF t = Root THEN calls ELSE [calls EXCEPT ![t] = @ + 1]
    /\ audits' = [audits EXCEPT ![t] = Append(@, [caller |-> c, n |-> req[c].n, settled |-> FALSE,
                      failed |-> FALSE, usage |-> 0, output |-> FALSE])]
    /\ reserved' = [reserved EXCEPT ![t] = @ + req[c].size]
    /\ req' = [req EXCEPT ![c].index = Len(audits[t]) + 1]
    /\ Go(c, "stream")
    /\ UNCHANGED <<tokens, incomplete, env, locked>>
\* The branch's own counter, the record, the end of the lock section.
ReserveEnd(c) ==
    LET t == TaskOf[c] IN
    /\ pc[c] = "granted"
    /\ calls' = IF t = Root THEN calls ELSE [calls EXCEPT ![t] = @ + 1]
    /\ audits' = [audits EXCEPT ![t] = Append(@, [caller |-> c, n |-> req[c].n, settled |-> FALSE,
                      failed |-> FALSE, usage |-> 0, output |-> FALSE])]
    /\ reserved' = [reserved EXCEPT ![t] = @ + req[c].size]
    /\ locked' = [locked EXCEPT ![t] = "none"]
    /\ req' = [req EXCEPT ![c].index = Len(audits[t]) + 1, ![c].output = FALSE,
                          ![c].usage = 0, ![c].result = "none"]
    /\ Go(c, "stream")
    /\ UNCHANGED <<tokens, incomplete, env>>

\* The stream: a first delta the caller's sink has seen, and the usage, if any.
Output(c) ==
    /\ pc[c] = "stream" /\ ~req[c].output
    /\ req' = [req EXCEPT ![c].output = TRUE]
    /\ UNCHANGED <<counters, env, book, locked, pc>>
Usage(c, n) ==
    /\ pc[c] = "stream" /\ req[c].usage = 0
    /\ req' = [req EXCEPT ![c].usage = n]
    /\ UNCHANGED <<counters, env, book, locked, pc>>
\* It ends: a reply, an error that may be retried (transport, rate limit,
\* server) or one that may not (protocol, limit, cancelled, deadline), or the
\* future is dropped, and with it the AuditGuard.
StreamEnd(c, result) ==
    /\ pc[c] = "stream"
    /\ req' = [req EXCEPT ![c].result = result, ![c].usage = IF result = "dropped" THEN 0 ELSE @]
    /\ Go(c, "record")
    /\ UNCHANGED <<counters, env, book, locked>>

\* TaskControl::record_attempt, on the run's task and then on its parent.
Counted(t, n) ==
    /\ tokens' = [tokens EXCEPT ![t] = @ + n]
    /\ incomplete' = IF n = 0 THEN [incomplete EXCEPT ![t] = TRUE] ELSE incomplete
\* Where a caller goes when its usage is on the root's account.
AfterRecord(c) == IF req[c].result \in {"retryable", "fatal"} THEN "mark" ELSE "settle"
RecordOwn(c) ==
    /\ pc[c] = "record"
    /\ Counted(TaskOf[c], req[c].usage)
    /\ Go(c, IF TaskOf[c] = Root THEN AfterRecord(c) ELSE "rollup")
    /\ UNCHANGED <<calls, env, book, locked, req>>
RecordParent(c) ==
    /\ pc[c] = "rollup"
    /\ Counted(Root, req[c].usage)
    /\ Go(c, AfterRecord(c))
    /\ UNCHANGED <<calls, env, book, locked, req>>
\* TaskControl::mark_usage_incomplete, likewise.
MarkOwn(c) ==
    /\ pc[c] = "mark"
    /\ incomplete' = [incomplete EXCEPT ![TaskOf[c]] = TRUE]
    /\ Go(c, IF TaskOf[c] = Root THEN "settle" ELSE "markup")
    /\ UNCHANGED <<calls, tokens, env, book, locked, req>>
MarkParent(c) ==
    /\ pc[c] = "markup"
    /\ incomplete' = [incomplete EXCEPT ![Root] = TRUE]
    /\ Go(c, "settle")
    /\ UNCHANGED <<calls, tokens, env, book, locked, req>>

\* A reply after the task has ended is an error; only what produced no output
\* is tried again, and only if one more attempt can fit.
Success(c) == req[c].result = "reply" /\ Check(TaskOf[c])
\* Mutant: output does not matter.
MayRetryOutput(c) == req[c].result = "retryable" /\ req[c].retry < MaxRetries
MayRetry(c) ==
    /\ req[c].result = "retryable" /\ ~req[c].output
    /\ req[c].retry < MaxRetries
RetryFits(c) == CallAvailable(TaskOf[c]) /\ CapacityFor(TaskOf[c], req[c].size)
Settle(c) ==
    LET t == TaskOf[c] IN
    /\ pc[c] = "settle" /\ locked[t] = "none"
    /\ audits' = [audits EXCEPT ![t][req[c].index] =
                     [@ EXCEPT !.settled = TRUE, !.failed = ~Success(c),
                               !.usage = req[c].usage, !.output = req[c].output]]
    /\ IF MayRetry(c) /\ RetryFits(c) THEN Go(c, "wait") ELSE Return(c)
    /\ UNCHANGED <<counters, env, reserved, locked, req>>
\* Gateway::wait_retry: the delay passes, or the cancellation or the deadline comes first.
Retry(c) ==
    /\ pc[c] = "wait" /\ locked[TaskOf[c]] = "none"
    /\ IF RetryFits(c)
       THEN Go(c, "loop") /\ req' = [req EXCEPT ![c].retry = @ + 1]
       ELSE Return(c) /\ req' = req
    /\ UNCHANGED <<counters, env, book, locked>>
\* The caller gives up during the wait, or the provider asked for a longer one
\* than max_delay and there is none.
DropWaiting(c) ==
    /\ pc[c] = "wait" /\ Return(c)
    /\ UNCHANGED <<counters, env, book, locked, req>>

-----------------------------------------------------------------------------
Complete(c) ==
    \/ ReserveBegin(c) \/ ReserveRoot(c) \/ ReserveEnd(c)
    \/ \E result \in {"reply", "retryable", "fatal", "dropped"} : StreamEnd(c, result)
    \/ RecordOwn(c) \/ RecordParent(c) \/ MarkOwn(c) \/ MarkParent(c)
    \/ Settle(c) \/ Retry(c)
Stream(c) == Output(c) \/ \E n \in 1..MaxUsage : Usage(c, n)

Next ==
    \/ \E c \in Callers : Complete(c) \/ Stream(c) \/ DropWaiting(c) \/ \E size \in Sizes : Begin(c, size)
    \/ \E t \in Tasks : Cancel(t)
    \/ DeadlinePasses
Spec == Init /\ [][Next]_vars
\* Every await of complete is bounded by the attempt's deadline, and the locks
\* are held for a few instructions.
LiveSpec == Spec /\ \A c \in Callers : WF_vars(Complete(c))

-----------------------------------------------------------------------------
\* Types and bounds; the lock of a gateway is held by a caller of that gateway.
TypeOK ==
    /\ calls \in [Tasks -> Nat] /\ tokens \in [Tasks -> Nat]
    /\ incomplete \in [Tasks -> BOOLEAN] /\ cancelled \in [Tasks -> BOOLEAN]
    /\ late \in BOOLEAN /\ reserved \in [Tasks -> 0..AuditCap]
    /\ pc \in [Callers -> {"idle", "loop", "reserve", "granted", "stream", "record", "rollup",
                           "mark", "markup", "settle", "wait"}]
    /\ \A t \in Tasks, c \in Callers :
        locked[t] = c <=> (TaskOf[c] = t /\ pc[c] \in {"reserve", "granted"})
    /\ \A c \in Callers :
        /\ req[c].n \in 0..MaxRequests /\ req[c].retry \in Nat
        /\ req[c].usage \in 0..MaxUsage /\ req[c].output \in BOOLEAN
        /\ pc[c] \in {"stream", "record", "rollup", "mark", "markup", "settle"} =>
               req[c].index \in DOMAIN audits[TaskOf[c]]

Granted == {c \in Callers : pc[c] = "granted"}
Open == {c \in Callers : pc[c] \in {"stream", "record", "rollup", "mark", "markup", "settle"}}
\* The attempts on record of the runs of some tasks, and the tokens they report.
Attempts(T) == UNION {{t} \X DOMAIN audits[t] : t \in T}
Reported(T) == UNION {{a} \X (1..audits[a[1]][a[2]].usage) : a \in Attempts(T)}

\* The root's counter is the number of attempts made anywhere in the tree,
\* within the quota, and a branch's is the number of its own, so no attempt is
\* made outside the quota and none is lost from the audit (reserve_audit).  An
\* attempt that is not in progress is settled, the ones whose future was dropped
\* included (AuditGuard::drop).
EveryCallCounted ==
    /\ calls[Root] <= MaxModelCalls
    /\ calls[Root] = Cardinality(Attempts(Tasks)) + Cardinality(Granted)
    /\ \A t \in Branches : calls[t] = Len(audits[t])
    /\ \A t \in Tasks : \A i \in DOMAIN audits[t] : ~audits[t][i].settled =>
        \E c \in Open : TaskOf[c] = t /\ req[c].index = i

\* With no call in progress the tokens of the root are all the tokens the audits
\* report, and those of a branch are its own (record_attempt); and the root claims
\* its usage to be complete only if no attempt in the whole tree failed or reported
\* nothing.
UsageHonest ==
    Open = {} =>
        /\ tokens[Root] = Cardinality(Reported(Tasks))
        /\ \A t \in Branches : tokens[t] = Cardinality(Reported({t}))
        /\ ~incomplete[Root] => \A t \in Tasks : \A i \in DOMAIN audits[t] :
            /\ audits[t][i].usage > 0
            /\ audits[t][i].failed => late \/ \E u \in Tasks : cancelled[u] \/ tokens[u] >= MaxTokens

\* What a caller's sink has seen is not produced a second time: after an
\* attempt with output the request makes no other, and it makes at most
\* max_retries more than one (complete).
NoSecondOutput ==
    /\ \A t \in Tasks : \A i, j \in DOMAIN audits[t] :
        (i < j /\ audits[t][i].caller = audits[t][j].caller /\ audits[t][i].n = audits[t][j].n) =>
            ~audits[t][i].output /\ audits[t][i].failed
    /\ \A c \in Callers, n \in 1..MaxRequests :
        Cardinality({i \in DOMAIN audits[TaskOf[c]] :
            audits[TaskOf[c]][i].caller = c /\ audits[TaskOf[c]][i].n = n}) <= MaxRetries + 1

\* The circuit breaker is checked before the usage of calls in flight is known:
\* it is overshot by at most one attempt per concurrent caller (check).
OvershootBounded == tokens[Root] < MaxTokens + Cardinality(Callers) * MaxUsage

\* Every request is answered, whatever the other callers do.
RequestReturns == \A c \in Callers : pc[c] # "idle" ~> pc[c] = "idle"

\* The books are right: every model call that was made was reserved first, within the
\* quota, usage nobody reported is marked as incomplete where it was spent, and the token
\* budget is overshot by calls in flight only.
Accounted == EveryCallCounted /\ UsageHonest /\ OvershootBounded
=============================================================================
