--------------------------- MODULE ToolBatchProofs ---------------------------
(***************************************************************************)
(* Proofs about ToolBatch, for any number of calls, any kinds, any limits. *)
(* The inductive invariant adds to the safety properties how far a call's  *)
(* `run_one` has come (pc) and what the checkpoint in memory, the storage  *)
(* and the scheduler's sets say about the call at that point.              *)
(***************************************************************************)
EXTENDS ToolBatch, FiniteSetTheorems, TLAPS

BeforeBody == {"enter", "intent", "intentCommit", "policy", "check"}
Committing == {"intentCommit", "settleCommit"}
PastIntent == {"policy", "check", "body", "settle", "settleCommit"}
Dispatchable == {"exclusive", "parallel"}

\* Where a call is in the scheduler's bookkeeping.
Bookkeeping ==
    /\ phase \in {"preflight", "schedule", "done"} => running = {} /\ queue = {}
    /\ phase = "done" => todo = {}
    /\ \A i \in Calls :
         /\ i \in todo \union queue =>
              pc[i] = "idle" /\ result[i] = "none" /\ kind[i] \in Dispatchable
         /\ i \in todo => i \notin queue
         /\ i \in running => pc[i] # "idle" /\ i \notin settled
         /\ pc[i] \notin {"idle", "ended"} => i \in running
         /\ pc[i] # "idle" => kind[i] \in Dispatchable
         /\ pc[i] = "ended" => i \in running \union settled
         /\ phase = "preflight" => pc[i] = "idle"
         /\ phase = "preflight" /\ i >= next => result[i] = "none" /\ i \notin todo
         /\ (phase = "preflight" => i < next) =>
              i \in todo \union queue \union running \union settled
         /\ i \in settled => result[i] # "none" /\ i \notin todo \union queue

\* What is known of a call at each point of run_one.
Progress ==
    \A i \in Calls :
        /\ pc[i] = "idle" =>
             /\ i \notin started
             /\ result[i] \in {"none", "Denied", "Skipped", "Error"}
             /\ result[i] = "Error" => kind[i] = "invalid"
             /\ current[i] = "pending" /\ durable[i] = "pending"
        /\ pc[i] \in BeforeBody => i \notin started /\ result[i] = "none"
        /\ pc[i] = "body" => i \in started /\ result[i] = "none"
        /\ pc[i] \in {"settle", "settleCommit", "ended"} =>
             IF i \in started THEN result[i] \in {"Success", "Error", "Unknown"}
                              ELSE result[i] \in {"Denied", "Skipped"}

\* The checkpoint lock is held exactly by the call that waits for its commit.
Lock ==
    /\ holder # NoCall => configured /\ ~ckptError /\ pc[holder] \in Committing
    /\ \A i \in Calls : pc[i] \in Committing => holder = i

\* What was handed over is stored before it counts as acknowledged.
Revisions ==
    /\ holder # NoCall /\ ~limbo => durableRev = revision
    /\ acked <= durableRev /\ durableRev <= revision

\* What memory and storage say of a call.
Snapshots ==
    /\ holder # NoCall /\ ~limbo => durable = current
    /\ \A i \in Calls :
         /\ configured /\ (pc[i] \in PastIntent \/ i \in started) =>
              current[i] # "pending" /\ durable[i] # "pending"
         /\ pc[i] = "intentCommit" => current[i] = "intent"
         /\ current[i] \in Status => current[i] = result[i] /\ pc[i] \in {"settleCommit", "ended"}
         /\ durable[i] \in Status => durable[i] = result[i] /\ pc[i] \in {"settleCommit", "ended"}

\* Every dispatched call keeps the room for its largest result.
Room ==
    /\ used <= limit
    /\ \A i \in running : slot[i] = MaxBytes

\* The order kept by the groups, for the calls of the current group.
GroupOrder ==
    \A i, j \in Calls :
        i < j /\ j \in queue \union running /\ (kind[i] = "exclusive" \/ kind[j] = "exclusive")
            => i \in settled

IInv == TypeOK /\ Bookkeeping /\ Progress /\ Lock /\ Revisions /\ Snapshots /\ Room /\ GroupOrder

-----------------------------------------------------------------------------
\* The free lock is not a call.
LEMMA FreeIsNoCall == NoCall \notin Calls
  BY DEF NoCall, Calls

(* Type correctness.                                                       *)

\* The initial state of a batch is well typed.
LEMMA TypeInit == Init => TypeOK
<1> SUFFICES ASSUME Init PROVE TypeOK
  OBVIOUS
<1>1. N * SlotBytes \in Int
  BY NAssumption, BudgetAssumption
<1>2. TypeBudget
  BY <1>1, BudgetAssumption DEF Init, TypeBudget
<1>3. TypeBatch
  <2>1. kind \in [Calls -> Kind]
    BY KindAssumption DEF Init
  <2>2. next \in 1..(N + 1)
    BY NAssumption DEF Init
  <2> QED
    BY <2>1, <2>2 DEF Init, TypeBatch
<1>4. TypeCalls /\ TypeLock /\ TypeSnapshots
  BY DEF Init, TypeCalls, TypeLock, TypeSnapshots, PcValues, Outcome, Entry, NoCall
<1>5. TypeRevisions
  BY DEF Init, TypeRevisions
<1> QED
  BY <1>2, <1>3, <1>4, <1>5 DEF TypeOK

\* Every step of the batch, of a call, of the sink or of the environment keeps the types.
LEMMA TypeStep == TypeOK /\ [Next]_vars => TypeOK'
<1> SUFFICES ASSUME TypeOK, [Next]_vars PROVE TypeOK'
  OBVIOUS
<1> USE NAssumption, BudgetAssumption
<1> USE DEF TypeOK, Outcome, Entry, PcValues, Status, NoCall,
            batchVars, callVars, budgetVars, stateVars, sinkVars, ckptVars, envVars
<1>1. CASE Cancel
  BY <1>1 DEF Cancel, TypeBatch, TypeCalls, TypeBudget, TypeLock, TypeRevisions, TypeSnapshots
<1>2. CASE Expire
  BY <1>2 DEF Expire, TypeBatch, TypeCalls, TypeBudget, TypeLock, TypeRevisions, TypeSnapshots
<1>3. CASE Land
  BY <1>3 DEF Land, TypeBatch, TypeCalls, TypeBudget, TypeLock, TypeRevisions, TypeSnapshots
<1>4. CASE PreflightStop
  BY <1>4 DEF PreflightStop, SkipAll, TypeBatch, TypeCalls, TypeBudget, TypeLock, TypeRevisions, TypeSnapshots
<1>5. CASE PreflightReject
  <2>1. next \in Calls /\ next + 1 \in 1..(N + 1)
    BY <1>5 DEF PreflightReject, TypeBatch, Calls
  <2>2. PICK bytes \in {SlotBytes, MaxBytes} : Replace(next, bytes)
    BY <1>5 DEF PreflightReject
  <2>3. TypeBudget'
    BY <2>1, <2>2 DEF Replace, TypeBudget
  <2>4. TypeBatch'
    BY <1>5, <2>1 DEF PreflightReject, TypeBatch
  <2>5. TypeCalls' /\ TypeLock' /\ TypeRevisions' /\ TypeSnapshots'
    BY <1>5, <2>1 DEF PreflightReject, RejectStatus,
       TypeCalls, TypeLock, TypeRevisions, TypeSnapshots
  <2> QED
    BY <2>3, <2>4, <2>5
<1>23. CASE PreflightOverflow
  BY <1>23 DEF PreflightOverflow, SkipAll, TypeBatch, TypeCalls, TypeBudget, TypeLock, TypeRevisions, TypeSnapshots
<1>6. CASE PreflightReady
  BY <1>6 DEF PreflightReady, Calls, TypeBatch, TypeCalls, TypeBudget, TypeLock, TypeRevisions, TypeSnapshots
<1>7. CASE PreflightDone
  BY <1>7 DEF PreflightDone, TypeBatch, TypeCalls, TypeBudget, TypeLock, TypeRevisions, TypeSnapshots
<1>8. CASE BeginGroup
  BY <1>8 DEF BeginGroup, Group, First, TypeBatch, TypeCalls, TypeBudget, TypeLock, TypeRevisions, TypeSnapshots
<1>9. CASE StopFilling
  BY <1>9 DEF StopFilling, TypeBatch, TypeCalls, TypeBudget, TypeLock, TypeRevisions, TypeSnapshots
<1>10. CASE EndGroup
  BY <1>10 DEF EndGroup, TypeBatch, TypeCalls, TypeBudget, TypeLock, TypeRevisions, TypeSnapshots
<1>11. CASE Finish
  BY <1>11 DEF Finish, TypeBatch, TypeCalls, TypeBudget, TypeLock, TypeRevisions, TypeSnapshots
<1>12. ASSUME NEW i \in Calls, Dispatch(i) PROVE TypeOK'
  BY <1>12 DEF Dispatch, Replace, First, TypeBatch, TypeCalls, TypeBudget, TypeLock, TypeRevisions, TypeSnapshots
<1>13. ASSUME NEW i \in Calls, Collect(i) PROVE TypeOK'
  BY <1>13 DEF Collect, Replace, TypeBatch, TypeCalls, TypeBudget, TypeLock, TypeRevisions, TypeSnapshots
<1>14. ASSUME NEW i \in Calls, Enter(i) PROVE TypeOK'
  BY <1>14 DEF Enter, Return, Polled, RunOneUnchanged, TypeBatch, TypeCalls, TypeBudget, TypeLock, TypeRevisions, TypeSnapshots
<1>15. ASSUME NEW i \in Calls, Intent(i) PROVE TypeOK'
  <2> USE <1>15 DEF Intent, AfterIntent, Return, Refused, Oversized, BeginCommit, Update, Polled, RunOneUnchanged
  <2>1. TypeBatch'
    BY DEF TypeBatch
  <2>2. TypeCalls'
    BY DEF TypeCalls
  <2>3. TypeBudget'
    BY DEF TypeBudget
  <2>4. TypeLock'
    BY DEF TypeLock
  <2>5. TypeRevisions'
    BY DEF TypeRevisions
  <2>6. TypeSnapshots'
    BY DEF TypeSnapshots
  <2> QED
    BY <2>1, <2>2, <2>3, <2>4, <2>5, <2>6
<1>16. ASSUME NEW i \in Calls, IntentCommitted(i) PROVE TypeOK'
  BY <1>16 DEF IntentCommitted, AfterIntent, Return, Acknowledged, Unacknowledged, Polled, RunOneUnchanged, TypeBatch, TypeCalls, TypeBudget, TypeLock, TypeRevisions, TypeSnapshots
<1>17. ASSUME NEW i \in Calls, Policy(i) PROVE TypeOK'
  BY <1>17 DEF Policy, Withhold, Polled, RunOneUnchanged, TypeBatch, TypeCalls, TypeBudget, TypeLock, TypeRevisions, TypeSnapshots
<1>18. ASSUME NEW i \in Calls, StartBody(i) PROVE TypeOK'
  <2>1. TypeBatch' /\ TypeBudget'
    BY <1>18 DEF StartBody, RunOneUnchanged, TypeBatch, TypeBudget
  <2>2. TypeLock' /\ TypeRevisions' /\ TypeSnapshots'
    BY <1>18 DEF StartBody, TypeLock, TypeRevisions, TypeSnapshots
  <2>3. CASE ckptError
    BY <1>18, <2>1, <2>2, <2>3 DEF StartBody, Return, TypeCalls
  <2>4. CASE ~ckptError
    BY <1>18, <2>1, <2>2, <2>4 DEF StartBody, Return, TypeCalls
  <2> QED
    BY <2>3, <2>4
<1>19. ASSUME NEW i \in Calls, EndBody(i) PROVE TypeOK'
  BY <1>19 DEF EndBody, Withhold, BodyStatus, Polled, RunOneUnchanged, TypeBatch, TypeCalls, TypeBudget, TypeLock, TypeRevisions, TypeSnapshots
<1>20. ASSUME NEW i \in Calls, Settle(i) PROVE TypeOK'
  <2> USE <1>20 DEF Settle, Refused, Oversized, BeginCommit, Update, Polled, RunOneUnchanged
  <2>1. TypeBatch'
    BY DEF TypeBatch
  <2>2. TypeCalls'
    BY DEF TypeCalls
  <2>3. TypeBudget'
    BY DEF TypeBudget
  <2>4. TypeLock'
    BY DEF TypeLock
  <2>5. TypeRevisions'
    BY DEF TypeRevisions
  <2>6. TypeSnapshots'
    BY DEF TypeSnapshots, TypeCalls
  <2> QED
    BY <2>1, <2>2, <2>3, <2>4, <2>5, <2>6
<1>21. ASSUME NEW i \in Calls, SettleCommitted(i) PROVE TypeOK'
  BY <1>21 DEF SettleCommitted, Acknowledged, Unacknowledged, Polled, RunOneUnchanged, TypeBatch, TypeCalls, TypeBudget, TypeLock, TypeRevisions, TypeSnapshots
<1>22. CASE UNCHANGED vars
  BY <1>22 DEF vars, TypeBatch, TypeCalls, TypeBudget, TypeLock, TypeRevisions, TypeSnapshots
<1> QED
  BY <1>1, <1>2, <1>3, <1>4, <1>5, <1>6, <1>7, <1>8, <1>9, <1>10, <1>11, <1>12, <1>13, <1>14, <1>15, <1>16, <1>17, <1>18, <1>19, <1>20, <1>21, <1>22, <1>23 DEF Next, Scheduler, RunOne, Done

\* Every variable of the batch keeps its type in every reachable state.
THEOREM TypeCorrect == Spec => []TypeOK
  BY TypeInit, TypeStep, PTL DEF Spec

\* The scheduler's bookkeeping is kept by every step.
LEMMA BookkeepingStep == IInv /\ [Next]_vars => Bookkeeping'
<1> SUFFICES ASSUME IInv, [Next]_vars PROVE Bookkeeping'
  OBVIOUS
<1> USE NAssumption, BudgetAssumption, FreeIsNoCall
<1> USE DEF IInv, Bookkeeping, Progress, Dispatchable,
            TypeOK, TypeBatch, TypeCalls, TypeBudget, TypeLock, TypeRevisions, TypeSnapshots, Outcome, Entry, PcValues, Status,
            batchVars, callVars, budgetVars, stateVars, sinkVars, ckptVars, envVars
<1>1. CASE Cancel
  BY <1>1 DEF Cancel, Calls
<1>2. CASE Expire
  BY <1>2 DEF Expire, Calls
<1>3. CASE Land
  BY <1>3 DEF Land, Calls
<1>4. CASE PreflightStop
  BY <1>4 DEF PreflightStop, SkipAll, Calls
<1>5. CASE PreflightReject
  BY <1>5 DEF PreflightReject, Rejected, Fits, Replace, RejectStatus, Calls
<1>6. CASE PreflightOverflow
  BY <1>6 DEF PreflightOverflow, SkipAll, Calls
<1>7. CASE PreflightReady
  BY <1>7 DEF PreflightReady, Rejected, Kind, Calls
<1>8. CASE PreflightDone
  BY <1>8 DEF PreflightDone, Calls
<1>9. CASE BeginGroup
  BY <1>9 DEF BeginGroup, Group, First, Calls
<1>10. CASE StopFilling
  BY <1>10 DEF StopFilling, Calls
<1>11. CASE EndGroup
  BY <1>11 DEF EndGroup, Calls
<1>12. CASE Finish
  BY <1>12 DEF Finish, Calls
<1>13. ASSUME NEW i \in Calls, Dispatch(i) PROVE Bookkeeping'
  BY <1>13 DEF Dispatch, Fits, Replace, First, Calls
<1>14. ASSUME NEW i \in Calls, Collect(i) PROVE Bookkeeping'
  BY <1>14 DEF Collect, Fits, Replace, Calls
<1>15. ASSUME NEW i \in Calls, Enter(i) PROVE Bookkeeping'
  BY <1>15 DEF Enter, Return, Polled, RunOneUnchanged
<1>16. ASSUME NEW i \in Calls, Intent(i) PROVE Bookkeeping'
  BY <1>16 DEF Intent, AfterIntent, Return, Refused, Oversized, BeginCommit, Update, Polled, RunOneUnchanged
<1>17. ASSUME NEW i \in Calls, IntentCommitted(i) PROVE Bookkeeping'
  BY <1>17 DEF IntentCommitted, AfterIntent, Return, Acknowledged, Unacknowledged, Polled, RunOneUnchanged
<1>18. ASSUME NEW i \in Calls, Policy(i) PROVE Bookkeeping'
  BY <1>18 DEF Policy, Withhold, Polled, RunOneUnchanged
<1>19. ASSUME NEW i \in Calls, StartBody(i) PROVE Bookkeeping'
  BY <1>19 DEF StartBody, Return, Polled, RunOneUnchanged
<1>20. ASSUME NEW i \in Calls, EndBody(i) PROVE Bookkeeping'
  BY <1>20 DEF EndBody, Withhold, BodyStatus, Polled, RunOneUnchanged
<1>21. ASSUME NEW i \in Calls, Settle(i) PROVE Bookkeeping'
  BY <1>21 DEF Settle, Refused, Oversized, BeginCommit, Update, Polled, RunOneUnchanged
<1>22. ASSUME NEW i \in Calls, SettleCommitted(i) PROVE Bookkeeping'
  BY <1>22 DEF SettleCommitted, Acknowledged, Unacknowledged, Polled, RunOneUnchanged
<1>23. CASE UNCHANGED vars
  BY <1>23 DEF vars
<1> QED
  BY <1>1, <1>2, <1>3, <1>4, <1>5, <1>6, <1>7, <1>8, <1>9, <1>10, <1>11, <1>12, <1>13, <1>14, <1>15, <1>16, <1>17, <1>18, <1>19, <1>20, <1>21, <1>22, <1>23 DEF Next, Scheduler, RunOne, Done

\* What is known of a call at each point of run_one is kept by every step.
LEMMA ProgressStep == IInv /\ [Next]_vars => Progress'
<1> SUFFICES ASSUME IInv, [Next]_vars PROVE Progress'
  OBVIOUS
<1> USE NAssumption, BudgetAssumption, FreeIsNoCall
<1> USE DEF IInv, Bookkeeping, Progress, BeforeBody,
            TypeOK, TypeBatch, TypeCalls, TypeBudget, TypeLock, TypeRevisions, TypeSnapshots, Outcome, Entry, PcValues, Status,
            batchVars, callVars, budgetVars, stateVars, sinkVars, ckptVars, envVars
<1>1. CASE Cancel
  BY <1>1 DEF Cancel, Calls
<1>2. CASE Expire
  BY <1>2 DEF Expire, Calls
<1>3. CASE Land
  BY <1>3 DEF Land, Calls
<1>4. CASE PreflightStop
  BY <1>4 DEF PreflightStop, SkipAll, Calls
<1>5. CASE PreflightReject
  BY <1>5 DEF PreflightReject, Rejected, Fits, Replace, RejectStatus, Calls
<1>6. CASE PreflightOverflow
  BY <1>6 DEF PreflightOverflow, SkipAll, Calls
<1>7. CASE PreflightReady
  BY <1>7 DEF PreflightReady, Rejected, Kind, Calls
<1>8. CASE PreflightDone
  BY <1>8 DEF PreflightDone, Calls
<1>9. CASE BeginGroup
  BY <1>9 DEF BeginGroup, Group, First, Calls
<1>10. CASE StopFilling
  BY <1>10 DEF StopFilling, Calls
<1>11. CASE EndGroup
  BY <1>11 DEF EndGroup, Calls
<1>12. CASE Finish
  BY <1>12 DEF Finish, Calls
<1>13. ASSUME NEW i \in Calls, Dispatch(i) PROVE Progress'
  BY <1>13 DEF Dispatch, Fits, Replace, First, Calls
<1>14. ASSUME NEW i \in Calls, Collect(i) PROVE Progress'
  BY <1>14 DEF Collect, Fits, Replace, Calls
<1>15. ASSUME NEW i \in Calls, Enter(i) PROVE Progress'
  BY <1>15 DEF Enter, Return, Polled, RunOneUnchanged
<1>16. ASSUME NEW i \in Calls, Intent(i) PROVE Progress'
  BY <1>16 DEF Intent, AfterIntent, Return, Refused, Oversized, BeginCommit, Update, Polled, RunOneUnchanged
<1>17. ASSUME NEW i \in Calls, IntentCommitted(i) PROVE Progress'
  BY <1>17 DEF IntentCommitted, AfterIntent, Return, Acknowledged, Unacknowledged, Polled, RunOneUnchanged
<1>18. ASSUME NEW i \in Calls, Policy(i) PROVE Progress'
  BY <1>18 DEF Policy, Withhold, Polled, RunOneUnchanged
<1>19. ASSUME NEW i \in Calls, StartBody(i) PROVE Progress'
  BY <1>19 DEF StartBody, Return, Polled, RunOneUnchanged
<1>20. ASSUME NEW i \in Calls, EndBody(i) PROVE Progress'
  BY <1>20 DEF EndBody, Withhold, BodyStatus, Polled, RunOneUnchanged
<1>21. ASSUME NEW i \in Calls, Settle(i) PROVE Progress'
  BY <1>21 DEF Settle, Refused, Oversized, BeginCommit, Update, Polled, RunOneUnchanged
<1>22. ASSUME NEW i \in Calls, SettleCommitted(i) PROVE Progress'
  BY <1>22 DEF SettleCommitted, Acknowledged, Unacknowledged, Polled, RunOneUnchanged
<1>23. CASE UNCHANGED vars
  BY <1>23 DEF vars
<1> QED
  BY <1>1, <1>2, <1>3, <1>4, <1>5, <1>6, <1>7, <1>8, <1>9, <1>10, <1>11, <1>12, <1>13, <1>14, <1>15, <1>16, <1>17, <1>18, <1>19, <1>20, <1>21, <1>22, <1>23 DEF Next, Scheduler, RunOne, Done

\* Only the call that waits for its commit holds the checkpoint lock.
LEMMA LockStep == IInv /\ [Next]_vars => Lock'
<1> SUFFICES ASSUME IInv, [Next]_vars PROVE Lock'
  OBVIOUS
<1> USE NAssumption, BudgetAssumption, FreeIsNoCall
<1> USE DEF IInv, Bookkeeping, Lock, Committing,
            TypeOK, TypeBatch, TypeCalls, TypeBudget, TypeLock, TypeRevisions, TypeSnapshots, Outcome, Entry, PcValues, Status,
            batchVars, callVars, budgetVars, stateVars, sinkVars, ckptVars, envVars
<1>1. CASE Cancel
  BY <1>1 DEF Cancel, Calls
<1>2. CASE Expire
  BY <1>2 DEF Expire, Calls
<1>3. CASE Land
  BY <1>3 DEF Land, Calls
<1>4. CASE PreflightStop
  BY <1>4 DEF PreflightStop, SkipAll, Calls
<1>5. CASE PreflightReject
  BY <1>5 DEF PreflightReject, Rejected, Fits, Replace, RejectStatus, Calls
<1>6. CASE PreflightOverflow
  BY <1>6 DEF PreflightOverflow, SkipAll, Calls
<1>7. CASE PreflightReady
  BY <1>7 DEF PreflightReady, Rejected, Kind, Calls
<1>8. CASE PreflightDone
  BY <1>8 DEF PreflightDone, Calls
<1>9. CASE BeginGroup
  BY <1>9 DEF BeginGroup, Group, First, Calls
<1>10. CASE StopFilling
  BY <1>10 DEF StopFilling, Calls
<1>11. CASE EndGroup
  BY <1>11 DEF EndGroup, Calls
<1>12. CASE Finish
  BY <1>12 DEF Finish, Calls
<1>13. ASSUME NEW i \in Calls, Dispatch(i) PROVE Lock'
  BY <1>13 DEF Dispatch, Fits, Replace, First, Calls
<1>14. ASSUME NEW i \in Calls, Collect(i) PROVE Lock'
  BY <1>14 DEF Collect, Fits, Replace, Calls
<1>15. ASSUME NEW i \in Calls, Enter(i) PROVE Lock'
  BY <1>15 DEF Enter, Return, Polled, RunOneUnchanged
<1>16. ASSUME NEW i \in Calls, Intent(i) PROVE Lock'
  <2>0. Polled(i, "intent") /\ UNCHANGED started /\ RunOneUnchanged
    BY <1>16 DEF Intent
  <2>1. CASE ~configured /\ UNCHANGED ckptVars /\ AfterIntent(i) /\ Stop
    BY <2>0, <2>1 DEF AfterIntent, Return, Polled, RunOneUnchanged
  <2>2. CASE ~configured /\ UNCHANGED ckptVars /\ AfterIntent(i) /\ ~Stop
    BY <2>0, <2>2 DEF AfterIntent, Polled, RunOneUnchanged
  <2>3. CASE configured /\ Refused /\ Return(i, "Skipped", TRUE)
    BY <2>0, <2>3 DEF Refused, Return, Polled, RunOneUnchanged
  <2>4. CASE configured /\ Oversized(i, "intent") /\ Return(i, "Skipped", TRUE)
    BY <2>0, <2>4 DEF Oversized, Update, Return, Polled, RunOneUnchanged
  <2>5. CASE configured /\ BeginCommit(i, "intent")
             /\ pc' = [pc EXCEPT ![i] = "intentCommit"] /\ UNCHANGED <<result, failed>>
    BY <2>0, <2>5 DEF BeginCommit, Update, Polled, RunOneUnchanged
  <2> QED
    BY <1>16, <2>1, <2>2, <2>3, <2>4, <2>5 DEF Intent
<1>17. ASSUME NEW i \in Calls, IntentCommitted(i) PROVE Lock'
  <2>0. Polled(i, "intentCommit") /\ UNCHANGED started /\ RunOneUnchanged
    BY <1>17 DEF IntentCommitted
  <2>1. CASE Acknowledged(i) /\ AfterIntent(i) /\ Stop
    BY <2>0, <2>1 DEF Acknowledged, AfterIntent, Return, Polled, RunOneUnchanged
  <2>2. CASE Acknowledged(i) /\ AfterIntent(i) /\ ~Stop
    BY <2>0, <2>2 DEF Acknowledged, AfterIntent, Polled, RunOneUnchanged
  <2>3. CASE Unacknowledged(i) /\ Return(i, "Skipped", TRUE)
    BY <2>0, <2>3 DEF Unacknowledged, Return, Polled, RunOneUnchanged
  <2> QED
    BY <1>17, <2>1, <2>2, <2>3 DEF IntentCommitted
<1>18. ASSUME NEW i \in Calls, Policy(i) PROVE Lock'
  BY <1>18 DEF Policy, Withhold, Polled, RunOneUnchanged
<1>19. ASSUME NEW i \in Calls, StartBody(i) PROVE Lock'
  BY <1>19 DEF StartBody, Return, Polled, RunOneUnchanged
<1>20. ASSUME NEW i \in Calls, EndBody(i) PROVE Lock'
  BY <1>20 DEF EndBody, Withhold, BodyStatus, Polled, RunOneUnchanged
<1>21. ASSUME NEW i \in Calls, Settle(i) PROVE Lock'
  <2>0. Polled(i, "settle") /\ UNCHANGED <<started, result>> /\ RunOneUnchanged
    BY <1>21 DEF Settle
  <2>1. CASE ~configured /\ pc' = [pc EXCEPT ![i] = "ended"] /\ UNCHANGED <<failed, ckptVars>>
    BY <2>0, <2>1 DEF Polled, RunOneUnchanged
  <2>2. CASE configured /\ Refused /\ pc' = [pc EXCEPT ![i] = "ended"]
             /\ failed' = [failed EXCEPT ![i] = TRUE]
    BY <2>0, <2>2 DEF Refused, Polled, RunOneUnchanged
  <2>3. CASE configured /\ Oversized(i, result[i]) /\ pc' = [pc EXCEPT ![i] = "ended"]
             /\ failed' = [failed EXCEPT ![i] = TRUE]
    BY <2>0, <2>3 DEF Oversized, Update, Polled, RunOneUnchanged
  <2>4. CASE configured /\ BeginCommit(i, result[i])
             /\ pc' = [pc EXCEPT ![i] = "settleCommit"] /\ UNCHANGED failed
    BY <2>0, <2>4 DEF BeginCommit, Update, Polled, RunOneUnchanged
  <2> QED
    BY <1>21, <2>1, <2>2, <2>3, <2>4 DEF Settle
<1>22. ASSUME NEW i \in Calls, SettleCommitted(i) PROVE Lock'
  <2>0. Polled(i, "settleCommit") /\ UNCHANGED <<started, result>> /\ RunOneUnchanged
    BY <1>22 DEF SettleCommitted
  <2>1. CASE Acknowledged(i) /\ pc' = [pc EXCEPT ![i] = "ended"] /\ UNCHANGED failed
    BY <2>0, <2>1 DEF Acknowledged, Polled, RunOneUnchanged
  <2>2. CASE Unacknowledged(i) /\ pc' = [pc EXCEPT ![i] = "ended"]
             /\ failed' = [failed EXCEPT ![i] = TRUE]
    BY <2>0, <2>2 DEF Unacknowledged, Polled, RunOneUnchanged
  <2> QED
    BY <1>22, <2>1, <2>2 DEF SettleCommitted
<1>23. CASE UNCHANGED vars
  BY <1>23 DEF vars
<1> QED
  BY <1>1, <1>2, <1>3, <1>4, <1>5, <1>6, <1>7, <1>8, <1>9, <1>10, <1>11, <1>12, <1>13, <1>14, <1>15, <1>16, <1>17, <1>18, <1>19, <1>20, <1>21, <1>22, <1>23 DEF Next, Scheduler, RunOne, Done

\* The acknowledged revision stays behind the stored one.
LEMMA RevisionsStep == IInv /\ [Next]_vars => Revisions'
<1> SUFFICES ASSUME IInv, [Next]_vars PROVE Revisions'
  OBVIOUS
<1> USE NAssumption, BudgetAssumption, FreeIsNoCall
<1> USE DEF IInv, Lock, Revisions, Committing,
            TypeOK, TypeBatch, TypeCalls, TypeBudget, TypeLock, TypeRevisions, TypeSnapshots, Outcome, Entry, PcValues, Status,
            batchVars, callVars, budgetVars, stateVars, sinkVars, ckptVars, envVars
<1>1. CASE Cancel
  BY <1>1 DEF Cancel, Calls
<1>2. CASE Expire
  BY <1>2 DEF Expire, Calls
<1>3. CASE Land
  BY <1>3 DEF Land, Calls
<1>4. CASE PreflightStop
  BY <1>4 DEF PreflightStop, SkipAll, Calls
<1>5. CASE PreflightReject
  BY <1>5 DEF PreflightReject, Rejected, Fits, Replace, RejectStatus, Calls
<1>6. CASE PreflightOverflow
  BY <1>6 DEF PreflightOverflow, SkipAll, Calls
<1>7. CASE PreflightReady
  BY <1>7 DEF PreflightReady, Rejected, Kind, Calls
<1>8. CASE PreflightDone
  BY <1>8 DEF PreflightDone, Calls
<1>9. CASE BeginGroup
  BY <1>9 DEF BeginGroup, Group, First, Calls
<1>10. CASE StopFilling
  BY <1>10 DEF StopFilling, Calls
<1>11. CASE EndGroup
  BY <1>11 DEF EndGroup, Calls
<1>12. CASE Finish
  BY <1>12 DEF Finish, Calls
<1>13. ASSUME NEW i \in Calls, Dispatch(i) PROVE Revisions'
  BY <1>13 DEF Dispatch, Fits, Replace, First, Calls
<1>14. ASSUME NEW i \in Calls, Collect(i) PROVE Revisions'
  BY <1>14 DEF Collect, Fits, Replace, Calls
<1>15. ASSUME NEW i \in Calls, Enter(i) PROVE Revisions'
  BY <1>15 DEF Enter, Return, Polled, RunOneUnchanged
<1>16. ASSUME NEW i \in Calls, Intent(i) PROVE Revisions'
  <2>0. Polled(i, "intent") /\ UNCHANGED started /\ RunOneUnchanged
    BY <1>16 DEF Intent
  <2>1. CASE ~configured /\ UNCHANGED ckptVars /\ AfterIntent(i) /\ Stop
    BY <2>0, <2>1 DEF AfterIntent, Return, Polled, RunOneUnchanged
  <2>2. CASE ~configured /\ UNCHANGED ckptVars /\ AfterIntent(i) /\ ~Stop
    BY <2>0, <2>2 DEF AfterIntent, Polled, RunOneUnchanged
  <2>3. CASE configured /\ Refused /\ Return(i, "Skipped", TRUE)
    BY <2>0, <2>3 DEF Refused, Return, Polled, RunOneUnchanged
  <2>4. CASE configured /\ Oversized(i, "intent") /\ Return(i, "Skipped", TRUE)
    BY <2>0, <2>4 DEF Oversized, Update, Return, Polled, RunOneUnchanged
  <2>5. CASE configured /\ BeginCommit(i, "intent")
             /\ pc' = [pc EXCEPT ![i] = "intentCommit"] /\ UNCHANGED <<result, failed>>
    BY <2>0, <2>5 DEF BeginCommit, Update, Polled, RunOneUnchanged
  <2> QED
    BY <1>16, <2>1, <2>2, <2>3, <2>4, <2>5 DEF Intent
<1>17. ASSUME NEW i \in Calls, IntentCommitted(i) PROVE Revisions'
  <2>0. Polled(i, "intentCommit") /\ UNCHANGED started /\ RunOneUnchanged
    BY <1>17 DEF IntentCommitted
  <2>1. CASE Acknowledged(i) /\ AfterIntent(i) /\ Stop
    BY <2>0, <2>1 DEF Acknowledged, AfterIntent, Return, Polled, RunOneUnchanged
  <2>2. CASE Acknowledged(i) /\ AfterIntent(i) /\ ~Stop
    BY <2>0, <2>2 DEF Acknowledged, AfterIntent, Polled, RunOneUnchanged
  <2>3. CASE Unacknowledged(i) /\ Return(i, "Skipped", TRUE)
    BY <2>0, <2>3 DEF Unacknowledged, Return, Polled, RunOneUnchanged
  <2> QED
    BY <1>17, <2>1, <2>2, <2>3 DEF IntentCommitted
<1>18. ASSUME NEW i \in Calls, Policy(i) PROVE Revisions'
  BY <1>18 DEF Policy, Withhold, Polled, RunOneUnchanged
<1>19. ASSUME NEW i \in Calls, StartBody(i) PROVE Revisions'
  BY <1>19 DEF StartBody, Return, Polled, RunOneUnchanged
<1>20. ASSUME NEW i \in Calls, EndBody(i) PROVE Revisions'
  BY <1>20 DEF EndBody, Withhold, BodyStatus, Polled, RunOneUnchanged
<1>21. ASSUME NEW i \in Calls, Settle(i) PROVE Revisions'
  <2>0. Polled(i, "settle") /\ UNCHANGED <<started, result>> /\ RunOneUnchanged
    BY <1>21 DEF Settle
  <2>1. CASE ~configured /\ pc' = [pc EXCEPT ![i] = "ended"] /\ UNCHANGED <<failed, ckptVars>>
    BY <2>0, <2>1 DEF Polled, RunOneUnchanged
  <2>2. CASE configured /\ Refused /\ pc' = [pc EXCEPT ![i] = "ended"]
             /\ failed' = [failed EXCEPT ![i] = TRUE]
    BY <2>0, <2>2 DEF Refused, Polled, RunOneUnchanged
  <2>3. CASE configured /\ Oversized(i, result[i]) /\ pc' = [pc EXCEPT ![i] = "ended"]
             /\ failed' = [failed EXCEPT ![i] = TRUE]
    BY <2>0, <2>3 DEF Oversized, Update, Polled, RunOneUnchanged
  <2>4. CASE configured /\ BeginCommit(i, result[i])
             /\ pc' = [pc EXCEPT ![i] = "settleCommit"] /\ UNCHANGED failed
    BY <2>0, <2>4 DEF BeginCommit, Update, Polled, RunOneUnchanged
  <2> QED
    BY <1>21, <2>1, <2>2, <2>3, <2>4 DEF Settle
<1>22. ASSUME NEW i \in Calls, SettleCommitted(i) PROVE Revisions'
  <2>0. Polled(i, "settleCommit") /\ UNCHANGED <<started, result>> /\ RunOneUnchanged
    BY <1>22 DEF SettleCommitted
  <2>1. CASE Acknowledged(i) /\ pc' = [pc EXCEPT ![i] = "ended"] /\ UNCHANGED failed
    BY <2>0, <2>1 DEF Acknowledged, Polled, RunOneUnchanged
  <2>2. CASE Unacknowledged(i) /\ pc' = [pc EXCEPT ![i] = "ended"]
             /\ failed' = [failed EXCEPT ![i] = TRUE]
    BY <2>0, <2>2 DEF Unacknowledged, Polled, RunOneUnchanged
  <2> QED
    BY <1>22, <2>1, <2>2 DEF SettleCommitted
<1>23. CASE UNCHANGED vars
  BY <1>23 DEF vars
<1> QED
  BY <1>1, <1>2, <1>3, <1>4, <1>5, <1>6, <1>7, <1>8, <1>9, <1>10, <1>11, <1>12, <1>13, <1>14, <1>15, <1>16, <1>17, <1>18, <1>19, <1>20, <1>21, <1>22, <1>23 DEF Next, Scheduler, RunOne, Done

\* Memory and storage keep telling the truth about every call.
LEMMA SnapshotsStep == IInv /\ [Next]_vars => Snapshots'
<1> SUFFICES ASSUME IInv, [Next]_vars PROVE Snapshots'
  OBVIOUS
<1> USE NAssumption, BudgetAssumption, FreeIsNoCall
<1> USE DEF IInv, Bookkeeping, Progress, Lock, Snapshots, BeforeBody, Committing, PastIntent,
            TypeOK, TypeBatch, TypeCalls, TypeBudget, TypeLock, TypeRevisions, TypeSnapshots, Outcome, Entry, PcValues, Status,
            batchVars, callVars, budgetVars, stateVars, sinkVars, ckptVars, envVars
<1>1. CASE Cancel
  BY <1>1 DEF Cancel, Calls
<1>2. CASE Expire
  BY <1>2 DEF Expire, Calls
<1>3. CASE Land
  BY <1>3 DEF Land, Calls
<1>4. CASE PreflightStop
  BY <1>4 DEF PreflightStop, SkipAll, Calls
<1>5. CASE PreflightReject
  BY <1>5 DEF PreflightReject, Rejected, Fits, Replace, RejectStatus, Calls
<1>6. CASE PreflightOverflow
  BY <1>6 DEF PreflightOverflow, SkipAll, Calls
<1>7. CASE PreflightReady
  BY <1>7 DEF PreflightReady, Rejected, Kind, Calls
<1>8. CASE PreflightDone
  BY <1>8 DEF PreflightDone, Calls
<1>9. CASE BeginGroup
  BY <1>9 DEF BeginGroup, Group, First, Calls
<1>10. CASE StopFilling
  BY <1>10 DEF StopFilling, Calls
<1>11. CASE EndGroup
  BY <1>11 DEF EndGroup, Calls
<1>12. CASE Finish
  BY <1>12 DEF Finish, Calls
<1>13. ASSUME NEW i \in Calls, Dispatch(i) PROVE Snapshots'
  BY <1>13 DEF Dispatch, Fits, Replace, First, Calls
<1>14. ASSUME NEW i \in Calls, Collect(i) PROVE Snapshots'
  BY <1>14 DEF Collect, Fits, Replace, Calls
<1>15. ASSUME NEW i \in Calls, Enter(i) PROVE Snapshots'
  BY <1>15 DEF Enter, Return, Polled, RunOneUnchanged
<1>16. ASSUME NEW i \in Calls, Intent(i) PROVE Snapshots'
  <2>0. Polled(i, "intent") /\ UNCHANGED started /\ RunOneUnchanged
    BY <1>16 DEF Intent
  <2>1. CASE ~configured /\ UNCHANGED ckptVars /\ AfterIntent(i) /\ Stop
    BY <2>0, <2>1 DEF AfterIntent, Return, Polled, RunOneUnchanged
  <2>2. CASE ~configured /\ UNCHANGED ckptVars /\ AfterIntent(i) /\ ~Stop
    BY <2>0, <2>2 DEF AfterIntent, Polled, RunOneUnchanged
  <2>3. CASE configured /\ Refused /\ Return(i, "Skipped", TRUE)
    BY <2>0, <2>3 DEF Refused, Return, Polled, RunOneUnchanged
  <2>4. CASE configured /\ Oversized(i, "intent") /\ Return(i, "Skipped", TRUE)
    BY <2>0, <2>4 DEF Oversized, Update, Return, Polled, RunOneUnchanged
  <2>5. CASE configured /\ BeginCommit(i, "intent")
             /\ pc' = [pc EXCEPT ![i] = "intentCommit"] /\ UNCHANGED <<result, failed>>
    BY <2>0, <2>5 DEF BeginCommit, Update, Polled, RunOneUnchanged
  <2> QED
    BY <1>16, <2>1, <2>2, <2>3, <2>4, <2>5 DEF Intent
<1>17. ASSUME NEW i \in Calls, IntentCommitted(i) PROVE Snapshots'
  <2>0. Polled(i, "intentCommit") /\ UNCHANGED started /\ RunOneUnchanged
    BY <1>17 DEF IntentCommitted
  <2>1. CASE Acknowledged(i) /\ AfterIntent(i) /\ Stop
    BY <2>0, <2>1 DEF Acknowledged, AfterIntent, Return, Polled, RunOneUnchanged
  <2>2. CASE Acknowledged(i) /\ AfterIntent(i) /\ ~Stop
    BY <2>0, <2>2 DEF Acknowledged, AfterIntent, Polled, RunOneUnchanged
  <2>3. CASE Unacknowledged(i) /\ Return(i, "Skipped", TRUE)
    BY <2>0, <2>3 DEF Unacknowledged, Return, Polled, RunOneUnchanged
  <2> QED
    BY <1>17, <2>1, <2>2, <2>3 DEF IntentCommitted
<1>18. ASSUME NEW i \in Calls, Policy(i) PROVE Snapshots'
  BY <1>18 DEF Policy, Withhold, Polled, RunOneUnchanged
<1>19. ASSUME NEW i \in Calls, StartBody(i) PROVE Snapshots'
  BY <1>19 DEF StartBody, Return, Polled, RunOneUnchanged
<1>20. ASSUME NEW i \in Calls, EndBody(i) PROVE Snapshots'
  BY <1>20 DEF EndBody, Withhold, BodyStatus, Polled, RunOneUnchanged
<1>21. ASSUME NEW i \in Calls, Settle(i) PROVE Snapshots'
  <2>0. Polled(i, "settle") /\ UNCHANGED <<started, result>> /\ RunOneUnchanged
    BY <1>21 DEF Settle
  <2>1. CASE ~configured /\ pc' = [pc EXCEPT ![i] = "ended"] /\ UNCHANGED <<failed, ckptVars>>
    BY <2>0, <2>1 DEF Polled, RunOneUnchanged
  <2>2. CASE configured /\ Refused /\ pc' = [pc EXCEPT ![i] = "ended"]
             /\ failed' = [failed EXCEPT ![i] = TRUE]
    BY <2>0, <2>2 DEF Refused, Polled, RunOneUnchanged
  <2>3. CASE configured /\ Oversized(i, result[i]) /\ pc' = [pc EXCEPT ![i] = "ended"]
             /\ failed' = [failed EXCEPT ![i] = TRUE]
    BY <2>0, <2>3 DEF Oversized, Update, Polled, RunOneUnchanged
  <2>4. CASE configured /\ BeginCommit(i, result[i])
             /\ pc' = [pc EXCEPT ![i] = "settleCommit"] /\ UNCHANGED failed
    BY <2>0, <2>4 DEF BeginCommit, Update, Polled, RunOneUnchanged
  <2> QED
    BY <1>21, <2>1, <2>2, <2>3, <2>4 DEF Settle
<1>22. ASSUME NEW i \in Calls, SettleCommitted(i) PROVE Snapshots'
  <2>0. Polled(i, "settleCommit") /\ UNCHANGED <<started, result>> /\ RunOneUnchanged
    BY <1>22 DEF SettleCommitted
  <2>1. CASE Acknowledged(i) /\ pc' = [pc EXCEPT ![i] = "ended"] /\ UNCHANGED failed
    BY <2>0, <2>1 DEF Acknowledged, Polled, RunOneUnchanged
  <2>2. CASE Unacknowledged(i) /\ pc' = [pc EXCEPT ![i] = "ended"]
             /\ failed' = [failed EXCEPT ![i] = TRUE]
    BY <2>0, <2>2 DEF Unacknowledged, Polled, RunOneUnchanged
  <2> QED
    BY <1>22, <2>1, <2>2 DEF SettleCommitted
<1>23. CASE UNCHANGED vars
  BY <1>23 DEF vars
<1> QED
  BY <1>1, <1>2, <1>3, <1>4, <1>5, <1>6, <1>7, <1>8, <1>9, <1>10, <1>11, <1>12, <1>13, <1>14, <1>15, <1>16, <1>17, <1>18, <1>19, <1>20, <1>21, <1>22, <1>23 DEF Next, Scheduler, RunOne, Done

\* The reservations are kept by every step.
LEMMA RoomStep == IInv /\ [Next]_vars => Room'
<1> SUFFICES ASSUME IInv, [Next]_vars PROVE Room'
  OBVIOUS
<1> USE NAssumption, BudgetAssumption, FreeIsNoCall
<1> USE DEF IInv, Bookkeeping, Room,
            TypeOK, TypeBatch, TypeCalls, TypeBudget, TypeLock, TypeRevisions, TypeSnapshots, Outcome, Entry, PcValues, Status,
            batchVars, callVars, budgetVars, stateVars, sinkVars, ckptVars, envVars
<1>1. CASE Cancel
  BY <1>1 DEF Cancel, Calls
<1>2. CASE Expire
  BY <1>2 DEF Expire, Calls
<1>3. CASE Land
  BY <1>3 DEF Land, Calls
<1>4. CASE PreflightStop
  BY <1>4 DEF PreflightStop, SkipAll, Calls
<1>5. CASE PreflightReject
  BY <1>5 DEF PreflightReject, Rejected, Fits, Replace, RejectStatus, Calls
<1>6. CASE PreflightOverflow
  BY <1>6 DEF PreflightOverflow, SkipAll, Calls
<1>7. CASE PreflightReady
  BY <1>7 DEF PreflightReady, Rejected, Kind, Calls
<1>8. CASE PreflightDone
  BY <1>8 DEF PreflightDone, Calls
<1>9. CASE BeginGroup
  BY <1>9 DEF BeginGroup, Group, First, Calls
<1>10. CASE StopFilling
  BY <1>10 DEF StopFilling, Calls
<1>11. CASE EndGroup
  BY <1>11 DEF EndGroup, Calls
<1>12. CASE Finish
  BY <1>12 DEF Finish, Calls
<1>13. ASSUME NEW i \in Calls, Dispatch(i) PROVE Room'
  BY <1>13 DEF Dispatch, Fits, Replace, First, Calls
<1>14. ASSUME NEW i \in Calls, Collect(i) PROVE Room'
  BY <1>14 DEF Collect, Fits, Replace, Calls
<1>15. ASSUME NEW i \in Calls, Enter(i) PROVE Room'
  BY <1>15 DEF Enter, Return, Polled, RunOneUnchanged
<1>16. ASSUME NEW i \in Calls, Intent(i) PROVE Room'
  BY <1>16 DEF Intent, AfterIntent, Return, Refused, Oversized, BeginCommit, Update, Polled, RunOneUnchanged
<1>17. ASSUME NEW i \in Calls, IntentCommitted(i) PROVE Room'
  BY <1>17 DEF IntentCommitted, AfterIntent, Return, Acknowledged, Unacknowledged, Polled, RunOneUnchanged
<1>18. ASSUME NEW i \in Calls, Policy(i) PROVE Room'
  BY <1>18 DEF Policy, Withhold, Polled, RunOneUnchanged
<1>19. ASSUME NEW i \in Calls, StartBody(i) PROVE Room'
  BY <1>19 DEF StartBody, Return, Polled, RunOneUnchanged
<1>20. ASSUME NEW i \in Calls, EndBody(i) PROVE Room'
  BY <1>20 DEF EndBody, Withhold, BodyStatus, Polled, RunOneUnchanged
<1>21. ASSUME NEW i \in Calls, Settle(i) PROVE Room'
  BY <1>21 DEF Settle, Refused, Oversized, BeginCommit, Update, Polled, RunOneUnchanged
<1>22. ASSUME NEW i \in Calls, SettleCommitted(i) PROVE Room'
  BY <1>22 DEF SettleCommitted, Acknowledged, Unacknowledged, Polled, RunOneUnchanged
<1>23. CASE UNCHANGED vars
  BY <1>23 DEF vars
<1> QED
  BY <1>1, <1>2, <1>3, <1>4, <1>5, <1>6, <1>7, <1>8, <1>9, <1>10, <1>11, <1>12, <1>13, <1>14, <1>15, <1>16, <1>17, <1>18, <1>19, <1>20, <1>21, <1>22, <1>23 DEF Next, Scheduler, RunOne, Done

\* The order of the groups is kept by every step.
LEMMA GroupOrderStep == IInv /\ [Next]_vars => GroupOrder'
<1> SUFFICES ASSUME IInv, [Next]_vars PROVE GroupOrder'
  OBVIOUS
<1> USE NAssumption, BudgetAssumption, FreeIsNoCall
<1> USE DEF IInv, Bookkeeping, GroupOrder,
            TypeOK, TypeBatch, TypeCalls, TypeBudget, TypeLock, TypeRevisions, TypeSnapshots, Outcome, Entry, PcValues, Status,
            batchVars, callVars, budgetVars, stateVars, sinkVars, ckptVars, envVars
<1>1. CASE Cancel
  BY <1>1 DEF Cancel, Calls
<1>2. CASE Expire
  BY <1>2 DEF Expire, Calls
<1>3. CASE Land
  BY <1>3 DEF Land, Calls
<1>4. CASE PreflightStop
  BY <1>4 DEF PreflightStop, SkipAll, Calls
<1>5. CASE PreflightReject
  BY <1>5 DEF PreflightReject, Rejected, Fits, Replace, RejectStatus, Calls
<1>6. CASE PreflightOverflow
  BY <1>6 DEF PreflightOverflow, SkipAll, Calls
<1>7. CASE PreflightReady
  BY <1>7 DEF PreflightReady, Rejected, Kind, Calls
<1>8. CASE PreflightDone
  BY <1>8 DEF PreflightDone, Calls
<1>9. CASE BeginGroup
  BY <1>9 DEF BeginGroup, Group, First, Calls
<1>10. CASE StopFilling
  BY <1>10 DEF StopFilling, Calls
<1>11. CASE EndGroup
  BY <1>11 DEF EndGroup, Calls
<1>12. CASE Finish
  BY <1>12 DEF Finish, Calls
<1>13. ASSUME NEW i \in Calls, Dispatch(i) PROVE GroupOrder'
  BY <1>13 DEF Dispatch, Fits, Replace, First, Calls
<1>14. ASSUME NEW i \in Calls, Collect(i) PROVE GroupOrder'
  BY <1>14 DEF Collect, Fits, Replace, Calls
<1>15. ASSUME NEW i \in Calls, Enter(i) PROVE GroupOrder'
  BY <1>15 DEF Enter, Return, Polled, RunOneUnchanged
<1>16. ASSUME NEW i \in Calls, Intent(i) PROVE GroupOrder'
  BY <1>16 DEF Intent, AfterIntent, Return, Refused, Oversized, BeginCommit, Update, Polled, RunOneUnchanged
<1>17. ASSUME NEW i \in Calls, IntentCommitted(i) PROVE GroupOrder'
  BY <1>17 DEF IntentCommitted, AfterIntent, Return, Acknowledged, Unacknowledged, Polled, RunOneUnchanged
<1>18. ASSUME NEW i \in Calls, Policy(i) PROVE GroupOrder'
  BY <1>18 DEF Policy, Withhold, Polled, RunOneUnchanged
<1>19. ASSUME NEW i \in Calls, StartBody(i) PROVE GroupOrder'
  BY <1>19 DEF StartBody, Return, Polled, RunOneUnchanged
<1>20. ASSUME NEW i \in Calls, EndBody(i) PROVE GroupOrder'
  BY <1>20 DEF EndBody, Withhold, BodyStatus, Polled, RunOneUnchanged
<1>21. ASSUME NEW i \in Calls, Settle(i) PROVE GroupOrder'
  BY <1>21 DEF Settle, Refused, Oversized, BeginCommit, Update, Polled, RunOneUnchanged
<1>22. ASSUME NEW i \in Calls, SettleCommitted(i) PROVE GroupOrder'
  BY <1>22 DEF SettleCommitted, Acknowledged, Unacknowledged, Polled, RunOneUnchanged
<1>23. CASE UNCHANGED vars
  BY <1>23 DEF vars
<1> QED
  BY <1>1, <1>2, <1>3, <1>4, <1>5, <1>6, <1>7, <1>8, <1>9, <1>10, <1>11, <1>12, <1>13, <1>14, <1>15, <1>16, <1>17, <1>18, <1>19, <1>20, <1>21, <1>22, <1>23 DEF Next, Scheduler, RunOne, Done

\* The inductive invariant holds when a batch begins.
LEMMA InvInit == Init => IInv
<1> SUFFICES ASSUME Init PROVE IInv
  OBVIOUS
<1>1. TypeOK
  BY TypeInit
<1>2. Bookkeeping /\ Progress
  BY NAssumption DEF Init, Bookkeeping, Progress, BeforeBody, Dispatchable, Calls
<1>3. Lock /\ Snapshots
  BY DEF Init, Lock, Snapshots, Committing, PastIntent, Status
<1>4. Revisions
  BY DEF Init, Revisions
<1>5. Room
  BY BudgetAssumption DEF Init, Room
<1>6. GroupOrder
  BY DEF Init, GroupOrder
<1> QED
  BY <1>1, <1>2, <1>3, <1>4, <1>5, <1>6 DEF IInv

\* The inductive invariant holds in every reachable state of a batch.
THEOREM Invariance == Spec => []IInv
<1>1. IInv /\ [Next]_vars => IInv'
  BY TypeStep, BookkeepingStep, ProgressStep, LockStep, RevisionsStep,
     SnapshotsStep, RoomStep, GroupOrderStep DEF IInv
<1> QED
  BY InvInit, <1>1, PTL DEF Spec

\* A crash at any moment leaves a stored snapshot that never hides a dispatch.
THEOREM DurableTruthHolds == Spec => []DurableTruth
<1>1. IInv => DurableTruth
  BY DEF IInv, Snapshots, DurableTruth
<1> QED
  BY Invariance, <1>1, PTL

\* "Denied" and "Skipped" are only ever said of calls whose body was not entered,
\* "Success" and "Unknown" only of calls whose body was.
THEOREM StatusHonestHolds == Spec => []StatusHonest
<1>1. IInv => StatusHonest
  <2> SUFFICES ASSUME IInv, NEW i \in Calls
               PROVE  /\ result[i] \in {"Denied", "Skipped"} => i \notin started
                      /\ result[i] \in {"Success", "Unknown"} => i \in started
                      /\ result[i] = "Error" => (i \in started <=> kind[i] # "invalid")
    BY DEF StatusHonest
  <2>1. CASE pc[i] = "idle"
    BY <2>1 DEF IInv, Progress
  <2>2. CASE pc[i] # "idle"
    BY <2>2 DEF IInv, Progress, Bookkeeping, Dispatchable, BeforeBody,
       TypeOK, TypeCalls, PcValues
  <2> QED
    BY <2>1, <2>2
<1> QED
  BY Invariance, <1>1, PTL

\* An exclusive call never shares the running set, and waits for every earlier call.
THEOREM ExclusiveOrderHolds == Spec => []ExclusiveOrder
<1>1. IInv => ExclusiveOrder
  BY DEF IInv, GroupOrder, ExclusiveOrder
<1> QED
  BY Invariance, <1>1, PTL

\* The result of a dispatched call always fits the run's history.
THEOREM InFlightFitsHolds == Spec => []InFlightFits
<1>1. IInv => InFlightFits
  BY BudgetAssumption DEF IInv, Room, InFlightFits, Fits, TypeOK, TypeBudget, TypeBatch
<1> QED
  BY Invariance, <1>1, PTL

\* last_acknowledged_revision never runs ahead of the storage.
THEOREM AckedIsStoredHolds == Spec => []AckedIsStored
<1>1. IInv => AckedIsStored
  BY DEF IInv, Revisions, AckedIsStored
<1> QED
  BY Invariance, <1>1, PTL

\* When the batch ends, every call has a result and nothing is in flight.
THEOREM AllSettledHolds == Spec => []AllSettled
<1>1. IInv => AllSettled
  <2> SUFFICES ASSUME IInv, phase = "done"
               PROVE  /\ settled = Calls /\ running = {} /\ holder = NoCall
                      /\ \A i \in Calls : result[i] # "none"
    BY DEF AllSettled
  <2>1. settled = Calls /\ running = {}
    BY DEF IInv, Bookkeeping, TypeOK, TypeBatch
  <2>2. holder = NoCall
    BY <2>1 DEF IInv, Bookkeeping, Lock, Committing, TypeOK, TypeLock
  <2>3. \A i \in Calls : result[i] # "none"
    BY <2>1 DEF IInv, Bookkeeping
  <2> QED
    BY <2>1, <2>2, <2>3
<1> QED
  BY Invariance, <1>1, PTL

\* After the first failed acknowledgement no body is entered and no snapshot is made.
THEOREM StopsAtFirstFailureHolds == Spec => StopsAtFirstFailure
<1>1. IInv /\ [Next]_vars =>
        [ckptError => started' = started /\ revision' = revision /\ acked' = acked]_vars
  <2> SUFFICES ASSUME IInv, [Next]_vars, ckptError
               PROVE  started' = started /\ revision' = revision /\ acked' = acked
    OBVIOUS
  <2> USE DEF batchVars, callVars, budgetVars, stateVars, sinkVars, ckptVars, envVars
  <2>1. holder = NoCall
    BY DEF IInv, Lock
  <2>2. CASE Cancel \/ Expire \/ Land
    BY <2>2 DEF Cancel, Expire, Land
  <2>3. CASE Scheduler
    BY <2>3 DEF Scheduler, PreflightStop, PreflightReject, PreflightOverflow, PreflightReady,
       PreflightDone, SkipAll, BeginGroup, StopFilling, EndGroup, Finish, Dispatch, Collect
  <2>4. ASSUME NEW i \in Calls, RunOne(i)
        PROVE  started' = started /\ revision' = revision /\ acked' = acked
    <3>1. holder # i
      BY <2>1, FreeIsNoCall
    <3>2. CASE Enter(i) \/ Policy(i) \/ EndBody(i)
      BY <3>2 DEF Enter, Policy, EndBody
    <3>3. CASE Intent(i) \/ Settle(i)
      BY <3>3 DEF Intent, Settle, Refused, Oversized, BeginCommit
    <3>4. CASE IntentCommitted(i) \/ SettleCommitted(i)
      BY <3>1, <3>4 DEF IntentCommitted, SettleCommitted, Acknowledged, Unacknowledged
    <3>5. CASE StartBody(i)
      BY <3>5 DEF StartBody
    <3> QED
      BY <2>4, <3>2, <3>3, <3>4, <3>5 DEF RunOne
  <2>5. CASE UNCHANGED vars
    BY <2>5 DEF vars
  <2> QED
    BY <2>2, <2>3, <2>4, <2>5 DEF Next, Done
<1> QED
  BY Invariance, <1>1, PTL DEF Spec, StopsAtFirstFailure

\* No more calls are in flight than max_parallel_tools, and no body outside them.
THEOREM BoundedParallelismHolds == Spec => []BoundedParallelism
<1> DEFINE Bound == Cardinality(running) <= MaxParallel
<1>1. Init => Bound
  BY FS_EmptySet, ParallelAssumption DEF Init
<1>2. IInv /\ Bound /\ [Next]_vars => Bound'
  <2> SUFFICES ASSUME IInv, Bound, [Next]_vars PROVE Bound'
    OBVIOUS
  <2> USE DEF batchVars, callVars, budgetVars, stateVars, sinkVars, ckptVars, envVars
  <2>1. IsFiniteSet(running)
    <3>1. IsFiniteSet(Calls)
      BY FS_Interval, NAssumption DEF Calls
    <3>2. running \subseteq Calls
      BY DEF IInv, TypeOK, TypeBatch
    <3> QED
      BY <3>1, <3>2, FS_Subset
  <2>2. Cardinality(running) \in Nat
    BY <2>1, FS_CardinalityType
  <2>3. ASSUME NEW i \in Calls, Dispatch(i) PROVE Bound'
    <3>1. running' = running \union {i} /\ Cardinality(running) < MaxParallel
      BY <2>3 DEF Dispatch, CanDispatch
    <3>2. Cardinality(running \union {i}) \in {Cardinality(running), Cardinality(running) + 1}
      BY <2>1, FS_AddElement
    <3> QED
      BY <2>2, <3>1, <3>2, ParallelAssumption
  <2>4. ASSUME NEW i \in Calls, Collect(i) PROVE Bound'
    <3>1. running' = running \ {i}
      BY <2>4 DEF Collect
    <3>2. Cardinality(running \ {i}) \in {Cardinality(running), Cardinality(running) - 1}
      BY <2>1, FS_RemoveElement
    <3> QED
      BY <2>2, <3>1, <3>2, ParallelAssumption
  <2>5. CASE UNCHANGED running
    BY <2>5
  <2>6. ASSUME NEW i \in Calls, RunOne(i) PROVE UNCHANGED running
    BY <2>6 DEF RunOne, Enter, Intent, IntentCommitted, Policy, StartBody, EndBody, Settle,
       SettleCommitted, RunOneUnchanged
  <2>7. CASE Cancel \/ Expire \/ Land \/ UNCHANGED vars
    BY <2>7, <2>5 DEF Cancel, Expire, Land, vars
  <2>8. CASE Scheduler /\ ~\E i \in Calls : Dispatch(i) \/ Collect(i)
    BY <2>5, <2>8 DEF Scheduler, PreflightStop, PreflightReject, PreflightOverflow,
       PreflightReady, PreflightDone, SkipAll, BeginGroup, StopFilling, EndGroup, Finish
  <2> QED
    BY <2>3, <2>4, <2>5, <2>6, <2>7, <2>8 DEF Next, Done, Scheduler
<1>3. IInv /\ Bound => BoundedParallelism
  BY DEF IInv, Bookkeeping, BoundedParallelism
<1> QED
  BY Invariance, <1>1, <1>2, <1>3, PTL DEF Spec

-----------------------------------------------------------------------------
(* Refinement: the batch implements ToolContract.                          *)

Closed == [i \in Calls |-> IF phase # "preflight" /\ i \in settled THEN result[i] ELSE "open"]

\* What a step must do to be a step of the contract: enter one open call, or close
\* open calls truthfully, or neither.
LEMMA ContractStep == IInv /\ IInv' /\ [Next]_vars => [Contract!Next]_(Contract!vars)
<1> SUFFICES ASSUME IInv, IInv', [Next]_vars PROVE [Contract!Next]_(Contract!vars)
  OBVIOUS
<1> USE DEF batchVars, callVars, budgetVars, stateVars, sinkVars, ckptVars, envVars
<1>1. ASSUME started' = started,
             \A i \in Calls : Closed[i] # "open" => Closed'[i] = Closed[i]
      PROVE  [Contract!Next]_(Contract!vars)
  <2>1. Closed' \in [Calls -> Contract!NotRun \union Contract!Run \union {"open"}]
    BY DEF Closed, Contract!NotRun, Contract!Run, IInv, TypeOK, TypeCalls, Outcome, Status, Bookkeeping
  <2>2. ASSUME NEW i \in Calls, Closed'[i] # Closed[i]
        PROVE  Closed[i] = "open" /\ Closed'[i] \in IF i \in started THEN Contract!Run ELSE Contract!NotRun
    <3>1. Closed[i] = "open" /\ Closed'[i] = result'[i] /\ result'[i] # "none"
      BY <1>1, <2>2 DEF Closed, IInv, Bookkeeping
    <3>2. CASE pc'[i] = "idle"
      BY <1>1, <3>1, <3>2 DEF IInv, Progress, Contract!Run, Contract!NotRun
    <3>3. CASE pc'[i] # "idle"
      BY <1>1, <3>1, <3>3 DEF IInv, Progress, BeforeBody, TypeOK, TypeCalls, PcValues,
         Contract!Run, Contract!NotRun
    <3> QED
      BY <3>2, <3>3
  <2>3. Contract!Close
    BY <1>1, <2>1, <2>2 DEF Contract!Close, Closed
  <2> QED
    BY <2>3 DEF Contract!Next
<1>2. CASE Cancel \/ Expire \/ Land
  BY <1>1, <1>2 DEF Cancel, Expire, Land, Closed
<1>3. CASE PreflightStop \/ PreflightOverflow
  BY <1>1, <1>3 DEF PreflightStop, PreflightOverflow, SkipAll, Closed
<1>4. CASE PreflightReject \/ PreflightReady \/ PreflightDone
  BY <1>1, <1>4 DEF PreflightReject, PreflightReady, PreflightDone, Closed
<1>5. CASE BeginGroup \/ StopFilling
  BY <1>1, <1>5 DEF BeginGroup, StopFilling, Closed
<1>6. CASE EndGroup \/ Finish
  BY <1>1, <1>6 DEF EndGroup, Finish, Closed, IInv, Bookkeeping, TypeOK, TypeCalls
<1>7. ASSUME NEW i \in Calls, Dispatch(i) \/ Collect(i) PROVE [Contract!Next]_(Contract!vars)
  BY <1>1, <1>7 DEF Dispatch, Collect, Closed
<1>8. ASSUME NEW i \in Calls, RunOne(i), started' = started PROVE [Contract!Next]_(Contract!vars)
  <2>1. i \notin settled /\ UNCHANGED <<phase, settled>>
    BY <1>8 DEF RunOne, Enter, Intent, IntentCommitted, Policy, StartBody, EndBody, Settle,
       SettleCommitted, Polled, RunOneUnchanged, IInv, Bookkeeping
  <2>2. \A j \in Calls : j # i => result'[j] = result[j]
    BY <1>8 DEF RunOne, Enter, Intent, IntentCommitted, Policy, StartBody, EndBody, Settle,
       SettleCommitted, AfterIntent, Return, Withhold, IInv, TypeOK, TypeCalls
  <2> QED
    BY <1>1, <1>8, <2>1, <2>2 DEF Closed
<1>9. ASSUME NEW i \in Calls, RunOne(i), started' # started PROVE [Contract!Next]_(Contract!vars)
  <2>1. StartBody(i) /\ started' = started \union {i}
    BY <1>9 DEF RunOne, Enter, Intent, IntentCommitted, Policy, StartBody, EndBody, Settle, SettleCommitted
  <2>2. i \notin started /\ i \notin settled
    BY <2>1 DEF StartBody, Polled, IInv, Progress, Bookkeeping, BeforeBody
  <2>3. UNCHANGED <<phase, settled, result>>
    BY <1>9, <2>1 DEF StartBody, RunOneUnchanged, Return
  <2>4. Contract!Enter(i)
    BY <2>1, <2>2, <2>3 DEF Contract!Enter
  <2> QED
    BY <2>4 DEF Contract!Next
<1>10. CASE UNCHANGED vars
  BY <1>1, <1>10 DEF vars, Closed
<1> QED
  BY <1>2, <1>3, <1>4, <1>5, <1>6, <1>7, <1>8, <1>9, <1>10 DEF Next, Scheduler, Done

\* Every behaviour of the batch is a behaviour of the contract: a call is entered at
\* most once, closed exactly once, and closed with a status that tells the truth.
THEOREM Refinement == Spec => ContractHolds
<1>1. Init => Contract!Init
  BY DEF Init, Contract!Init
<1> QED
  BY Invariance, <1>1, ContractStep, PTL DEF Spec, Contract!Spec, ContractHolds

\* How a batch may run its calls: exclusive ones alone and in order, none whose result
\* could not be kept, and no new effect after a failed commit.
THEOREM BatchDisciplineHolds == Spec => BatchDiscipline
BY ExclusiveOrderHolds, InFlightFitsHolds, StopsAtFirstFailureHolds, PTL DEF BatchDiscipline

=============================================================================
