--------------------------------- MODULE Run ---------------------------------
(***************************************************************************)
(* One run from its first step to its report: Execution::drive, the        *)
(* steering queue (steer, apply_inputs), the checkpoint phases around      *)
(* every step, and the terminal sequence of the spawned task               *)
(* (packages/runtime/src/engine.rs, checkpoint.rs, history.rs).            *)
(*                                                                         *)
(* A step is the code between two awaits.  A tool batch is one step that   *)
(* relies on what ToolBatch shows of it: a result for every call within    *)
(* the reserved bytes.  Sizes are in units of the smallest record.         *)
(***************************************************************************)
EXTENDS Integers, Sequences, FiniteSets, SequencesExt

CONSTANTS
    MaxSteps,      \* limits.max_steps
    Inputs,        \* identities of the inputs callers steer with
    QueueCap,      \* capacity of the command channel (32 in the code)
    CallIds,       \* tool-call ids the model may use, and may use again
    HistoryLimit   \* limits.max_history_bytes less the initial history

ASSUME StepAssumption == MaxSteps \in Nat \ {0}
ASSUME CallIdsAssumption == IsFiniteSet(CallIds)
ASSUME QueueAssumption == QueueCap \in Nat \ {0}
ASSUME HistoryAssumption == HistoryLimit \in Nat

VARIABLES
    configured,   \* a checkpoint sink is registered
    toolsOn,      \* request.enable_tools
    pc, step,
    transcript,   \* what the run has added to its initial history
    bytes,        \* History.bytes beyond the initial history
    queue,        \* the command channel
    open,         \* the receiving end accepts commands
    taken,        \* commands drained and not answered
    final,        \* apply_inputs runs after an answer, not at the loop's top
    recovered,    \* this step has used its context recovery
    error,        \* what drive returned: "none", or the kind of its error
    fatal,        \* the batch's error, "none" if it has none
    status,       \* RunStatus of the outcome, "none" before
    accepted,     \* the inputs the channel took, in order
    ack,          \* what each caller of steer was told
    cancelled, stopped,          \* the run's token; task.check() fails
    current,      \* snapshot in memory
    limbo,        \* it was handed to the sink and is not stored yet
    durable,      \* the snapshot the sink has stored
    ckptError     \* CheckpointStatus.error, sticky

flow == <<pc, step, final, recovered, error, fatal, status>>
history == <<transcript, bytes>>
steering == <<queue, open, taken, accepted, ack>>
env == <<cancelled, stopped>>
ckpt == <<current, limbo, durable, ckptError>>
vars == <<configured, toolsOn, flow, history, steering, env, ckpt>>

Input(i) == [role |-> "user", input |-> i]
Reply(calls) == [role |-> "assistant", calls |-> calls]
Result(c, s) == [role |-> "tool", call |-> c, status |-> s]

Replies(t) == {k \in DOMAIN t : t[k].role = "assistant"}
Called(t) == UNION {t[k].calls : k \in Replies(t)}
SettledIn(t) == {t[k].call : k \in {j \in DOMAIN t : t[j].role = "tool"}}
Unsettled == Called(transcript) \ SettledIn(transcript)
\* One Tool message per call; the calls of a batch keep one fixed order.
Results(of) == LET s == SetToSeq(DOMAIN of) IN [k \in DOMAIN s |-> Result(s[k], of[s[k]])]
Uniform(calls, s) == [c \in calls |-> s]

Init ==
    /\ configured \in BOOLEAN /\ toolsOn \in BOOLEAN
    /\ pc = "loop" /\ step = 0 /\ final = FALSE /\ recovered = FALSE
    /\ error = "none" /\ fatal = "none" /\ status = "none"
    /\ transcript = <<>> /\ bytes = 0
    /\ queue = <<>> /\ open = TRUE /\ taken = <<>> /\ accepted = <<>>
    /\ ack = [i \in Inputs |-> "unsent"]
    /\ cancelled = FALSE /\ stopped = FALSE
    /\ current = [phase |-> "none", transcript |-> <<>>, status |-> "none"]
    /\ durable = current /\ limbo = FALSE /\ ckptError = FALSE

-----------------------------------------------------------------------------
(* Other threads: callers of steer and cancel, the clock, the storage.     *)

Steer(i) ==
    /\ ack[i] = "unsent"
    /\ \/ /\ ~open
          /\ ack' = [ack EXCEPT ![i] = "closed"]
          /\ UNCHANGED <<queue, accepted>>
       \/ /\ open /\ Len(queue) = QueueCap
          /\ ack' = [ack EXCEPT ![i] = "full"]
          /\ UNCHANGED <<queue, accepted>>
       \/ /\ open /\ Len(queue) < QueueCap
          /\ ack' = [ack EXCEPT ![i] = "waiting"]
          /\ queue' = Append(queue, i)
          /\ accepted' = Append(accepted, i)
    /\ UNCHANGED <<configured, toolsOn, flow, history, open, taken, env, ckpt>>

Cancel ==
    /\ ~cancelled
    /\ cancelled' = TRUE
    /\ UNCHANGED <<configured, toolsOn, flow, history, steering, stopped, ckpt>>
Expire ==
    /\ ~stopped
    /\ stopped' = TRUE
    /\ UNCHANGED <<configured, toolsOn, flow, history, steering, cancelled, ckpt>>
Land ==
    /\ limbo
    /\ limbo' = FALSE /\ durable' = current
    /\ UNCHANGED <<configured, toolsOn, flow, history, steering, env, current, ckptError>>

-----------------------------------------------------------------------------
(* Checkpoints::write, for the one writer drive is outside a batch.        *)

\* The snapshot is handed to the sink unless there is none or an earlier commit failed.
Write(phase, t, s) ==
    /\ UNCHANGED <<durable, ckptError>>
    /\ IF configured /\ ~ckptError
       THEN current' = [phase |-> phase, transcript |-> t, status |-> s] /\ limbo' = TRUE
       ELSE UNCHANGED <<current, limbo>>

\* Mutant: a write counts as acknowledged once the sink has it in hand.
SavedEarly == (configured => ~ckptError) /\ UNCHANGED ckpt

\* Acknowledged; without a sink every write succeeds at once.
Saved == (configured => ~limbo /\ ~ckptError) /\ UNCHANGED ckpt

\* Refused after an earlier failure, too large, or not acknowledged in time; what is
\* in limbo may still land.
NotSaved ==
    /\ configured
    /\ ckptError' = TRUE
    /\ UNCHANGED <<current, limbo, durable>>

-----------------------------------------------------------------------------
(* Execution::drive                                                        *)

\* drive returns the error; what happens next is up to the spawned task.
Fail(e) ==
    /\ error' = e
    /\ pc' = "ended"
    /\ UNCHANGED <<step, final, recovered, fatal, status>>
Goto(l) ==
    /\ pc' = l
    /\ UNCHANGED <<step, final, recovered, error, fatal, status>>

\* The tail of the run when nothing else changes.
Quiet == UNCHANGED <<configured, toolsOn, env>>

StopError == IF stopped THEN "stopped" ELSE "cancelled"

LoopTop ==
    /\ pc = "loop"
    /\ IF step = MaxSteps THEN Fail("limit")
       ELSE IF stopped \/ cancelled THEN Fail(StopError)
       ELSE /\ step' = step + 1 /\ recovered' = FALSE /\ final' = FALSE
            /\ pc' = "inputs"
            /\ UNCHANGED <<error, fatal, status>>
    /\ Quiet /\ UNCHANGED <<history, steering, ckpt>>

Answer(S, a) == [i \in Inputs |-> IF i \in S THEN a ELSE ack[i]]
Additions(s) == [k \in DOMAIN s |-> Input(s[k])]

\* apply_inputs up to its commit: drain the channel (at most QueueCap commands are in
\* it), admit the bytes, hand over the InputApplied snapshot.
NoInputs ==
    /\ pc = "inputs" /\ queue = <<>>
    /\ IF final THEN Goto("ended") ELSE Goto("room")
    /\ Quiet /\ UNCHANGED <<history, steering, ckpt>>
InputsTooLarge ==
    /\ pc = "inputs" /\ queue # <<>> /\ bytes + Len(queue) > HistoryLimit
    /\ ack' = Answer(ToSet(queue), "failed")
    /\ queue' = <<>>
    /\ Fail("limit")
    /\ Quiet /\ UNCHANGED <<history, open, taken, accepted, ckpt>>
TakeInputs ==
    /\ pc = "inputs" /\ queue # <<>> /\ bytes + Len(queue) <= HistoryLimit
    /\ taken' = queue /\ queue' = <<>>
    /\ Write("InputApplied", transcript \o Additions(queue), "none")
    /\ Goto("input")
    /\ Quiet /\ UNCHANGED <<history, open, accepted, ack>>

InputSaved ==
    /\ pc = "input" /\ Saved
    /\ transcript' = transcript \o Additions(taken)
    /\ bytes' = bytes + Len(taken)
    /\ ack' = Answer(ToSet(taken), "ok") /\ taken' = <<>>
    /\ IF final THEN Goto("loop") ELSE Goto("room")
    /\ Quiet /\ UNCHANGED <<queue, open, accepted>>
InputNotSaved ==
    /\ pc = "input" /\ NotSaved
    /\ ack' = Answer(ToSet(taken), "failed") /\ taken' = <<>>
    /\ Fail("checkpoint")
    /\ Quiet /\ UNCHANGED <<history, queue, open, accepted>>

\* check_model_room, then tool selection and the context projection, which may fail,
\* time out or be cancelled.
Room ==
    /\ pc = "room"
    /\ IF bytes + 1 > HistoryLimit THEN Fail("limit") ELSE Goto("project")
    /\ Quiet /\ UNCHANGED <<history, steering, ckpt>>
ProjectFails ==
    /\ pc \in {"project", "recover"}
    /\ Fail("hook")
    /\ Quiet /\ UNCHANGED <<history, steering, ckpt>>
\* Also recover_projection, when a transform found a smaller projection.
Project ==
    /\ pc \in {"project", "recover"}
    /\ Write("BeforeModel", transcript, "none")
    /\ Goto("before")
    /\ Quiet /\ UNCHANGED <<history, steering>>

BeforeSaved ==
    /\ pc = "before" /\ Saved
    /\ Goto("model")
    /\ Quiet /\ UNCHANGED <<history, steering>>
BeforeNotSaved ==
    /\ pc = "before" /\ NotSaved
    /\ Fail("checkpoint")
    /\ Quiet /\ UNCHANGED <<history, steering>>

\* complete_primary failed; a context-window error before any output is retried once
\* with a recovered projection.
ModelFails ==
    /\ pc = "model"
    /\ \/ Fail("model")
       \/ /\ ~recovered
          /\ recovered' = TRUE /\ pc' = "recover"
          /\ UNCHANGED <<step, final, error, fatal, status>>
    /\ Quiet /\ UNCHANGED <<history, steering, ckpt>>

\* admit_reply: the reply and a fallback record per call must fit together.
Admits(calls) == bytes + 1 + Cardinality(calls) <= HistoryLimit

Acceptable(calls) ==
    /\ toolsOn \/ calls = {}
    /\ calls \cap Called(transcript) = {}

ModelReplies(calls) ==
    /\ pc = "model"
    /\ \/ /\ ~Acceptable(calls)
          /\ Fail("protocol")
          /\ UNCHANGED <<history, ckpt>>
       \/ /\ Acceptable(calls) /\ ~Admits(calls)
          /\ Fail("limit")
          /\ UNCHANGED <<history, ckpt>>
       \/ /\ Acceptable(calls) /\ Admits(calls)
          /\ transcript' = Append(transcript, Reply(calls))
          /\ bytes' = bytes + 1
          /\ Write("AfterModel", transcript', "none")
          /\ Goto("after")
    /\ Quiet /\ UNCHANGED steering

\* The calls of the reply that was just admitted, and History::extend with a result for
\* each: what does not fit is refused whole (RepairFits: it always fits).
Pending == Last(transcript).calls
Settle(of) ==
    IF bytes + Cardinality(DOMAIN of) <= HistoryLimit
    THEN /\ transcript' = transcript \o Results(of)
         /\ bytes' = bytes + Cardinality(DOMAIN of)
    ELSE UNCHANGED history

AfterSaved ==
    /\ pc = "after" /\ Saved
    /\ \/ /\ stopped \/ cancelled
          /\ Settle(Uniform(Pending, "Skipped"))
          /\ Fail(StopError)
       \/ /\ ~stopped /\ ~cancelled
          /\ IF Pending = {}
             THEN /\ final' = TRUE /\ pc' = "inputs"
                  /\ UNCHANGED <<step, recovered, error, fatal, status>>
             ELSE Goto("batch")
          /\ UNCHANGED history
    /\ Quiet /\ UNCHANGED steering
AfterNotSaved ==
    /\ pc = "after" /\ NotSaved
    /\ Settle(Uniform(Pending, "Skipped"))
    /\ Fail("checkpoint")
    /\ Quiet /\ UNCHANGED steering

\* execute_batch, its results appended, the AfterTools snapshot handed over.  A batch
\* that failed a ToolIntent or ToolSettled commit leaves the sticky error behind.
BatchEnds ==
    /\ pc = "batch"
    /\ \E of \in [Pending -> {"Success", "Unknown"}] :
          /\ transcript' = transcript \o Results(of)
          /\ bytes' \in (bytes + Cardinality(Pending))..HistoryLimit
    /\ \/ /\ fatal' \in {"none", "batch"}
          /\ Write("AfterTools", transcript', "none")
       \/ /\ configured
          /\ fatal' = "checkpoint" /\ ckptError' = TRUE
          /\ UNCHANGED <<current, limbo, durable>>
    /\ pc' = "tools"
    /\ UNCHANGED <<step, final, recovered, error, status>>
    /\ Quiet /\ UNCHANGED steering
ToolsSaved ==
    /\ pc = "tools" /\ Saved
    /\ IF fatal # "none" THEN Fail(fatal) ELSE Goto("loop")
    /\ Quiet /\ UNCHANGED <<history, steering>>
ToolsNotSaved ==
    /\ pc = "tools" /\ NotSaved
    /\ Fail(IF fatal # "none" THEN fatal ELSE "checkpoint")
    /\ Quiet /\ UNCHANGED <<history, steering>>

\* A panic in code the driver calls outside `bounded` unwinds through drive.
DriverPanics ==
    /\ pc \in {"project", "recover", "model", "batch"}
    /\ Fail("panic")
    /\ Quiet /\ UNCHANGED <<history, steering, ckpt>>

-----------------------------------------------------------------------------
(* The terminal sequence of the spawned task                               *)

FromError(e) ==
    CASE e = "none" -> "Completed" [] e = "cancelled" -> "Cancelled"
      [] e = "stopped" -> "TimedOut" [] e = "limit" -> "Limited" [] OTHER -> "Failed"

\* Cancel the token, close the channel, repair_unsettled.  A repair that did not fit
\* would fail the outcome.
Ended ==
    /\ pc = "ended"
    /\ cancelled' = TRUE /\ open' = FALSE
    /\ Settle(Uniform(Unsettled, "Unknown"))
    /\ status' = IF error = "none" /\ bytes + Cardinality(Unsettled) > HistoryLimit
                 THEN "Limited" ELSE FromError(error)
    /\ pc' = "transforms"
    /\ UNCHANGED <<step, final, recovered, error, fatal>>
    /\ UNCHANGED <<configured, toolsOn, queue, taken, accepted, ack, stopped, ckpt>>

\* finish_transforms: a cleanup error turns Completed into Failed; then RunFinished.
TransformsFinished ==
    /\ pc = "transforms"
    /\ status' \in {status, IF status = "Completed" THEN "Failed" ELSE status}
    /\ Write("RunFinished", transcript, status')
    /\ pc' = "finish"
    /\ UNCHANGED <<step, final, recovered, error, fatal>>
    /\ Quiet /\ UNCHANGED <<history, steering>>

\* The report and the terminal event are published with the status that is known now.
FinishSaved ==
    /\ pc = "finish" /\ Saved
    /\ Goto("reported")
    /\ Quiet /\ UNCHANGED <<history, steering>>
FinishNotSaved ==
    /\ pc = "finish" /\ NotSaved
    /\ status' = (IF status = "Completed" THEN "Failed" ELSE status)
    /\ pc' = "reported"
    /\ UNCHANGED <<step, final, recovered, error, fatal>>
    /\ Quiet /\ UNCHANGED <<history, steering>>

\* Mutant: the commands outlive the task.
TaskEndsLeaking ==
    /\ pc = "reported"
    /\ Goto("gone")
    /\ Quiet /\ UNCHANGED <<history, steering, ckpt>>

\* Observers joined: the task ends and the channel is dropped with what is in it.
TaskEnds ==
    /\ pc = "reported"
    /\ ack' = Answer(ToSet(queue), "closed") /\ queue' = <<>>
    /\ Goto("gone")
    /\ Quiet /\ UNCHANGED <<history, open, taken, accepted, ckpt>>

Gone == pc = "gone" /\ UNCHANGED vars

-----------------------------------------------------------------------------
Drive ==
    \/ LoopTop \/ NoInputs \/ InputsTooLarge \/ TakeInputs \/ InputSaved \/ InputNotSaved
    \/ Room \/ Project \/ ProjectFails \/ BeforeSaved \/ BeforeNotSaved
    \/ ModelFails \/ (\E calls \in SUBSET CallIds : ModelReplies(calls))
    \/ AfterSaved \/ AfterNotSaved \/ BatchEnds \/ ToolsSaved \/ ToolsNotSaved
Terminate ==
    Ended \/ TransformsFinished \/ FinishSaved \/ FinishNotSaved \/ TaskEnds
Next ==
    \/ Drive \/ DriverPanics \/ Terminate \/ Gone
    \/ Cancel \/ Expire \/ Land \/ (\E i \in Inputs : Steer(i))

Spec == Init /\ [][Next]_vars

\* Every await of the task is bounded by a timeout, the deadline or the cancellation
\* grace, so the task always moves on; nothing is assumed of callers or of the storage.
FairSpec == Spec /\ WF_vars(Drive \/ Terminate)

-----------------------------------------------------------------------------
Message ==
    [role : {"user"}, input : Inputs] \union [role : {"assistant"}, calls : SUBSET CallIds]
      \union [role : {"tool"}, call : CallIds, status : {"Success", "Skipped", "Unknown"}]
Statuses == {"none", "Completed", "Failed", "Cancelled", "TimedOut", "Limited"}
Snapshot == [phase : {"none", "InputApplied", "BeforeModel", "AfterModel", "AfterTools",
                      "RunFinished"},
             transcript : Seq(Message), status : Statuses]

\* Every variable holds a value of its type; the history never exceeds its limit.
TypeOK ==
    /\ transcript \in Seq(Message) /\ bytes \in 0..HistoryLimit
    /\ pc \in {"loop", "inputs", "input", "room", "project", "recover", "before", "model",
               "after", "batch", "tools", "ended", "transforms", "finish", "reported", "gone"}
    /\ step \in 0..MaxSteps /\ status \in Statuses
    /\ queue \in Seq(Inputs) /\ Len(queue) <= QueueCap /\ taken \in Seq(Inputs)
    /\ ack \in [Inputs -> {"unsent", "waiting", "ok", "failed", "closed", "full"}]
    /\ current \in Snapshot /\ durable \in Snapshot
    /\ <<configured, toolsOn, final, recovered, open, cancelled, stopped, limbo, ckptError>>
         \in BOOLEAN \X BOOLEAN \X BOOLEAN \X BOOLEAN \X BOOLEAN \X BOOLEAN \X BOOLEAN
             \X BOOLEAN \X BOOLEAN

\* An acknowledged input is in the history, once, and an input refused, failed or left
\* over is not (apply_inputs: "rejected input is never ACKed"); inputs are there in the
\* order the channel took them, none overtaken or left out, across both places that
\* drain it.
AckHonest ==
    /\ \A i \in Inputs :
        Cardinality({k \in DOMAIN transcript : transcript[k] = Input(i)})
          = IF ack[i] = "ok" THEN 1 ELSE 0
    /\ \A k \in DOMAIN transcript : transcript[k].role = "user" =>
        \E p \in DOMAIN accepted :
            /\ transcript[k] = Input(accepted[p])
            /\ \A q \in 1..(p - 1) : \E j \in 1..(k - 1) : transcript[j] = Input(accepted[q])

\* validate_messages: a reply's calls are answered, once each, before anything else.
ClosedBy(t, k) ==
    LET n == Cardinality(t[k].calls) IN
    /\ k + n <= Len(t)
    /\ {t[j] : j \in (k + 1)..(k + n)} \subseteq
          [role : {"tool"}, call : t[k].calls, status : {"Success", "Skipped", "Unknown"}]
    /\ {t[j].call : j \in (k + 1)..(k + n)} = t[k].calls
Valid(t) == \A k \in Replies(t) : ClosedBy(t, k)

\* The model never sees, and no report or terminal snapshot contains, a history with an
\* open tool pair, whatever path ended the step; and room for closing every pair was
\* reserved when the reply was admitted, so repair_unsettled never overflows the history.
HistoryClosed ==
    /\ pc \in {"loop", "inputs", "input", "room", "project", "recover", "before", "model",
               "tools", "transforms", "finish", "reported", "gone"} => Valid(transcript)
    /\ pc = "ended" => bytes + Cardinality(Unsettled) <= HistoryLimit

\* No model request is sent and no tool dispatched before the sink has stored the history
\* it rests on (before_model, after_model, also after a context recovery).
StoredBeforeActing ==
    configured /\ pc \in {"model", "batch"} =>
        /\ durable.transcript = transcript
        /\ durable.phase = IF pc = "model" THEN "BeforeModel" ELSE "AfterModel"

\* A run reported Completed has its terminal snapshot, with that status and history, in
\* the sink.
CompletedIsStored ==
    configured /\ pc \in {"reported", "gone"} /\ status = "Completed" =>
        durable = [phase |-> "RunFinished", transcript |-> transcript, status |-> "Completed"]

\* Every caller of steer gets an answer.
SteerAnswered == \A i \in Inputs : ack[i] = "waiting" ~> ack[i] # "waiting"

\* Every run ends with a report and releases what it holds.
RunEnds == <>(pc = "gone")

\* What the run has told others is true of its history and of its stored snapshots:
\* inputs it acknowledged, model calls it made, tool pairs it closed, its success.
HistoryHonest == AckHonest /\ HistoryClosed /\ StoredBeforeActing /\ CompletedIsStored

\* Under the fairness above a run ends and every steering caller is answered.
RunSettles == RunEnds /\ SteerAnswered
=============================================================================
