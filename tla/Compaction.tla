----------------------------- MODULE Compaction -----------------------------
(***************************************************************************)
(* Context compaction: packages/compaction, with the session's use of its  *)
(* state between runs (sessions/src/context.rs).                           *)
(*                                                                         *)
(* The transcript is a sequence of settled groups.  A group keeps its kind,*)
(* its size in the serialized request, and the set of source groups it     *)
(* stands for: itself, or all a handoff summarizes.  Byte and token        *)
(* pressure are one number, the stricter of the two.  A model that         *)
(* summarizes is taken to merge what it was shown; its reply may have any  *)
(* size, or be no valid handoff.                                           *)
(***************************************************************************)
EXTENDS Integers, Sequences, SequencesExt, FiniteSetsExt

CONSTANTS
    Shapes,           \* kind and serialized size of the groups a run adds
    Trigger, Target,  \* trigger_percent and target_percent of the request budget
    Margin,           \* the 256 bytes kept for a summary when the tail is chosen
    MinBudget,        \* the 160 bytes below which no summary is asked for
    MaxSummary,       \* max_summary_bytes
    RecentGroups,     \* recent_groups
    MaxSummaryCalls,  \* max_summary_calls
    SummaryFit,       \* size of the groups one summary request holds
    MaxGroups,        \* bound on the groups of one conversation
    MaxRuns           \* bound on the runs of one conversation

VARIABLES
    groups,    \* the run's transcript, as the transform is given it
    summaries, \* Compactor::cache for this run: None or one CachedSummary
    job,       \* the compaction in progress, or NoJob
    sent,      \* the projection last handed to the engine
    saved,     \* the session's working history and CompactionState
    fresh,     \* ids handed to groups so far
    runs,      \* runs started
    halt       \* the run has stopped

vars == <<groups, summaries, job, sent, saved, fresh, runs, halt>>

None == [at |-> {}, text |-> [covers |-> {}, size |-> 0], prints |-> <<>>]
NoJob == [state |-> "none"]

\* A new group stands for itself.  A step is an assistant message with its tool results.
Group(shape, id) == [kind |-> shape.kind, size |-> shape.size, covers |-> {id}]
System == [kind |-> "system", size |-> 1, covers |-> {}]

\* The sum of the first numbers, for each number of them.
Sums(ns) ==
    LET sum[n \in 0 .. Len(ns)] == IF n = 0 THEN 0 ELSE sum[n - 1] + ns[n]
    IN sum

Total(gs) == Sums([i \in DOMAIN gs |-> gs[i].size])[Len(gs)]
CoveredAt(gs, part) == UNION {gs[i].covers : i \in part}
Covered(gs) == CoveredAt(gs, DOMAIN gs)

\* Media, private replay data and foreign resources stay; so does a system message.
SafeToSummarize(g) == g.kind \in {"user", "step"}

LatestUser(gs) == Max({0} \cup {i \in DOMAIN gs : gs[i].kind = "user"})

\* The groups outside a part, and a replacement where the part begins.
Replaced(gs, part, by) ==
    LET piece(n) == IF n \notin part THEN <<gs[n]>> ELSE IF \A i \in part : n <= i THEN by ELSE <<>>
        kept[n \in 0 .. Len(gs)] == IF n = 0 THEN <<>> ELSE kept[n - 1] \o piece(n)
    IN kept[Len(gs)]

\* The selected groups give way to one user message where the first of them stood.
Project(gs, selected, text) ==
    Replaced(gs, selected, <<[kind |-> "user", size |-> 1 + text.size, covers |-> text.covers]>>)

-----------------------------------------------------------------------------
(* Choosing what to summarize *)

\* A cached summary holds while the groups it replaced are where they were.
ValidCache(gs) ==
    IF \A i \in summaries.at : i \in DOMAIN gs /\ gs[i] = summaries.prints[i] THEN summaries ELSE None

Eligible(gs, cached, retain) ==
    cached.at \cup {i \in DOMAIN gs : /\ i <= Len(gs) - retain /\ i # LatestUser(gs)
                                   /\ SafeToSummarize(gs[i])}

\* The largest tail, up to recent_groups, that makes room for a summary; else one group.
Retain(gs, cached, force) ==
    LET minimum(r) == Total(Project(gs, Eligible(gs, cached, r), None.text))
        room(r) == /\ force => Eligible(gs, cached, r) # cached.at
                   /\ Eligible(gs, cached, r) # {}
                   /\ minimum(r) + Margin <= Target
    IN  Max({r \in 1 .. Max({1, Min({RecentGroups, Len(gs)})}) : r = 1 \/ room(r)})

\* The outcome of the part of compact before the first model call: the projection as it is,
\* an error, or a job.
Plan(gs, cached, force) ==
    LET current == IF cached = None THEN gs ELSE Project(gs, cached.at, cached.text)
        before == Total(current)
        selected == Eligible(gs, cached, Retain(gs, cached, force))
        new == selected \ cached.at
        minimum == Total(Project(gs, selected, None.text))
        ceiling == IF force THEN Min({Trigger - 1, before - 1}) ELSE Trigger - 1
        target == Min({Max({Target, minimum + Margin}), ceiling})
        budget == Min({target - minimum, MaxSummary})
        \* Nothing new to summarize: the old summary may be shortened once.
        shorter == IF force /\ new = {} THEN Min({budget, cached.text.size \div 2}) ELSE budget
    IN  IF (~force /\ before < Trigger) \/ (force /\ new = {} /\ cached = None)
        THEN [state |-> "unchanged", result |-> current]
        ELSE IF selected = {} \/ budget < MinBudget
        THEN [state |-> "error"]
        ELSE IF force /\ new = {} /\ shorter = 0
        THEN [state |-> "unchanged", result |-> current]
        ELSE [state |-> "summarize", cached |-> cached, selected |-> selected, rest |-> new,
              summary |-> cached.text, budget |-> shorter, target |-> target,
              before |-> before, calls |-> 0]

-----------------------------------------------------------------------------

Init ==
    /\ groups = <<System>>
    /\ summaries = None
    /\ job = NoJob
    /\ sent = <<>>
    /\ saved = [messages |-> <<>>, ranges |-> {}, text |-> None.text]
    /\ fresh = 0
    /\ runs = 1
    /\ halt = FALSE

\* The run goes on between two projections: input, a settled step, or media.
Grow(shape) ==
    /\ job = NoJob /\ ~halt
    /\ fresh < MaxGroups
    /\ groups' = Append(groups, Group(shape, fresh + 1))
    /\ fresh' = fresh + 1
    /\ sent' = <<>>
    /\ UNCHANGED <<summaries, job, saved, runs, halt>>

\* The run stops, and finish releases its cached summary.
Fail ==
    /\ job' = NoJob
    /\ halt' = TRUE
    /\ summaries' = None
    /\ UNCHANGED <<groups, sent, saved, fresh, runs>>

\* transform and recover_context, up to the first model call.  An error ends the run.
Compact(force) ==
    /\ job = NoJob /\ ~halt /\ sent = <<>>
    /\ Len(groups) > 1
    /\ LET cached == ValidCache(groups)
           plan == Plan(groups, cached, force)
       IN  CASE plan.state = "summarize" ->
                    job' = plan /\ summaries' = cached /\ UNCHANGED <<groups, sent, saved, fresh, runs, halt>>
             [] plan.state = "unchanged" ->
                    sent' = plan.result /\ summaries' = cached /\ UNCHANGED <<groups, job, saved, fresh, runs, halt>>
             [] plan.state = "error" -> Fail

\* The first of the remaining groups, as many whole ones as the next summary request holds.
Packed(rest) ==
    LET first(n) == {i \in rest : i <= n}
        size(part) == Sums([i \in DOMAIN groups |-> IF i \in part THEN groups[i].size ELSE 0])[Len(groups)]
    IN  UNION {first(n) : n \in {n \in rest : size(first(n)) <= SummaryFit}}

\* Mutant: the last request's groups are taken as summarized when calls run out.
SummarizeShort(size) ==
    LET pack == Packed(job.rest) IN
    /\ job.state = "summarize"
    /\ job' = [job EXCEPT !.rest = IF job.calls + 1 = MaxSummaryCalls THEN {} ELSE @ \ pack,
                          !.calls = @ + 1,
                          !.summary = [covers |-> @.covers \cup CoveredAt(groups, pack), size |-> size],
                          !.state = IF job.calls + 1 = MaxSummaryCalls \/ pack = job.rest
                                    THEN "publish" ELSE "summarize"]
    /\ UNCHANGED <<groups, summaries, sent, saved, fresh, runs, halt>>

\* One call of the summarizing model.  Size 0 stands for a reply that is no complete handoff.
Summarize(size) ==
    LET pack == Packed(job.rest) IN
    /\ job.state = "summarize"
    /\ IF \/ job.calls >= MaxSummaryCalls
          \/ pack = {} /\ job.rest # {}
          \/ size = 0
          \/ size > job.budget
       THEN Fail
       ELSE /\ job' = [job EXCEPT
                         !.rest = @ \ pack,
                         !.calls = @ + 1,
                         !.summary = [covers |-> @.covers \cup CoveredAt(groups, pack), size |-> size],
                         !.state = IF pack = job.rest THEN "publish" ELSE "summarize"]
            /\ UNCHANGED <<groups, summaries, sent, saved, fresh, runs, halt>>

\* The projection is accepted, and the cache replaced under its lock, unless it is full of
\* other runs' summaries.
Publish(full) ==
    LET projected == Project(groups, job.selected, job.summary) IN
    /\ job.state = "publish"
    /\ IF \/ Total(projected) >= job.before
          \/ Total(projected) > job.target
          \/ summaries = None /\ full
       THEN Fail
       ELSE /\ summaries' = [at |-> job.selected, text |-> job.summary,
                             prints |-> [i \in job.selected |-> groups[i]]]
            /\ sent' = projected
            /\ job' = NoJob
            /\ UNCHANGED <<groups, saved, fresh, runs, halt>>

\* Cancellation or the end of the run, at any point: a compaction in progress is dropped.
Stop == ~halt /\ Fail

-----------------------------------------------------------------------------
(* CompactionState: source ranges by message position in the system-free history *)

Width(g) == IF g.kind = "step" THEN 2 ELSE 1
Offset(gs, i) == Sums([j \in DOMAIN gs |-> Width(gs[j])])[i - 1]
SystemFree(gs) == Replaced(gs, {i \in DOMAIN gs : gs[i].kind = "system"}, <<>>)
Span(gs, i) == [start |-> Offset(gs, i), end |-> Offset(gs, i + 1), sha |-> gs[i]]

\* System messages stand before all others.
Capture(gs, cached) ==
    {Span(SystemFree(gs), i - (Len(gs) - Len(SystemFree(gs)))) : i \in cached.at}

\* CompactionState::project: every range is one whole group that may be summarized and is
\* unchanged.
Selected(s) == {i \in DOMAIN s.messages : \E range \in s.ranges : range.start = Offset(s.messages, i)}

Restorable(s) ==
    \A range \in s.ranges : \E i \in DOMAIN s.messages :
        range = Span(s.messages, i) /\ SafeToSummarize(s.messages[i])

Workset(s) == IF s.ranges = {} THEN s.messages ELSE Project(s.messages, Selected(s), s.text)

\* A checkpoint commits the settled transcript with the state of this moment.  The last one
\* comes after finish: without a cached summary the saved state stays.
Commit ==
    /\ job = NoJob
    /\ saved' = IF summaries = None
                THEN [saved EXCEPT !.messages = SystemFree(groups)]
                ELSE [messages |-> SystemFree(groups), ranges |-> Capture(groups, summaries),
                      text |-> summaries.text]
    /\ UNCHANGED <<groups, summaries, job, sent, fresh, runs, halt>>

\* begin_workset, after the run or a restart of the host: the saved working set, with its
\* summary in place, is the base of the next run, and the state that led to it is done with.
NextRun ==
    /\ halt
    /\ runs < MaxRuns /\ fresh < MaxGroups
    /\ Restorable(saved)
    /\ runs' = runs + 1
    /\ saved' = [messages |-> Workset(saved), ranges |-> {}, text |-> None.text]
    /\ groups' = <<System>> \o Workset(saved) \o <<Group([kind |-> "user", size |-> 1], fresh + 1)>>
    /\ fresh' = fresh + 1
    /\ sent' = <<>>
    /\ halt' = FALSE
    /\ UNCHANGED <<summaries, job>>

Next ==
    \/ \E shape \in Shapes : Grow(shape)
    \/ \E force \in BOOLEAN : Compact(force)
    \/ \E size \in 0 .. (MaxSummary + 1) : Summarize(size)
    \/ \E full \in BOOLEAN : Publish(full)
    \/ Stop \/ Commit \/ NextRun

Spec == Init /\ [][Next]_vars

-----------------------------------------------------------------------------

\* What the engine is handed stands for the whole transcript and for nothing else, the latest
\* request, system messages and media are in it verbatim, and it is never larger than what it
\* replaces: compaction may shorten the context, never forget or invent part of it.
NothingForgotten ==
    sent # <<>> =>
        /\ Covered(sent) = Covered(groups)
        /\ Total(sent) <= Total(groups)
        /\ \A i \in DOMAIN groups :
              i = LatestUser(groups) \/ ~SafeToSummarize(groups[i]) => Contains(sent, groups[i])

\* A committed history can always be resumed, and what the next run starts from stands for all
\* of it: the saved ranges name the groups the summary was made from.
Resumable == Restorable(saved) /\ Covered(Workset(saved)) = Covered(saved.messages)

\* Nothing is forgotten, in the run that compacts and in the one that resumes from it.
ContextKept == NothingForgotten /\ Resumable
=============================================================================
