# Verification of the Mona agent core

TLA+ models of the runtime, the stores, the tools, the provider adapters and the server
of `mona-agent-core`, model-checked with TLC on small instances and, for nearly all of
their safety, proved with TLAPS for every value of the constants.

The models are written from the Rust code. Their definitions keep the names of the
functions they stand for; `PROJECT.json` maps each of them to its lines.

## 1. The system

Mona is an agent runtime. A host process installs *plugins* (tools, context
transforms, policies, observers, a checkpoint sink), admits *runs*, and drives each run
through *steps*: apply the inputs that arrived, project the history into a model
request, stream the reply, run the tool calls it asks for. Around that core sit a store
of saved sessions, an application layer that serves runs to reconnecting clients, and
plugins with state of their own.

| component | state | operations | correct when |
|---|---|---|---|
| **Tool batch** (`runtime/src/tools.rs`, `checkpoint.rs`, `history.rs`) | groups, running futures, pending calls, snapshot revisions, history budget | preflight, dispatch, policies, intent, body, settlement, commit | a stored snapshot never hides a dispatch; exclusive tools run alone; every call gets one truthful result |
| **Execution loop** (`runtime/src/engine.rs`) | history, command channel, step, outcome | apply inputs, project, recover, model call, admit, batch, repair, finish | no acknowledged input is lost; no open tool pair is left; nothing is done before it is stored |
| **Host and plugins** (`runtime/src/host.rs`, `engine.rs`) | plugin stack, admission table, leases | build, roll back, start, release, shut down | plugins outlive the runs that use them; a shutdown ends |
| **Model gateway and task quota** (`runtime/src/model.rs`, `api/src/run.rs`) | call and token counters of a tree of tasks, audit records | reserve, attempt, record, settle, retry | every call counted once, quota kept, usage honest, no second output |
| **Event bus and streams** (`runtime/src/events.rs`, `application/src`) | broadcast ring, snapshot, journal, cursors | publish, collect, resync, subscribe, pull | a client sees every event once and in order |
| **Sessions** (`sessions/src`, `application/src/sessions.rs`) | one file per session, gate, admissions, finalizers | create, prepare, bind, commit, finish, edit, delete, restart | a turn runs once and ends; ended turns never change; the file always loads |
| **Subagents** (`subagent/src`) | parents, activations, permits, saved children | capture, spawn, follow up, wait, interrupt, finish, shut down | a run that completes leaves no child; shutdown leaves none |
| **Planner** (`planner/src`, `apps/server/src/planning.rs`) | the live plan of a run, the results that report it, the plan in the session file | update, submit, read, host changes, commit with the plan, recover | the host alone leaves plan mode; a revision names one plan |
| **Memory** (`memory/src`, `server/memory_routes.rs`) | `MEMORY.md`, lock file, each caller's revision | load, batch of changes, cancel, crash | no update is lost; an id never changes its meaning |
| **Spill archive** (`spill/src`, `server/spill_setup.rs`) | entries, temporaries, reserved bytes, active runs | reserve, copy, publish, expire, read a page | within its quotas; a locator in a history reads back whole |
| **Compaction** (`compaction/src`, `sessions/context.rs`) | groups of the transcript, summaries, saved ranges | trigger, summarise, fit, fall back, save, resume | every message is in the request or in a summary it contains |
| **Session search** (`sessions/src/search.rs`) | index rows, watermarks | refresh, query, confirm | a page is the answer for the sessions as they are |
| **Projects** (`projects/src`) | registry, its file | add, remove, restart | a project id names one directory for ever |
| **Model settings** (`models/src`, `server/model_settings.rs`) | providers, keys, routes of runs | edit, delete, bind, discover, restart | a key reaches only the endpoint it was typed for; no run loses its route |
| **Model providers** (`providers/src`, `runtime/src/model.rs`) | decoder and collector of one stream | frame, chunk, end, failure | a reply is what was sent, once; what was shown is never retried |
| **MCP** (`mcp/src`, `server/mcp_setup.rs`) | connection, catalog, calls; saved servers | dial, discover, call, cancel, reconnect, stop; edit | a call meets the tools the model was shown; a secret stays with its target |
| **Instructions** (`instructions/src`) | rules per directory, what the model was shown | deliver, check, save | a call runs under rules the model was shown |
| **File tools** (`tools/src`, `sandbox/policy.rs`) | files, links, locks | edit, write, read, grep | edits change what was matched, once, inside the fence; pages and matches are exact |
| **Shell** (`tools/shell.rs`, `capture.rs`) | process group, two pipes, preview, spool | drain, time out, cancel, drop, answer | no process outlives the call; the text is what was written |
| **Terminal** (`server/terminal.rs`) | numbered inputs, kept output | write, page, close, sweep | an input is typed once; output is exact up to marked gaps |
| **Environments** (`server/environment.rs`, `lib.rs`) | pool of hosts, bindings, held runs, the gate | start, evict, admit, shut down | a run's host outlives it |
| **Side conversations** (`server/side_routes.rs`) | threads per window, their runs | open, start, report, close, drop | no run without an owner; a thread keeps its own history |
| **Capabilities** (`server/capabilities.rs`) | deployment policies, the user's choices | boot, view, choose | the deployment decides what is locked, the last confirmed choice the rest |
| Skills, workspace browsing, sandbox runner, bridges, client, user interfaces, evaluation harness | | | not modelled (section 8) |

**How they interact.** The loop hands a reply's calls to the tool batch; both commit
through the same `Checkpoints`, whose sink is, for a saved session, the session store.
All model calls of a run and of its tools go through one gateway, which reserves from
the task the run shares with the runs it started. A subagent is a run on a session of
its own, whose task is a branch of its parent's. Events leave the run through a bounded
broadcast channel; the application's collector keeps a snapshot and a journal that
subscribers pull from. Host shutdown drains all of it before plugins stop. The server
builds one host with its plugins per working directory and gives all of them the same
session store, spill store, model settings and MCP connections.

**What is hard.** Futures of one batch interleave at every await, sharing one
checkpoint lock. An acknowledgement can be lost while the write lands, now or later.
The run, its observers, its finalizer, its monitor and its caller's start are separate
tasks that end in any order. The process can die between any two writes. Queues, the
journal, the history, the quota and the permits all have limits that are reached in the
middle of something. `PROJECT.json` lists these hazards with their lines and the
properties that would show them going wrong.

## 2. Modules

| module | models | composed with |
|---|---|---|
| `ToolBatch` | `execute_batch`, `run_one`, `Checkpoints::write`, `ToolBudget` | refines `ToolContract` |
| `ToolContract` | abstract: a call is entered at most once, closed once, and truthfully | |
| `Run` | `Execution::drive`, steering, checkpoint phases, the terminal sequence | takes a batch as one step, with what `ToolBatch` shows of it |
| `Host` | `HostBuilder::build`, `Engine::start`, `Lease`, `Host::shutdown` | |
| `ModelGateway` | `Gateway::complete`, `TaskControl` | |
| `EventStream` | `EventBus`, `collect`, `Subscription` | |
| `SessionStore` | `Store`, `SessionApplication::start`, `SavedRun` | the environment of its runs is a run as `Run` describes it |
| `Subagent` | `Service`, `AgentExecutionLimiter` | |
| `Planner` | `PlanSnapshot`, `PlanTool`, `Planner::allowed`, `recover_checkpoint`, `planning.rs` | relies on the group order `ToolBatch` shows and on the turn order `SessionStore` shows |
| `Memory` | `FileStore`, the memory tools, the memory routes | |
| `Spill` | `LocalSpillStore`, `SpillArchive`, the paged reads | |
| `Compaction` | `Compactor` and the session's use of its state | what `SessionStore` calls a compacted base |
| `SearchIndex` | `Store::search` and the SQLite index | the commits of `SessionStore`, as revisions |
| `Projects` | `Registry` | |
| `ModelSettings` | the provider document, `Router` | |
| `ProviderStream` | the three decoders, `sse.rs`, `Collected` | the attempts of `ModelGateway` |
| `Mcp`, `McpSettings` | `Connection`, the MCP tools; the saved servers | |
| `Instructions` | the rules source and policy | one of the policies of `ToolBatch` |
| `FileEdit`, `TextTools`, `Shell` | the base tools | tool bodies of `ToolBatch` |
| `Terminal`, `SideThreads`, `Environments`, `Capabilities` | the server's own state | `Environments` starts what `Host` calls a run |
| `ToolBatchProofs`, `EventStreamProofs`, `RunProofs`, `ModelGatewayProofs`, `SubagentProofs` | theorems | extend the module they are about |
| `StoresProofs`, `ServicesProofs`, `ToolsProofs` | theorems | extend `MCStores`, `MCServices`, `MCTools`, so that each is about the specification its run checks |
| `MCStores`, `MCServices`, `MCTools` | instances of several components (below) | |
| other `MC*` | instances of one component | |

**Sums.** The smaller components share no state with each other, so `MCStores`,
`MCServices` and `MCTools` check several of them in one run without multiplying their
states (`MCStores` extends `SessionStore`, whose steps are those of one part): a variable `part` is chosen in the first state and never changes, a step is a step
of the chosen part and leaves every other variable alone, the other parts stay in their
first state (pinned to one initial state where they have several), and fairness is stated
of the steps of the one part that has liveness to show (`Within`). A property of a part
is checked as it is stated in the part's module.

**Granularity.** A step is the code between two awaits, or one lock section where other
threads can come in between. What belongs to other threads (cancellation, deadlines,
storage, clients) moves at any time. A future that can be dropped is dropped at any
await.

**Data.** A tool call is a number with a kind (exclusive, parallel, or one of the ways
it is rejected); sizes are units; an event is its sequence number and a reader's state
is the set of events it reflects, so a lost, repeated or reordered event shows; a
message is a record of its role and owner; a digest is the sequence it is taken of. A
call that failed differs from one that was denied only in its status.

Notes on single modules:

- `ToolBatch`: `phase` is where `execute_batch` is, `pc[i]` where `run_one` of call `i`
  is. `limbo` holds a snapshot that was handed to the sink and is not stored yet: it may
  land at any later moment, also after the commit's timeout (`Land`). The policies are
  external plugins: approve, deny or fail.
- `Run`: every failure path of `drive` goes through the one terminal sequence
  (`Ended`, transforms, `Finish`, report, release). Panics of the driving future are a
  failure at any step.
- `Host`: the `Notify` of the drain is modelled with its stored permit.
- `ModelGateway`: the audits lock is held over the reservation; each counter update is
  an atomic step of its own, so the order in `record_attempt` (branch, then parent) is
  visible to others.
- `EventStream`: `changed` is a watch channel: a subscriber remembers the revision it
  last saw. `collector = "poll"` is the moment at which the receiver was empty and the
  run's completion is polled next.
- `SessionStore`: one session. `Compaction` attaches a compactor: the next run's input
  may be shorter than the history it stands for. A save is `ok`, `lost` (error, old file)
  or `landed` (error after the atomic replacement). Assumed: the process dies, not the
  machine (no torn rename); the creation key of a deleted session and its turn ids are
  not used again; a run never sends the same revision twice (`Run` sends each once). A
  repeated `start` of a known turn is answered from the saved turn and is not a step. A
  save that fails *after* the replacement in `prepare` leaves a running turn without a
  run until the host restarts: `TurnEnds` therefore speaks of behaviours without a
  failing save; `Recoverable` covers that such a turn is not run twice.
- `Subagent`: run 1 is the root's. `asked` is a request that passed `Service::parent` and
  waits for the admission lock. `fail_start` notifies no waiter: a `wait` on a session
  whose new turn was refused before dispatch sleeps until its own timeout
  (the exception in `NoLostWakeup`). Mail and purge are not modelled, and neither is a
  child session whose creation was stored and whose profile was not, on which every later
  listing of the root's children fails (`subagent/src/service.rs:357`).
- `Memory`: a revision is a digest of the rendered file, so the model compares documents.
  A batch is refused as a whole; its operations see each other.
- `Spill`: the archive of an environment knows that environment's active runs only; the
  model keeps that (`ArchiveOf`), and an entry of another environment's run can expire.
- `Compaction`: a group carries the set of source groups it stands for, so what is
  forgotten shows. A model that summarises is taken to merge what it is shown.
- `SearchIndex`: the stamp of a file (length, time, revision) is the revision.
- `Projects`, `Memory`, `Capabilities`: the process dies, not the machine.
- `ModelSettings`, `McpSettings`: a key or secret is the endpoint it was typed for, so a
  key in the wrong place shows.
- `ProviderStream`: the remote side sends any frames in any order; a fragment is named by
  its item and number, so a lost, repeated or foreign fragment shows.
- `Mcp`: `live` is the read-write lock around the service. The remote may change its
  tools at any time and need not tell.
- `FileEdit`: a text is a short sequence of characters with the classes the normalisation
  tells apart. Another process may change a link between any two steps of the worker.
- `Shell`: a byte carries its stream and its class, so that a character torn between
  reads shows. Signals to the group are immediate; a process that leaves its group is
  outside what the code claims to contain.
- `Terminal`: the page is modelled with its retries; the n-th byte printed is n.
- `Environments`: `Arc::strong_count` is the number of bindings and retained runs.
- `SideThreads`: a history is named by the opening it started from.
- `Planner`: one session, one run at a time. `live` is the planner's working copy,
  `confirmed` the plans in the run's successful results, `saved` the copy in the session
  file, which a commit replaces together with the checkpoint. Steps, explanations and
  proposals are drawn from small sets. The server always binds a seed, so recovery from a
  history without one is not modelled.

## 3. Runs

Most properties are a conjunction of named parts, each with a comment of its own in its
module; the table gives the parts.

| run | instance | shows |
|---|---|---|
| `tool_batch` | three calls in four mixes of kinds, two at a time, a history one unit short of all results, or with room for the fallback records only | `DurableTruth`; `BatchDiscipline` (exclusive order, room for every result in flight, nothing new after a failed commit); `ContractHolds` (refinement); `BatchEnds` |
| `tool_batch_policy` | two parallel calls | **violated**: `PolicyFresh` (section 6) |
| `run` | two steps, two inputs, a channel of one, replies of up to two calls whose ids may be reused, a history of six units | `HistoryHonest` (acknowledged inputs, closed tool pairs, stored before acting, completed means stored); `RunSettles` (the run ends, every `steer` is answered) |
| `event_stream` | five events of three sizes, a ring of two, a journal of two events or three units, one client that comes and goes | `ViewSound` (a prefix, and all of it at the end); `StreamEnds` |
| `session_store` | two turns, a compactor, one crash or one edit anywhere | `SessionHonest` (the file loads, holds what was acknowledged, denies no effect, an input is seen before it is sent); `EndedTurnsFixed` |
| `model_gateway` | a run and a subagent's run on a branch, two requests each; three calls, one token, one retry | `Accounted` (every call counted, usage honest); `NoSecondOutput`; `RequestReturns` |
| `subagent` | two child sessions, three runs, two permits, grandchildren, a shutdown | `Supervised` (types, nobody left behind by a completed run or a shutdown, one activation per session) |
| `subagent_live` | one child session under a `wait`, refused follow-ups, a shutdown | `NoLostWakeup`, `ChildrenStop` |
| `stores` | sessions: one turn, an edit, a crash and a failing save anywhere; memory: two runs and a management route; spill: two runs in two environments, two results; compaction: five groups, two runs; search: two sessions, two searches; projects: two directories, two request ids | `Recoverable`, `TurnEnds`, `MemoryKept`, `ArchiveSound`, `ContextKept`, `SearchExact`, `IdentityStable` |
| `services` | host: three plugins with every dependency relation (cyclic ones too), three runs, room for two; environments: two sessions and a side conversation in two directories, room for one; side threads: two windows, room for one; MCP: two calls, two catalogs, three connections; streams: replies of two items in five frames, all three protocols | `OrderlyStop` and `DrainNoticed` (host), `RunHeld`, `NoOrphanRun`, `CallsSound`, `SecretConfined`, `LockedByDeployment`, `SettingsHonest`, `ReplyHonest` |
| `tools` | planner: two runs, replies of two calls, three changes; edit: two calls through two names of a file, one link changed under them; read: files of up to four lines of up to five bytes, pages of nine; grep: two files, queries of up to three letters, two results, an answer of 1, 5 or 20 bytes; shell: four bytes in two streams; terminal: five bytes, two inputs sent up to twice; rules: two calls, two rounds, two edits | `PlanHonest`, `EditSafe`, `NoLostEdit`, `PagesCover`, `GrepExact`, `CommandContained`, `TerminalExact`, `RulesApplied` |
| `side_history` | one window opened twice | **violated**: `OwnHistory` (section 6) |

**Why the bounds are enough to be interesting.** Three calls and two slots give a group
that fills up, one that an exclusive call splits, one a rejected call must not split,
and a call that finds no room while others are in flight. Two turns are enough for a
late commit of the first to meet the second, and for a compacted base to stand for an
earlier turn. A ring and a journal of two make every way of falling behind reachable
within five events; clients only read shared state, so one that reconnects at will
stands for any number. Two inputs and a channel of one make *full*, *closed*, *applied*
and *left over* all happen. Two callers with two requests and
a retry each race for three calls and one token. Three runs give a grandchild whose parent ends first.

In the sums: two memory clients share a store and one has its own, so both the process
gate and the lock file are needed; the spill quotas are smaller than what the two runs
put in together, and a body of unequal characters makes a page end inside one; five
groups of three sizes let a summary need two calls and a second compaction summarise a
summary; a search meets a commit, a deletion and a re-creation between any two of its
steps; a pool of one makes every second start evict; a third connection lets a call of
the first outlive two catalogs; the texts to edit hold a CR LF pair, a typographic quote
and a repeated match; the four bytes of the shell hold a character split over two reads
while the other pipe is drained; two copies of two inputs arrive in every order.

`CHECK_DEADLOCK FALSE` is set where the modelled life simply ends (all requests made,
the session deleted, everything stopped); the others stutter explicitly at their end.

Each property of a passing run has a mutant in `PROJECT.json`: a definition changed the
way a plausible bug would change the code (a dropped check, a released lock, a missing
notification), under which TLC finds that property violated.

## 4. Fairness

| module | assumed | because |
|---|---|---|
| `ToolBatch` | weak fairness of the scheduler and of every `run_one` | Tokio polls a woken task, and `bounded` ends every policy, body and commit by its timeout plus the grace |
| `Run` | weak fairness of the task | every await is bounded by a timeout, the deadline or the cancellation grace |
| `Host` | weak fairness of the build, of a shutdown in progress, of every run's task | as above; observers and hooks are bounded |
| `EventStream` | weak fairness of the collector, of the run's report, of a client that is connected | tasks that can run do; runs need not finish and clients need not connect |
| `SessionStore` | weak fairness of admission, tasks, commits, finalizers and of a restart | admissions and finalizers are spawned tasks, disk operations run to their end on a blocking thread; a dead host is started again |
| `ModelGateway` | weak fairness of every request | an attempt is bounded by its deadline, locks are held for a few instructions |
| `MCStores`, `MCServices` | that of `SessionStore` and of `Host`, of the steps of their part | as in those modules; the other parts state safety only |
| `Subagent` | weak fairness of admission, monitors and the end of a cancelled run; strong fairness of the collection that needs the admission lock | the Tokio mutex is fair: a queued waiter gets the lock |

Nothing is assumed of callers, users, storage or cancellation: they act or do not.

## 5. What is proved

TLAPS checks the proofs below for every value of the constants that satisfies the named
assumptions. Of the safety properties the passing runs check, all but those listed at the
end as only model-checked are theorems here; `PROJECT.json` names the theorem of each.

**`ToolBatchProofs`.** The invariants are not inductive as stated: that storage tells
the truth rests on what is in memory and in flight, and that a result fits rests on how
the budget was reserved. The inductive invariant is

    IInv == TypeOK /\ Bookkeeping /\ Progress /\ Lock /\ Revisions
            /\ Snapshots /\ Room /\ GroupOrder

- `Bookkeeping`: the four places a call can be (to do, queued, running, settled) are
  disjoint and agree with the phase;
- `Progress`: what is known of a call at each point of `run_one` (result, entered or not);
- `Lock`: the checkpoint lock is held exactly by the call awaiting its commit;
- `Revisions`: acknowledged <= stored <= in memory, and what was handed over and has
  landed is what is in memory;
- `Snapshots`: memory and storage each tell the truth about every call, and a call past
  its intent is stored as intended;
- `Room`: the budget is kept and every running call has its largest result reserved;
- `GroupOrder`: nothing queued or running is separated by an exclusive call from
  something unsettled.

One lemma per conjunct, one step per action. From `Invariance` follow `TypeCorrect`,
`DurableTruthHolds`, `StatusHonestHolds`, `ExclusiveOrderHolds`, `InFlightFitsHolds`,
`BoundedParallelismHolds`, `AckedIsStoredHolds`, `AllSettledHolds`, the action property
`StopsAtFirstFailureHolds`, `BatchDisciplineHolds`, which joins three of them as the run
checks them, and `Refinement`: the batch implements `ToolContract`.
Assumptions: `N` and `MaxParallel` positive, a reservation no smaller than a fallback
record (`RunLimits::validate`), and room for all fallback records (`admit_reply`).

**`EventStreamProofs`.** `JournalSound`: the journal is the stretch that ends at the
snapshot, above the floor. Trimming takes from the front (`TrimKeepsSuffix`,
`TrimStretch`), an event too large for the journal starts it over, and a resync empties
it. With it, and with `CursorSound` (no client is ahead of the snapshot, which never
moves back), `NoGap` is inductive: an event frame is sent only when it is the one after
the cursor, anything else is a snapshot. `EndSound` adds what the end of the stream
means for the collector: it leaves only with the outcome or a fault in the snapshot, and
the fault only when the executor vanished. `ViewSoundHolds` joins what a client holds and
what it holds at the end, as the run checks it.

**`RunProofs`.** `RunInv == Types /\ Steering /\ Acknowledged /\ Pairs /\ Snapshots`.
`Steering`: until `drive` has returned, what the channel took is what the history holds,
then what is being committed, then what is queued. So a commit adds inputs in their
order, each once (`Acknowledged`). `Pairs`: a tool pair is open only from the admission
of a reply to the results of its calls, and admission reserved the room for these, so
every path that ends the step can close it. `Snapshots`: what `drive` acts on was
acknowledged at the step before. `HistoryHonestHolds` follows. Assumption on the
constants: `CallIdsAssumption`.

**`ModelGatewayProofs`.** `AccountedHolds` is about sums over callers and audit entries
(tokens, calls). The model counts with sets: an amount `v[x]` is the set of units
`{x} \X 1..v[x]`, a sum is the cardinality of a union, and adding a member is then a
lemma about finite sets (`Units...`) instead of an induction. `GatewayInv` says who
holds a gateway's lock (`Sections`), that an audit entry is open exactly while its
caller is in that attempt (`Attempting`), that granted calls and entries are what the
quota counted (`Counts`), that an account holds what the entries report and what callers
between two steps have recorded (`Usages`, `Marked`), and how far concurrent callers
may overshoot (`Overshoot`). `Retries` and `Tries` give `NoSecondOutputHolds`.
Assumptions: `TaskAssumption` (the root is no branch, finitely many of both, "none" is no
caller) and `QuotaAssumption` (limits are positive, as `RunLimits::validate` demands).

**`SubagentProofs`.** `SubagentInv == Types /\ Started /\ Permits /\ Activity /\ Askers
/\ Collected /\ Wakeups`. `Askers` is the race of `finish` and `shutdown` with an
admission on its way: a run that asks is registered or stopped, so that once it is
neither, `Admit` refuses. Both collect with the admission lock free, so what they find is
everything there will be (`Collected`). From it `SupervisedHolds` and `NoLostWakeupHolds`.

**`StoresProofs`.** One invariant per store; a step of another leaves it alone
(`ElsewhereStep`).

- *Sessions*: `SessionInv == Types /\ FileInv /\ Logged /\ Owned /\ Tasks /\ Stored /\
  Denied`. What a client reads of a file is always its archive followed by what the last
  turn has said since (`archive \o Spoken`), because a checkpoint is of the last turn and
  holds its base, its prompt and a prefix of the run's script. So the file keeps its
  shape whether a save lands, fails, or lands and is reported failed (`Stored`), and a
  "was not dispatched" enters the history only of a turn whose run can have no further
  checkpoint (`Denied`). Theorems: `SessionHonestHolds`, `EndedTurnsFixedHolds`,
  `OneRunPerTurnHolds`, `RecoverableHolds`.
- *Projects*: `ProjectsInv`: what is on disk is what is in memory or one save ahead.
- *Search*: `SearchInv`: a row that carries a session's stamp is that session's content
  (`Stamped`), and a search in progress confirmed what it found (`Searching`).
- *Memory*: `MemInv`: of the gate and the lock file (`Holders`), what a writer is about to
  publish descends from what it read (`Writing`), and every document shown to somebody
  is followed by the present one (`Shown`, `Follows`).
- *Spill*: `SpillInv == Filed /\ Putting /\ Located /\ Reading`: quotas counted with sets of
  units as above; a page is a stretch between two prefix sums, so pages end on characters
  and joined they are the body.
- *Compaction*: `CompactInv == Grouped /\ Compacting /\ Ranged /\ NothingForgotten`: a cached
  summary stands for its groups and was never the latest request, and saved ranges name
  groups that begin the history.

**`ServicesProofs`.** `HostInv == TypeOK /\ Lifecycle /\ Installation`; that plugins are
installed after what they require rests on what the rounds of `sort_plugins` compute
(`OrderLayered`). Each other part has an invariant of its own: `EnvInv` (a directory has one
live environment, which a binding or a held run keeps), `SideInv`, `McpInv` (a live
service has the signature the host assembled), `SecretInv`, `CapInv`, `ModelInv`.
`ReplyHonestHolds` is about any frames in any chunks. `StreamInv == StreamTypes /\ Unshown /\
(protocol # "chat" => Carries) /\ ReplyHonest`: what a native decoder has decoded is what
was collected followed by what is pending, in text, in the tool calls begun and in the number
of events that are not the End (`Carries`); while its output mark is unset, nothing shown or
pending shows anything (`Unshown`). A finish other than "length" leaves only a decoder whose
items are closed and were said whole, so what was collected by then is the whole reply.
The text of a run of events is a flattened sequence; `Flattens` and the lemmas
beside it say what appending and splitting do to it.

**`ToolsProofs`.** `PlanInv` (the plan tool is alone in its round, so the plans a run
works with form a chain from the one it was seeded with), `EditInv` (a call that holds
the mutex of its canonical path has in hand what the file holds), `TerminalInv`, `Ended`
(no process outlives a shell call), `RuleInv` (in a round the model was shown the rules of
a set of directories that holds those known before), `ReadInv` (the pages read so far are
the lines of the file from the first on, and each is within the limits).

**Induction.** The library's induction theorems take an operator as a parameter, which no
installed prover instantiates. `LeastExists` and `SetInduction` replace them: a set of
naturals that holds 0 and the successor of each of its elements holds every natural.
With them lengths, rounds, prefix sums and flattened sequences can be reasoned about.
For this some definitions are given as functions or as cardinalities: the counting of
`ModelGateway` and `Spill`, `Applied` of `Memory`, `Replaced` and `Sums` of `Compaction`,
`WithoutEnd` of `ProviderStream`, `Width` of `TextTools`.

**Assumptions on constants.** Apart from those above: `CompiledAssumption` (compiled-in
capabilities are capabilities), `MemoryAssumption`, `DirsAssumption` (names of clients,
runs and calls differ from the values that stand for nobody), `SpillAssumption`,
`ContextAssumption`, `PagesAssumption` (a character, a message and a line with its end have at
least one byte, as UTF-8 has them; pages are not empty, as the code's constants and clamps
make them), `TerminalAssumption` (likewise), `PathsAssumption` (links begin inside the roots or
at a place outside) and `StreamAssumption` (the protocols are the three there are; counts are
naturals). TLC evaluates each of them in the run of its
module.

**Only model-checked.** Liveness (`BatchEnds`, `RunSettles`, `DrainNoticed`, `StreamEnds`,
`TurnEnds`, `RequestReturns`, `ChildrenStop`), which is out of this prover's reach, as
`ENABLED` is. Of safety: `GrepExact`; that an edit replaces what was matched and leaves the
rest, except that every line end of the file becomes what the first one was (`EditFaithful`,
the other part of `EditSafe`, the fence, is `FencedHolds`); and that a shell's answer accounts
for all output (`OutputAccounted`, the other part of `CommandContained`, no orphans, is
`NoOrphanHolds`). These are about what recursive text functions compute for any input.

## 6. Findings

`tool_batch_policy`: the comment above the policy loop of `run_one` says "A slow
checkpoint must not leave a stale policy decision" (`runtime/src/tools.rs:323`). After
the policies have decided, the call awaits `checkpoints.check()`, whose lock another
parallel call of the group holds across its sink commit. The approved body is then
entered on a decision older than that commit; only the sticky checkpoint error is looked
at again. The order intent-then-policy keeps the call's *own* commit from ageing the
decision, not another call's.

`side_history`: the task that waits for a side run writes the run's transcript into
whatever thread its key names when the run ends (`server/src/side_routes.rs:443`); the
turn and the active run are matched by run id, the history is not. A window that is
closed while its run is ending and opened again continues the closed branch, which
`docs/architecture/WEB.zh-CN.md:174` says closing rules out.

Met while modelling, without a run of their own:

- `spill/README.md:19` advises one shared archive per store; the server makes one per
  environment (`server/src/spill_setup.rs:33-35`), each of which spares the entries of its
  own active runs only.
- The Chat adapter drops what it decoded from a chunk before a malformed frame of the
  same chunk (`providers/src/chat.rs:449-450`); the comment below speaks of keeping such
  facts. `ReplyHonest` holds either way: what was not passed on was not shown.
- The shell's sandbox notice is not counted where it is decided whether the output must be
  shortened (`tools/src/capture.rs:94`) and is counted where it is cut (`:102`): output
  that fits without the notice only is cut without its marker. The run uses no notice.
- A side start that outlives the listener's drain builds an environment after
  `Environments::shutdown` has emptied the pool; its run is refused, since the application
  is closed, but nothing stops that environment before the process ends.

## 7. Reading a module

Each module starts with what it models, then constants and their assumptions,
variables, `Init`, the actions in the order of the code, `Next`, the specification with
fairness, and the properties with a comment each. Definitions named in `PROJECT.json`
as mutants stand before the definition they replace and are used nowhere else.

## 8. Plan, and what is not modelled

To prove next: an abstract session (a list of turns that only grows and whose ended turns
are fixed) that `SessionStore` refines; the text functions behind `GrepExact`,
`EditFaithful` and `OutputAccounted`.

To model next: the application's registry (deduplication of starts and inputs, capacity,
pruning), the items inside `RunSnapshot::apply`, and in `Subagent` mail, purge of a
deleted root and tool ceilings.

Not modelled:

- **The short continuation notice of `read` in a run**: the bounds leave room for the long one;
  `PagesCoverHolds` is for any widths of both.
- **Skills, workspace browsing**: discovery, parsing and previews of files; no state
  beyond a cached listing.
- **Sandbox runner**: platform calls. The path fence is part of `FileEdit`.
- **HTTP and Tauri bridges, JavaScript client**: transport over the application service;
  `EventStream` models their reconnection by cursor.
- **A link changed between a recheck and the system call after it** (`tools/src/support.rs:68-70`
  and `:123-124`): `Read` and `Persist` of `FileEdit` are one step each, so `NoLostEdit` and
  the fence speak of links changed at any other moment, with the rechecks in force.
- **Characters of several bytes and CR in `grep`**: `clip_utf8` gives up the few bytes that
  would split a character, and a CR before the newline is taken off a result. `GrepExact`
  is about one-byte characters, and with them exact to the byte, the cut of
  `bounded_output` included.
- **The environment of unbound runs**: `Environments` models those that bindings hold.
- **Encoding**: provider requests, Markdown of memory, encryption of settings, query
  syntax and ranking of the search, media: left to the repository's tests.
- **Web user interface, desktop shell**: presentation and process start-up.
- **Evaluation harness**: a separate tool, not part of the agent core.
