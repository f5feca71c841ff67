--------------------------------- MODULE Host ---------------------------------
(***************************************************************************)
(* The host's life: HostBuilder::build installs plugins in dependency      *)
(* order and rolls back, Engine::start admits runs under the admission     *)
(* lock, a Lease keeps a run registered until its observers are gone, and  *)
(* Host::shutdown closes admission, drains the runs and stops the plugins  *)
(* in reverse (packages/runtime/src/host.rs and engine.rs).                *)
(***************************************************************************)
EXTENDS Integers, Sequences, FiniteSets, Functions

CONSTANTS
    NPlugins,     \* plugins are 1..NPlugins, in the order they were added
    Manifests,    \* the dependency relations explored: [Plugins -> SUBSET Plugins]
    Runs,         \* identities of runs that may be started
    MaxRuns       \* config.max_concurrent_runs

Plugins == 1..NPlugins

ASSUME PluginAssumption == NPlugins \in Nat
ASSUME ManifestAssumption == Manifests \subseteq [Plugins -> SUBSET Plugins]
ASSUME MaxRunsAssumption == MaxRuns \in Nat \ {0}

VARIABLES
    requires,   \* whose services each plugin requires
    host,       \* "building", "rollback", "failed", "open", "dropped"
    installed,  \* Host.installed, a stack
    stopped,    \* plugins whose shutdown() has been called
    attempted,  \* plugins whose install() has been called
    closed,     \* Admission.closed
    runs,       \* Admission.runs: admitted and not released
    cancelled,  \* runs whose token is cancelled
    task,       \* where each run is
    registry,   \* the engine still hands out the registry
    permit,     \* the permit stored in the `drained` Notify
    closer      \* where Host::shutdown is

vars == <<requires, host, installed, stopped, attempted, closed, runs, cancelled,
          task, registry, permit, closer>>
hostVars == <<requires, host, installed, stopped, attempted>>
runVars == <<runs, cancelled, task, permit>>

MinOf(S) == CHOOSE x \in S : \A y \in S : x <= y

\* sort_plugins: the first pending plugin whose requirements are available, again
\* and again.  Sorted[n] is the order after n rounds; a round that finds no plugin
\* is the dependency cycle and leaves the order short.
Ready(r, ordered) == {p \in Plugins \ Range(ordered) : r[p] \subseteq Range(ordered)}
Order(r) ==
    LET Sorted[n \in 0..NPlugins] ==
          IF n = 0 THEN <<>>
          ELSE LET done == Sorted[n - 1] IN
               IF Ready(r, done) = {} THEN done ELSE Append(done, MinOf(Ready(r, done)))
    IN Sorted[NPlugins]

Init ==
    /\ requires \in Manifests
    /\ host = "building"
    /\ installed = <<>> /\ stopped = {} /\ attempted = {}
    /\ closed = FALSE /\ runs = {} /\ cancelled = {}
    /\ task = [r \in Runs |-> "new"]
    /\ registry = FALSE /\ permit = FALSE /\ closer = "idle"

-----------------------------------------------------------------------------
(* HostBuilder::build                                                      *)

Cyclic == Len(Order(requires)) < NPlugins
NextPlugin == Order(requires)[Len(installed) + 1]

\* A cycle is found before anything is installed.
BuildCycle ==
    /\ host = "building" /\ Cyclic
    /\ host' = "failed"
    /\ UNCHANGED <<requires, installed, stopped, attempted, closed, runVars, registry, closer>>

InstallOk ==
    /\ host = "building" /\ ~Cyclic /\ Len(installed) < NPlugins
    /\ installed' = Append(installed, NextPlugin)
    /\ attempted' = attempted \union {NextPlugin}
    /\ UNCHANGED <<requires, host, stopped, closed, runVars, registry, closer>>

\* install() failed or timed out, or published other services than declared: the
\* half-initialised plugin is stopped too.
InstallFails ==
    /\ host = "building" /\ ~Cyclic /\ Len(installed) < NPlugins
    /\ installed' = Append(installed, NextPlugin)
    /\ attempted' = attempted \union {NextPlugin}
    /\ host' = "rollback"
    /\ UNCHANGED <<requires, stopped, closed, runVars, registry, closer>>

\* The last check: a model must have been published.
BuildOk ==
    /\ host = "building" /\ ~Cyclic /\ Len(installed) = NPlugins
    /\ host' = "open" /\ registry' = TRUE
    /\ UNCHANGED <<requires, installed, stopped, attempted, closed, runVars, closer>>
BuildNoModel ==
    /\ host = "building" /\ ~Cyclic /\ Len(installed) = NPlugins
    /\ host' = "rollback"
    /\ UNCHANGED <<requires, installed, stopped, attempted, closed, runVars, registry, closer>>

\* stop_plugins: pop, then await the plugin's shutdown.
Pop ==
    /\ installed # <<>>
    /\ stopped' = stopped \union {installed[Len(installed)]}
    /\ installed' = SubSeq(installed, 1, Len(installed) - 1)

Rollback ==
    /\ host = "rollback"
    /\ \/ Pop /\ UNCHANGED host
       \/ installed = <<>> /\ host' = "failed" /\ UNCHANGED <<installed, stopped>>
    /\ UNCHANGED <<requires, attempted, closed, runVars, registry, closer>>

-----------------------------------------------------------------------------
(* Engine::start and the spawned task                                      *)

\* Mutant: the closed flag is not part of the critical section.
AdmitClosed(r) ==
    /\ host \in {"open", "dropped"} /\ task[r] = "new"
    /\ Cardinality(runs) < MaxRuns /\ registry
    /\ runs' = runs \union {r}
    /\ task' = [task EXCEPT ![r] = "starting"]
    /\ UNCHANGED <<hostVars, closed, cancelled, registry, permit, closer>>

\* The admission block, one critical section of the mutex.  Refusals leave no trace.
Admit(r) ==
    /\ host \in {"open", "dropped"} /\ task[r] = "new"
    /\ ~closed /\ Cardinality(runs) < MaxRuns /\ registry
    /\ runs' = runs \union {r}
    /\ task' = [task EXCEPT ![r] = "starting"]
    /\ UNCHANGED <<hostVars, closed, cancelled, registry, permit, closer>>

\* The rest of start: spawn the task, or fail (history the model cannot replay, no
\* model service) and drop the lease.
Spawn(r) ==
    /\ task[r] = "starting"
    /\ task' = [task EXCEPT ![r] = "running"]
    /\ UNCHANGED <<hostVars, closed, runs, cancelled, registry, permit, closer>>

\* Mutant: the two are swapped.
ReleaseNotifiesFirst(r) ==
    \/ /\ task[r] # "leaving"
       /\ permit' = TRUE
       /\ task' = [task EXCEPT ![r] = "leaving"]
       /\ UNCHANGED runs
    \/ /\ task[r] = "leaving"
       /\ runs' = runs \ {r}
       /\ task' = [task EXCEPT ![r] = "gone"]
       /\ UNCHANGED permit

\* Drop for Lease, two steps that others may come between: leave the admission table,
\* then notify_one, which stores a permit.
Release(r) ==
    \/ /\ task[r] # "leaving"
       /\ runs' = runs \ {r}
       /\ task' = [task EXCEPT ![r] = "leaving"]
       /\ UNCHANGED permit
    \/ /\ task[r] = "leaving"
       /\ permit' = TRUE
       /\ task' = [task EXCEPT ![r] = "gone"]
       /\ UNCHANGED runs

StartFails(r) ==
    /\ task[r] = "starting"
    /\ Release(r)
    /\ UNCHANGED <<hostVars, closed, cancelled, registry, closer>>

CancelRun(r) ==
    /\ task[r] = "running" /\ r \notin cancelled
    /\ cancelled' = cancelled \union {r}
    /\ UNCHANGED <<hostVars, closed, runs, task, registry, permit, closer>>

\* The driver returned and the report is published; observers still run.
RunReports(r) ==
    /\ task[r] = "running"
    /\ task' = [task EXCEPT ![r] = "reported"]
    /\ UNCHANGED <<hostVars, closed, runs, cancelled, registry, permit, closer>>

\* The observers ended within the grace or were aborted: the task ends, the lease drops.
RunGone(r) ==
    /\ task[r] \in {"reported", "leaving"}
    /\ Release(r)
    /\ UNCHANGED <<hostVars, closed, cancelled, registry, closer>>

-----------------------------------------------------------------------------
(* Engine::cancel_all, Engine::close, Host::shutdown, Drop for Host        *)

CancelAll ==
    /\ closed' = TRUE
    /\ cancelled' = cancelled \union runs

Shutdown ==
    /\ host = "open" /\ closer \in {"idle", "timedOut"}
    /\ CancelAll
    /\ closer' = "check"
    /\ UNCHANGED <<hostVars, runs, task, registry, permit>>

\* The loop of close: the Notified future is made before the table is read.
CloseCheck ==
    /\ closer = "check"
    /\ closer' = IF runs = {} THEN "revoke" ELSE "wait"
    /\ UNCHANGED <<hostVars, closed, runVars, registry>>
CloseWake ==
    /\ closer = "wait" /\ permit
    /\ permit' = FALSE
    /\ closer' = "check"
    /\ UNCHANGED <<hostVars, closed, runs, cancelled, task, registry>>

\* The drain deadline: the error is returned, plugins stay installed.
CloseTimeout ==
    /\ closer = "wait" /\ ~permit
    /\ closer' = "timedOut"
    /\ UNCHANGED <<hostVars, closed, runVars, registry>>

CloseRevoke ==
    /\ closer = "revoke"
    /\ registry' = FALSE
    /\ closer' = "stopping"
    /\ UNCHANGED <<hostVars, closed, runVars>>

StopPlugin ==
    /\ closer = "stopping" /\ Pop
    /\ UNCHANGED <<requires, host, attempted, closed, runVars, registry, closer>>
StopDone ==
    /\ closer = "stopping" /\ installed = <<>>
    /\ closer' = "done"
    /\ UNCHANGED <<hostVars, closed, runVars, registry>>

\* Dropping the host cancels the runs; plugins cannot be awaited and stay.
DropHost ==
    /\ host = "open" /\ closer \in {"idle", "timedOut", "done"}
    /\ host' = "dropped"
    /\ CancelAll
    /\ UNCHANGED <<requires, installed, stopped, attempted, runs, task, registry, permit, closer>>

Ended == host \in {"failed", "dropped"} /\ runs = {} /\ UNCHANGED vars

Build == BuildCycle \/ InstallOk \/ InstallFails \/ BuildOk \/ BuildNoModel \/ Rollback
RunTask(r) == Spawn(r) \/ StartFails(r) \/ RunReports(r) \/ RunGone(r)
Close == CloseCheck \/ CloseWake \/ CloseRevoke \/ StopPlugin \/ StopDone

Next ==
    \/ Build \/ Close \/ CloseTimeout \/ Shutdown \/ DropHost \/ Ended
    \/ \E r \in Runs : Admit(r) \/ CancelRun(r) \/ RunTask(r)

\* A task that is ready is polled; a cancelled run ends because every wait of the
\* driver is bounded; the thread inside start() runs on.  The drain timer, a call of
\* shutdown and new runs are under no obligation.
FairSpec ==
    /\ Init /\ [][Next]_vars
    /\ WF_vars(Build) /\ WF_vars(Close)
    /\ \A r \in Runs : WF_vars(RunTask(r))

-----------------------------------------------------------------------------
\* Every variable holds a value of its type.
TypeOK ==
    /\ requires \in Manifests
    /\ host \in {"building", "rollback", "failed", "open", "dropped"}
    /\ installed \in Seq(Plugins) /\ stopped \subseteq Plugins /\ attempted \subseteq Plugins
    /\ closed \in BOOLEAN /\ registry \in BOOLEAN /\ permit \in BOOLEAN
    /\ runs \subseteq Runs /\ cancelled \subseteq Runs
    /\ task \in [Runs -> {"new", "starting", "running", "reported", "leaving", "gone"}]
    /\ closer \in {"idle", "check", "wait", "timedOut", "revoke", "stopping", "done"}

\* A plugin is installed only on top of what it requires and stopped only when no
\* plugin that requires it is still installed (sort_plugins, stop_plugins); a failed
\* build has stopped every plugin whose install was attempted, the failing one too.
DependenciesOutlive ==
    /\ \A p \in Range(installed) : requires[p] \subseteq Range(installed)
    /\ host = "failed" => stopped = attempted

\* While a run (its observers included) is alive, no plugin has been stopped and the
\* registry it was given is still in force ("plugins kept installed").
PluginsOutliveRuns ==
    (\E r \in Runs : task[r] \in {"starting", "running", "reported"}) =>
        stopped = {} /\ registry

\* Once admission is closed every admitted run is cancelled: none slips in between
\* cancel_all and the drain.
ClosedMeansCancelled == closed => runs \subseteq cancelled

\* A shutdown whose runs have ended completes or returns its timeout; the wakeup of
\* the last lease is never lost.
DrainNoticed == closer = "check" ~> closer \in {"done", "timedOut"}

\* The host stops in order: runs before plugins, plugins before what they require,
\* and no run that was admitted escapes the cancellation.
OrderlyStop == PluginsOutliveRuns /\ ClosedMeansCancelled /\ DependenciesOutlive
=============================================================================
