---------------------------- MODULE Environments ----------------------------
(***************************************************************************)
(* The execution environments of the server (environment.rs): one host     *)
(* with its plugins per working directory, built on demand, pooled up to a *)
(* limit and stopped when evicted or when the server stops.                *)
(*                                                                         *)
(* A start finds or builds the environment of its session's directory,     *)
(* binds its id to it for as long as the application admits the run, and   *)
(* lets the run hold it.  Persistent turns pass a gate that shutdown       *)
(* closes and waits for; side conversations are serialised among           *)
(* themselves and do not take that gate.                                   *)
(***************************************************************************)
EXTENDS Naturals, Sequences, FiniteSets, SequencesExt

CONSTANTS Sessions,   \* sessions that start persistent turns
          Sides,      \* side conversations
          Roots,      \* working directories
          PoolLimit, MaxBuilt, MaxRuns

Ids == Sessions \cup Sides

VARIABLES cwd,      \* the directory each session or side conversation runs in
          envs,     \* the environments, in the order they were built
          pool,     \* the pooled ones
          bindings, \* DirectoryRuntime::bindings: the environment an id is bound to
          starts,   \* what each id's start is doing
          admission,\* "free", the id that holds the gate, or "shutdown"
          held,     \* the runs the application retains, each holding its environment
          ran,      \* how many runs were ever started
          server    \* how far the server's own shutdown has come

environmentVars == <<cwd, envs, pool, bindings, starts, admission, held, ran, server>>

NoStart == [phase |-> "none"]
Unbound == 0

Init ==
  /\ cwd \in [Ids -> Roots]
  /\ envs = <<>>
  /\ pool = {}
  /\ bindings = [i \in Ids |-> Unbound]
  /\ starts = [i \in Ids |-> NoStart]
  /\ admission = "free"
  /\ held = {}
  /\ ran = 0
  /\ server = "serving"

(* Environments::start waits for the gate and finds it open; a side start  *)
(* waits only for the other side starts (side_routes.rs, its own lock).    *)
Admitted(i) ==
  IF i \in Sessions
  THEN admission = "free"
  ELSE \A j \in Sides : starts[j].phase = "none"

Arrive(i) ==
  /\ starts[i].phase = "none"
  /\ ran < MaxRuns
  /\ Admitted(i)
  /\ starts' = [starts EXCEPT ![i] = [phase |-> "resolve"]]
  /\ admission' = IF i \in Sessions THEN i ELSE admission
  /\ UNCHANGED <<cwd, envs, pool, bindings, held, ran, server>>

(* The tail of a start: the binding is dropped and the gate released.      *)
Finish(i) ==
  /\ starts' = [starts EXCEPT ![i] = NoStart]
  /\ bindings' = [bindings EXCEPT ![i] = Unbound]
  /\ admission' = IF admission = i THEN "free" ELSE admission

-----------------------------------------------------------------------------
\* Mutant: runs that are still held do not count.
UnusedByStart(e) == \A i \in Ids : bindings[i] # e

(* Arc::strong_count(e) == 1: nothing but the pool refers to e.  A binding *)
(* and a retained run each hold a reference.                               *)
Unused(e) ==
  /\ \A i \in Ids : bindings[i] # e
  /\ \A run \in held : run.env # e

Stop(es, how) ==
  [e \in DOMAIN envs |-> IF e \in es THEN [envs[e] EXCEPT !.state = how] ELSE envs[e]]

(* environment() and the binding that follows it, under the pool's lock: a *)
(* pooled environment of the directory is shared; otherwise one is built,  *)
(* at the limit after stopping one that nobody uses.  A failed stop has    *)
(* already removed it and fails the start; so do a failed build and a full *)
(* pool in use.                                                            *)
Resolve(i) ==
  /\ starts[i].phase = "resolve"
  /\ LET mine == {e \in pool : envs[e].root = cwd[i]}
         built == Len(envs) + 1
         Build(stopped, left) ==
           /\ Len(envs) < MaxBuilt
           /\ envs' = Append(stopped, [root |-> cwd[i], state |-> "live"])
           /\ pool' = left \cup {built}
           /\ bindings' = [bindings EXCEPT ![i] = built]
           /\ starts' = [starts EXCEPT ![i] = [phase |-> "bound"]]
           /\ UNCHANGED admission
     IN \/ /\ mine # {}
           /\ \E e \in mine : bindings' = [bindings EXCEPT ![i] = e]
           /\ starts' = [starts EXCEPT ![i] = [phase |-> "bound"]]
           /\ UNCHANGED <<envs, pool, admission>>
        \/ mine = {} /\ Cardinality(pool) < PoolLimit /\ Build(envs, pool)
        \/ /\ mine = {} /\ Cardinality(pool) >= PoolLimit
           /\ \E e \in pool :
                /\ Unused(e)
                /\ \/ Build(Stop({e}, "stopped"), pool \ {e})
                   \/ /\ envs' = Stop({e}, "failed")
                      /\ pool' = pool \ {e}
                      /\ Finish(i)
        \/ mine = {} /\ Finish(i) /\ UNCHANGED <<envs, pool>>
  /\ UNCHANGED <<cwd, held, ran, server>>

(* start_turn or start_task_with_history, and with it DirectoryRuntime's   *)
(* start: the run executes in the environment its id is bound to, and the  *)
(* handle the registry retains keeps that environment referenced.  A       *)
(* closed application, an unbound id, a host that is stopping or any other *)
(* refusal starts nothing.                                                 *)
Admit(i) ==
  /\ starts[i].phase = "bound"
  /\ \/ /\ server = "serving"
        /\ bindings[i] # Unbound
        /\ envs[bindings[i]].state = "live"
        /\ held' = held \cup {[id |-> ran + 1, of |-> i, env |-> bindings[i], running |-> TRUE]}
        /\ ran' = ran + 1
     \/ UNCHANGED <<held, ran>>
  /\ Finish(i)
  /\ UNCHANGED <<cwd, envs, pool, server>>

(* A run ends (external); the registry prunes ended runs.                  *)
RunEnds(run) ==
  /\ run.running
  /\ held' = (held \ {run}) \cup {[run EXCEPT !.running = FALSE]}
  /\ UNCHANGED <<cwd, envs, pool, bindings, starts, admission, ran, server>>

Prune(run) ==
  /\ ~run.running
  /\ held' = held \ {run}
  /\ UNCHANGED <<cwd, envs, pool, bindings, starts, admission, ran, server>>

-----------------------------------------------------------------------------
(* The stop signal: AgentApplication::shutdown refuses new runs, cancels   *)
(* the retained ones and waits for them while the listener drains.         *)
StopSignal ==
  /\ server = "serving"
  /\ server' = "draining"
  /\ UNCHANGED <<cwd, envs, pool, bindings, starts, admission, held, ran>>

(* The application's shutdown returns once every retained run has ended.   *)
Settled == \A run \in held : ~run.running

(* lib.rs waits for the application a second time; when that fails the     *)
(* process ends with the error and stops no environment.                   *)
Drained ==
  /\ server = "draining"
  /\ \/ Settled /\ server' = "drained"
     \/ ~Settled /\ server' = "aborted"
  /\ UNCHANGED <<cwd, envs, pool, bindings, starts, admission, held, ran>>

(* Environments::shutdown: closes the gate, which waits for the start that *)
(* holds it, then stops the subagents and the pooled environments; the     *)
(* first failure leaves the rest as they are.                              *)
Shutdown ==
  /\ server = "drained"
  /\ admission = "free"
  /\ admission' = "shutdown"
  /\ \/ UNCHANGED <<envs, pool>>
     \/ /\ envs' = Stop(pool, "stopped")
        /\ pool' = {}
     \/ \E some \in SUBSET pool : \E bad \in pool \ some :
          /\ envs' = [e \in DOMAIN envs |->
                CASE e \in some -> [envs[e] EXCEPT !.state = "stopped"]
                  [] e = bad -> [envs[e] EXCEPT !.state = "failed"]
                  [] OTHER -> envs[e]]
          /\ pool' = pool \ some
  /\ server' = "stopped"
  /\ UNCHANGED <<cwd, bindings, starts, held, ran>>

Next ==
  \/ \E i \in Ids : Arrive(i) \/ Resolve(i) \/ Admit(i)
  \/ \E run \in held : RunEnds(run) \/ Prune(run)
  \/ StopSignal \/ Drained \/ Shutdown

Spec == Init /\ [][Next]_environmentVars

-----------------------------------------------------------------------------
(* A run's environment outlives it: as long as a run executes, the host it *)
(* executes in has not been stopped, by an eviction or by the server's     *)
(* shutdown, it is the environment of the run's own directory, and no      *)
(* second one of that directory is in use beside it.                       *)
RunHeld ==
  \A run \in held :
    run.running =>
      /\ envs[run.env].state = "live"
      /\ envs[run.env].root = cwd[run.of]
      /\ \A other \in held :
           other.running /\ cwd[other.of] = cwd[run.of] => other.env = run.env
=============================================================================
