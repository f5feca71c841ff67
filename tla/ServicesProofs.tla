---------------------------- MODULE ServicesProofs ----------------------------
(***************************************************************************)
(* What the server keeps alive is safe: proofs about the parts MCServices  *)
(* composes, for any plugins, directories, threads, calls and settings.    *)
(*                                                                         *)
(* A step of the server is a step of one part, so each part has its own    *)
(* inductive invariant, which the steps of the others leave alone.  The    *)
(* host's rests on what sort_plugins computes (OrderLayered), which is an  *)
(* induction over the rounds of the sort: SetInduction is the induction    *)
(* principle for a set of naturals, from which it is derived.  The reply   *)
(* stream's rests on what FlattenSeq gives: Flattens is the function that  *)
(* defines it, and the rest is sequences, items and events.                *)
(***************************************************************************)
EXTENDS MCServices, SequenceTheorems, WellFoundedInduction, TLAPS

-----------------------------------------------------------------------------
(* Natural numbers: least elements, and induction over a set of them.      *)

\* A nonempty set of naturals has a least element.
LEMMA LeastExists ==
  ASSUME NEW S, S \subseteq Nat, S # {}
  PROVE  \E x \in S : \A y \in S : x <= y
<1> DEFINE R == OpToRel(<, Nat)
<1>1. IsWellFoundedOn(R, Nat)
  BY NatLessThanWellFounded
<1> HIDE DEF R
<1>2. PICK x \in S : \A y \in S : ~ (<<y, x>> \in R)
  BY <1>1, WFMin, Zenon
<1>3. \A a, b \in Nat : a < b => <<a, b>> \in R
  BY DEF R, OpToRel
<1>4. \A y \in S : y \in Nat /\ x \in Nat
  OBVIOUS
<1>5. \A y \in S : ~(y < x)
  BY <1>2, <1>3, <1>4, Zenon
<1>6. \A y \in S : x <= y
  BY <1>4, <1>5, SMT
<1>7. QED
  BY <1>6

\* A set that holds 0 and the successor of each of its elements holds every natural.
LEMMA SetInduction ==
  ASSUME NEW S, 0 \in S, \A n \in Nat : n \in S => n + 1 \in S
  PROVE  Nat \subseteq S
<1> SUFFICES ASSUME Nat \ S # {} PROVE FALSE
  OBVIOUS
<1>1. PICK x \in Nat \ S : \A y \in Nat \ S : x <= y
  BY LeastExists
<1>2. x - 1 \in Nat /\ x - 1 \notin Nat \ S
  BY <1>1
<1>3. (x - 1) + 1 \in S
  BY <1>2
<1> QED
  BY <1>1, <1>3

-----------------------------------------------------------------------------
(* The order of installation                                               *)

\* Every plugin comes after all it requires.
Layered(r, s) == \A k \in DOMAIN s : r[s[k]] \subseteq {s[j] : j \in 1..(k - 1)}

\* One round of sort_plugins: the least plugin that is ready.
Round(r, done) ==
    IF Ready(r, done) = {} THEN done ELSE Append(done, MinOf(Ready(r, done)))
\* f holds the first n rounds of sort_plugins.
Rounds(r, n, f) ==
    /\ f \in [0..n -> Seq(Plugins)]
    /\ f[0] = <<>> /\ \A m \in 1..n : f[m] = Round(r, f[m - 1])

\* A round adds one plugin, and one whose requirements are there.
LEMMA RoundLayered ==
  ASSUME NEW r, NEW done \in Seq(Plugins), Layered(r, done)
  PROVE  Round(r, done) \in Seq(Plugins) /\ Layered(r, Round(r, done))
<1>1. CASE Ready(r, done) = {}
  BY <1>1 DEF Round
<1>2. CASE Ready(r, done) # {}
  <2> DEFINE p == MinOf(Ready(r, done))
  <2>1. Ready(r, done) \subseteq Nat
    BY DEF Ready, Plugins
  <2>2. p \in Ready(r, done)
    BY <1>2, <2>1, LeastExists DEF MinOf
  <2>3. p \in Plugins /\ r[p] \subseteq {done[j] : j \in DOMAIN done}
    BY <2>2 DEF Ready, Range
  <2> HIDE DEF p
  <2>4. Round(r, done) = Append(done, p)
    BY <1>2 DEF Round, p
  <2>5. ASSUME NEW k \in DOMAIN Append(done, p)
        PROVE  r[Append(done, p)[k]] \subseteq {Append(done, p)[j] : j \in 1..(k - 1)}
    BY <2>3 DEF Layered
  <2> QED
    BY <2>3, <2>4, <2>5 DEF Layered
<1> QED
  BY <1>1, <1>2

\* The rounds exist, so that the recursive function of Order is one.
LEMMA RoundsExist ==
  ASSUME NEW r
  PROVE  \A n \in Nat : \E f : Rounds(r, n, f) /\ \A m \in 0..n : Layered(r, f[m])
<1> DEFINE P(n) == \E f : Rounds(r, n, f) /\ \A m \in 0..n : Layered(r, f[m])
           S == {n \in Nat : P(n)}
<1>1. 0 \in S
  <2> DEFINE f == [m \in 0..0 |-> <<>>]
  <2>1. Rounds(r, 0, f)
    BY DEF Rounds
  <2>2. \A m \in 0..0 : Layered(r, f[m])
    BY DEF Layered
  <2> QED
    BY <2>1, <2>2
<1>2. ASSUME NEW n \in Nat, n \in S PROVE n + 1 \in S
  <2>1. PICK f : Rounds(r, n, f) /\ \A m \in 0..n : Layered(r, f[m])
    BY <1>2
  <2> DEFINE next == Round(r, f[n])
             g == [m \in 0..(n + 1) |-> IF m = n + 1 THEN next ELSE f[m]]
  <2>2. next \in Seq(Plugins) /\ Layered(r, next)
    BY <2>1, RoundLayered DEF Rounds
  <2>3. next = Round(r, f[n])
    OBVIOUS
  <2> HIDE DEF next
  <2>4. Rounds(r, n + 1, g)
    BY <2>1, <2>2, <2>3 DEF Rounds
  <2>5. \A m \in 0..(n + 1) : Layered(r, g[m])
    BY <2>1, <2>2
  <2> HIDE DEF g
  <2> QED
    BY <2>4, <2>5
<1> HIDE DEF S
<1>3. Nat \subseteq S
  BY <1>1, <1>2, SetInduction
<1> QED
  BY <1>3 DEF S

\* sort_plugins places no plugin before one it requires.
LEMMA OrderLayered ==
  ASSUME NEW r
  PROVE  Order(r) \in Seq(Plugins) /\ Layered(r, Order(r))
<1> DEFINE F(g) == [n \in 0..NPlugins |-> IF n = 0 THEN <<>> ELSE Round(r, g[n - 1])]
           Sorted == CHOOSE g : g = F(g)
<1>1. Order(r) = Sorted[NPlugins]
  BY DEF Order, Round
<1>2. \E g : g = F(g)
  <2>1. PICK f : Rounds(r, NPlugins, f)
    BY RoundsExist, PluginAssumption
  <2>2. f = F(f)
    BY <2>1 DEF Rounds
  <2> QED
    BY <2>2
<1>3. Sorted = F(Sorted)
  BY <1>2
<1> HIDE DEF Sorted
<1> DEFINE S == {n \in Nat : n <= NPlugins => Sorted[n] \in Seq(Plugins) /\ Layered(r, Sorted[n])}
<1>4. 0 \in S
  BY <1>3, PluginAssumption DEF Layered
<1>5. ASSUME NEW n \in Nat, n \in S PROVE n + 1 \in S
  <2>1. n + 1 <= NPlugins => Sorted[n + 1] = Round(r, Sorted[n])
    BY <1>3, PluginAssumption
  <2> QED
    BY <1>5, <2>1, RoundLayered, PluginAssumption
<1> HIDE DEF S
<1>6. NPlugins \in S
  BY <1>4, <1>5, SetInduction, PluginAssumption
<1> QED
  BY <1>1, <1>6, PluginAssumption DEF S

-----------------------------------------------------------------------------
(* The host                                                                *)

Alive == {"starting", "running", "reported"}
Unborn == {"building", "rollback", "failed"}

\* How far the host's life and its shutdown have come, and what that says of the runs.
Lifecycle ==
    /\ host \in Unborn => closer = "idle" /\ ~registry /\ \A r \in Runs : task[r] = "new"
    /\ host = "building" => stopped = {}
    /\ host \notin Unborn => registry \/ closer \in {"stopping", "done"}
    /\ registry => stopped = {}
    /\ closer \in {"stopping", "done"} => ~registry
    /\ closer \in {"revoke", "stopping", "done"} => runs = {}
    /\ closer # "idle" \/ host = "dropped" => closed
    /\ closed => runs \subseteq cancelled
    /\ \A r \in Runs : r \in runs <=> task[r] \in Alive

\* What is installed is a prefix of the order while the host is built, and layered always.
Installation ==
    /\ host = "building" => \A k \in DOMAIN installed : installed[k] = Order(requires)[k]
    /\ host = "building" /\ Cyclic => installed = <<>>
    /\ Layered(requires, installed)
    /\ host \in Unborn => attempted = stopped \union Range(installed)
    /\ host = "failed" => installed = <<>>

\* The inductive invariant of the host.
HostInv == TypeOK /\ Lifecycle /\ Installation

\* At first nothing is installed, no run has started and nobody closes.
LEMMA HostInit == Init => HostInv
<1> SUFFICES ASSUME Init PROVE HostInv
  OBVIOUS
<1>1. TypeOK
  <2>1. task \in [Runs -> {"new", "starting", "running", "reported", "leaving", "gone"}]
    BY DEF Init
  <2>2. requires \in Manifests /\ installed \in Seq(Plugins)
    BY DEF Init
  <2> QED
    BY <2>1, <2>2 DEF Init, TypeOK
<1>2. Lifecycle
  BY DEF Init, Lifecycle, Unborn, Alive
<1>3. Installation
  BY DEF Init, Installation, Layered, Range, Unborn
<1> QED
  BY <1>1, <1>2, <1>3 DEF HostInv

\* stop_plugins takes the last plugin off the stack.
LEMMA PopTakesLast ==
  ASSUME installed \in Seq(Plugins), Layered(requires, installed), Pop, requires' = requires
  PROVE  /\ installed' \in Seq(Plugins) /\ Layered(requires', installed')
         /\ stopped' \union Range(installed') = stopped \union Range(installed)
         /\ stopped' \subseteq stopped \union Plugins
<1>1. Len(installed) \in Nat \ {0}
  BY DEF Pop
<1>2. /\ installed' \in Seq(Plugins) /\ DOMAIN installed' = 1..(Len(installed) - 1)
      /\ \A k \in DOMAIN installed' : installed'[k] = installed[k]
  BY <1>1 DEF Pop
<1>3. Layered(requires', installed')
  <2>1. ASSUME NEW k \in DOMAIN installed'
        PROVE  /\ k \in DOMAIN installed /\ installed'[k] = installed[k]
               /\ {installed'[j] : j \in 1..(k - 1)} = {installed[j] : j \in 1..(k - 1)}
    BY SMTT(30), <1>1, <1>2
  <2> QED
    BY <2>1 DEF Layered
<1>4. Range(installed) = Range(installed') \union {installed[Len(installed)]}
  BY <1>1, <1>2 DEF Range
<1> QED
  BY <1>1, <1>2, <1>3, <1>4 DEF Pop

\* Building keeps the order; a failed build has stopped all it attempted.
LEMMA InstallationStep == HostInv /\ [Next]_vars => Installation'
<1> SUFFICES ASSUME HostInv, [Next]_vars PROVE Installation'
  OBVIOUS
<1> USE DEF HostInv, Installation, TypeOK, Unborn, Cyclic
<1>0. CASE UNCHANGED <<requires, host, installed, stopped, attempted>>
  BY <1>0 DEF Layered, Range
<1>1. CASE BuildCycle
  BY <1>1 DEF BuildCycle, Lifecycle, Layered, Range
<1>2. CASE InstallOk \/ InstallFails
  <2>1. /\ installed' = Append(installed, NextPlugin) /\ attempted' = attempted \union {NextPlugin}
        /\ requires' = requires /\ stopped' = stopped /\ host = "building"
        /\ ~Cyclic /\ Len(installed) < NPlugins /\ host' \in {"building", "rollback"}
    BY <1>2 DEF InstallOk, InstallFails
  <2>2. /\ Order(requires) \in Seq(Plugins) /\ Layered(requires, Order(requires))
        /\ Len(installed) + 1 \in DOMAIN Order(requires)
    BY <2>1, OrderLayered, PluginAssumption
  <2> DEFINE n == Len(installed)
  <2>3. /\ NextPlugin \in Plugins
        /\ requires[NextPlugin] \subseteq {installed[j] : j \in 1..n}
    <3>1. NextPlugin = Order(requires)[n + 1] /\ NextPlugin \in Plugins
      BY <2>2 DEF NextPlugin
    <3>2. requires[NextPlugin] \subseteq {Order(requires)[j] : j \in 1..n}
      BY <2>2, <3>1 DEF Layered
    <3>3. {Order(requires)[j] : j \in 1..n} = {installed[j] : j \in 1..n}
      BY <2>1
    <3> QED
      BY <3>1, <3>2, <3>3
  <2>4. NextPlugin = Order(requires)[n + 1]
    BY DEF NextPlugin
  <2>5. /\ DOMAIN installed' = 1..(n + 1) /\ installed'[n + 1] = NextPlugin
        /\ \A k \in 1..n : installed'[k] = installed[k]
    BY <2>1, <2>3
  <2>6. \A k \in DOMAIN installed' : installed'[k] = Order(requires')[k]
    BY <2>1, <2>4, <2>5
  <2>7. Layered(requires, installed)'
    <3>1. ASSUME NEW k \in 1..(n + 1)
          PROVE  {installed'[j] : j \in 1..(k - 1)} = {installed[j] : j \in 1..(k - 1)}
      BY <2>5
    <3> QED
      BY <2>1, <2>3, <2>5, <3>1 DEF Layered
  <2>8. Range(installed') = Range(installed) \union {NextPlugin}
    BY <2>1, <2>3 DEF Range
  <2> QED
    BY <2>1, <2>6, <2>7, <2>8
<1>3. CASE BuildOk \/ BuildNoModel
  BY <1>3 DEF BuildOk, BuildNoModel, Layered, Range
<1>4. CASE Rollback
  <2>1. CASE Pop /\ UNCHANGED <<host, requires, attempted>>
    BY <1>4, <2>1, PopTakesLast DEF Rollback
  <2>2. CASE installed = <<>> /\ host' = "failed" /\ UNCHANGED <<installed, stopped, requires, attempted>>
    BY <1>4, <2>2 DEF Rollback, Layered, Range
  <2> QED
    BY <1>4, <2>1, <2>2 DEF Rollback
<1>5. CASE StopPlugin
  <2>1. Pop /\ UNCHANGED <<host, requires, attempted>> /\ host \notin Unborn
    BY <1>5 DEF StopPlugin, Lifecycle
  <2> QED
    BY <2>1, PopTakesLast
<1>6. CASE DropHost
  BY <1>6 DEF DropHost, Layered, Range
<1>7. CASE Shutdown \/ CloseTimeout \/ CloseCheck \/ CloseWake \/ CloseRevoke \/ StopDone
  BY <1>7, <1>0 DEF Shutdown, CloseTimeout, CloseCheck, CloseWake, CloseRevoke, StopDone, hostVars
<1>8. ASSUME NEW r \in Runs, Admit(r) \/ CancelRun(r) \/ RunTask(r)
      PROVE  Installation'
  BY <1>8, <1>0 DEF Admit, CancelRun, RunTask, Spawn, StartFails, RunReports, RunGone, hostVars
<1>9. CASE UNCHANGED vars
  BY <1>9, <1>0 DEF vars
<1> QED
  BY <1>1, <1>2, <1>3, <1>4, <1>5, <1>6, <1>7, <1>8, <1>9
  DEF Next, Build, Close, Ended

\* Types, and the runs against the stages of the shutdown.
LEMMA LifecycleStep == HostInv /\ [Next]_vars => TypeOK' /\ Lifecycle'
<1> SUFFICES ASSUME HostInv, [Next]_vars PROVE TypeOK' /\ Lifecycle'
  OBVIOUS
<1> USE DEF HostInv, TypeOK, Lifecycle, Unborn, Alive, hostVars, runVars
<1>1. CASE BuildCycle \/ BuildOk \/ BuildNoModel
  <2>1. TypeOK'
    BY <1>1 DEF BuildCycle, BuildOk, BuildNoModel
  <2>2. Lifecycle'
    BY <1>1 DEF BuildCycle, BuildOk, BuildNoModel
  <2> QED
    BY <2>1, <2>2
<1>2. CASE InstallOk \/ InstallFails
  <2>1. NextPlugin \in Plugins
    BY <1>2, OrderLayered, PluginAssumption DEF InstallOk, InstallFails, NextPlugin, Cyclic
  <2> QED
    BY <1>2, <2>1 DEF InstallOk, InstallFails
<1>3. CASE Rollback
  <2>1. installed' \in Seq(Plugins) /\ stopped' \subseteq Plugins
    BY <1>3, PopTakesLast DEF Rollback, Installation
  <2> QED
    BY <1>3, <2>1 DEF Rollback
<1>4. CASE StopPlugin
  <2>1. installed' \in Seq(Plugins) /\ stopped' \subseteq Plugins
    BY <1>4, PopTakesLast DEF StopPlugin, Installation
  <2> QED
    BY <1>4, <2>1 DEF StopPlugin
<1>5. CASE Shutdown \/ DropHost
  <2>1. TypeOK'
    BY <1>5 DEF Shutdown, DropHost, CancelAll
  <2>2. Lifecycle'
    BY <1>5 DEF Shutdown, DropHost, CancelAll
  <2> QED
    BY <2>1, <2>2
<1>6. CASE CloseCheck \/ CloseWake \/ CloseTimeout \/ CloseRevoke \/ StopDone
  <2>1. TypeOK'
    BY <1>6 DEF CloseCheck, CloseWake, CloseTimeout, CloseRevoke, StopDone
  <2>2. Lifecycle'
    BY <1>6 DEF CloseCheck, CloseWake, CloseTimeout, CloseRevoke, StopDone
  <2> QED
    BY <2>1, <2>2
<1>7. ASSUME NEW r \in Runs, Admit(r) \/ CancelRun(r) \/ Spawn(r) \/ RunReports(r)
      PROVE  TypeOK' /\ Lifecycle'
  BY <1>7 DEF Admit, CancelRun, Spawn, RunReports
<1>8. ASSUME NEW r \in Runs, StartFails(r) \/ RunGone(r)
      PROVE  TypeOK' /\ Lifecycle'
  <2>1. TypeOK'
    BY <1>8 DEF StartFails, RunGone, Release
  <2>2. Lifecycle'
    BY <1>8 DEF StartFails, RunGone, Release
  <2> QED
    BY <2>1, <2>2
<1>9. CASE UNCHANGED vars
  BY <1>9 DEF vars
<1> QED
  BY <1>1, <1>2, <1>3, <1>4, <1>5, <1>6, <1>7, <1>8, <1>9
  DEF Next, Build, Close, RunTask, Ended

\* The order of the stack is what keeps a plugin behind those that require it, and the stage of the
\* shutdown what keeps it behind the runs.
LEMMA HostInvImplies == HostInv => OrderlyStop
<1> SUFFICES ASSUME HostInv PROVE OrderlyStop
  OBVIOUS
<1> USE DEF HostInv
<1>1. PluginsOutliveRuns /\ ClosedMeansCancelled
  BY DEF Lifecycle, PluginsOutliveRuns, ClosedMeansCancelled, Alive, Unborn
<1>2. DependenciesOutlive
  <2>1. ASSUME NEW k \in DOMAIN installed
        PROVE  requires[installed[k]] \subseteq Range(installed)
    <3>1. requires[installed[k]] \subseteq {installed[j] : j \in 1..(k - 1)}
      BY DEF Installation, Layered
    <3>2. \A j \in 1..(k - 1) : j \in DOMAIN installed
      BY DEF TypeOK
    <3> QED
      BY <3>1, <3>2 DEF Range
  <2>2. host = "failed" => stopped = attempted
    <3>1. ASSUME host = "failed" PROVE Range(installed) = {}
      BY <3>1 DEF Installation, Range, Unborn
    <3> QED
      BY <3>1 DEF Installation, Unborn
  <2> QED
    BY <2>1, <2>2 DEF DependenciesOutlive, Range
<1> QED
  BY <1>1, <1>2 DEF OrderlyStop

\* Whatever the dependency relation, the number of plugins and of runs: plugins outlive the runs, a
\* plugin outlives those that require it, a build that failed has stopped all it attempted, and a
\* closed registry has cancelled its runs (host.rs build, stop_plugins; engine.rs close).
THEOREM OrderlyStopHolds == FairSpec => []OrderlyStop
<1>1. HostInv /\ [Next]_vars => HostInv'
  BY InstallationStep, LifecycleStep DEF HostInv
<1> QED
  BY <1>1, HostInit, HostInvImplies, PTL DEF FairSpec

\* The same of the host inside the server, where the other parts take steps too.
THEOREM ServerOrderlyStop == AllSpec => []OrderlyStop
<1>1. AllInit => Init
  BY Zenon DEF AllInit
<1>2. [AllNext]_allVars => [Next]_vars
  BY Zenon DEF AllNext, OfHost, OfServices, Rest, allVars
<1>3. HostInv /\ [Next]_vars => HostInv'
  BY InstallationStep, LifecycleStep DEF HostInv
<1> QED
  BY <1>1, <1>2, <1>3, HostInit, HostInvImplies, PTL DEF AllSpec

-----------------------------------------------------------------------------
(* Environments: one live environment per directory (environment.rs)       *)

\* An environment and a retained run, as the model lists them.
Environment == [root : Roots, state : {"live", "stopped", "failed"}]
Held == [id : Nat, of : Environments!Ids, env : Nat, running : BOOLEAN]

\* The types of the environments' state.
EnvType ==
    /\ cwd \in [Environments!Ids -> Roots]
    /\ envs \in Seq(Environment)
    /\ pool \subseteq DOMAIN envs
    /\ bindings \in [Environments!Ids -> Nat]
    /\ held \subseteq Held /\ ran \in Nat

\* While the environments have not been shut down, the pool holds one live environment per
\* directory, and among them everything that is bound or retained.
Pooled ==
    server # "stopped" =>
        /\ \A e \in pool : envs[e].state = "live"
        /\ \A e, f \in pool : envs[e].root = envs[f].root => e = f
        /\ \A i \in Environments!Ids :
             bindings[i] # 0 => bindings[i] \in pool /\ envs[bindings[i]].root = cwd[i]
        /\ \A run \in held : run.env \in pool /\ envs[run.env].root = cwd[run.of]

\* The inductive invariant of the environments.
EnvInv ==
    /\ EnvType /\ Pooled
    /\ server \in {"drained", "stopped"} => \A run \in held : ~run.running

\* The pool starts empty, with nothing bound.
LEMMA EnvInit == AllInit => EnvInv
<1>1. AllInit => Environments!Init
  BY Zenon DEF AllInit
<1> QED
  BY <1>1 DEF Environments!Init, EnvInv, EnvType, Pooled, Environments!Unbound

\* Stopping environments leaves the list, and everything but the state of those.
LEMMA StopOnly ==
  ASSUME envs \in Seq(Environment), NEW es, NEW how \in {"stopped", "failed"}
  PROVE  LET after == Environments!Stop(es, how)
         IN  /\ after \in Seq(Environment) /\ DOMAIN after = DOMAIN envs /\ Len(after) = Len(envs)
             /\ \A e \in DOMAIN envs : after[e].root = envs[e].root
             /\ \A e \in DOMAIN envs : e \notin es => after[e] = envs[e]
<1> DEFINE after == Environments!Stop(es, how)
<1>1. after = [e \in 1..Len(envs) |-> IF e \in es THEN [envs[e] EXCEPT !.state = how] ELSE envs[e]]
  BY DEF Environments!Stop
<1> HIDE DEF after
<1>2. \A e \in 1..Len(envs) : after[e] \in Environment /\ after[e].root = envs[e].root
  <2>1. \A r \in Environment : LET s == [r EXCEPT !.state = how] IN s \in Environment /\ s.root = r.root
    BY DEF Environment
  <2> QED
    BY <1>1, <2>1
<1>3. after \in Seq(Environment) /\ DOMAIN after = 1..Len(envs) /\ Len(after) = Len(envs)
  BY <1>1, <1>2
<1>4. \A e \in DOMAIN envs : e \notin es => after[e] = envs[e]
  BY <1>1
<1> QED
  BY <1>2, <1>3, <1>4 DEF after

\* A new environment is live in the one directory that has none.
LEMMA BuildStep ==
  ASSUME EnvInv, NEW i \in Environments!Ids, NEW stopped_,
         NEW left \in SUBSET pool,
         stopped_ \in Seq(Environment), Len(stopped_) = Len(envs),
         \A e \in left : stopped_[e] = envs[e],
         \A e \in pool : envs[e].root # cwd[i],
         \A j \in Environments!Ids : bindings[j] # 0 => bindings[j] \in left \/ server = "stopped",
         \A run \in held : run.env \in left \/ server = "stopped",
         envs' = Append(stopped_, [root |-> cwd[i], state |-> "live"]),
         pool' = left \cup {Len(envs) + 1},
         bindings' = [bindings EXCEPT ![i] = Len(envs) + 1],
         UNCHANGED <<cwd, held, ran, server>>
  PROVE  EnvInv'
<1> DEFINE built == Len(envs) + 1
           new == [root |-> cwd[i], state |-> "live"]
<1>1. new \in Environment /\ built \in Nat \ {0}
  BY DEF EnvInv, EnvType, Environment
<1>2. /\ envs' \in Seq(Environment) /\ DOMAIN envs' = 1..built /\ envs'[built] = new
      /\ \A e \in left : e \in DOMAIN envs /\ e # built /\ envs'[e] = envs[e]
  BY <1>1 DEF EnvInv, EnvType
<1>3. EnvType'
  BY <1>1, <1>2 DEF EnvInv, EnvType
<1>4. Pooled'
  <2> SUFFICES ASSUME server # "stopped" PROVE Pooled'
    BY DEF Pooled
  <2>1. \A e \in pool' : envs'[e].state = "live"
    BY <1>2 DEF EnvInv, Pooled
  <2>2. \A e, f \in pool' : envs'[e].root = envs'[f].root => e = f
    BY <1>2 DEF EnvInv, Pooled
  <2>3. \A j \in Environments!Ids :
          bindings'[j] # 0 => bindings'[j] \in pool' /\ envs'[bindings'[j]].root = cwd'[j]
    BY <1>2 DEF EnvInv, EnvType, Pooled
  <2>4. \A run \in held' : run.env \in pool' /\ envs'[run.env].root = cwd'[run.of]
    BY <1>2 DEF EnvInv, Pooled
  <2> QED
    BY <2>1, <2>2, <2>3, <2>4 DEF Pooled
<1> QED
  BY <1>3, <1>4 DEF EnvInv

\* The environment that is evicted is one nobody refers to.
LEMMA ResolveStep ==
  ASSUME EnvInv, NEW i \in Environments!Ids, Environments!Resolve(i)
  PROVE  EnvInv'
<1> USE DEF EnvInv, EnvType
<1> DEFINE mine == {e \in pool : envs[e].root = cwd[i]}
           Renew(stopped_, left) ==
             /\ envs' = Append(stopped_, [root |-> cwd[i], state |-> "live"])
             /\ pool' = left \cup {Len(envs) + 1}
             /\ bindings' = [bindings EXCEPT ![i] = Len(envs) + 1]
<1>0. UNCHANGED <<cwd, held, ran, server>>
  BY DEF Environments!Resolve
<1>1. CASE \E e \in mine : bindings' = [bindings EXCEPT ![i] = e] /\ UNCHANGED <<envs, pool>>
  BY <1>0, <1>1 DEF Pooled
<1>2. CASE mine = {} /\ Renew(envs, pool)
  <2>1. \A j \in Environments!Ids : bindings[j] # 0 => bindings[j] \in pool \/ server = "stopped"
    BY DEF Pooled
  <2>2. \A run \in held : run.env \in pool \/ server = "stopped"
    BY DEF Pooled
  <2> QED
    BY <1>0, <1>2, <2>1, <2>2, BuildStep
<1>3. ASSUME NEW e \in pool, mine = {}, Environments!Unused(e),
             Renew(Environments!Stop({e}, "stopped"), pool \ {e})
      PROVE  EnvInv'
  <2> DEFINE after == Environments!Stop({e}, "stopped")
  <2>1. /\ after \in Seq(Environment) /\ Len(after) = Len(envs)
        /\ \A f \in pool \ {e} : after[f] = envs[f]
    BY StopOnly
  <2> HIDE DEF after
  <2>2. \A j \in Environments!Ids : bindings[j] # 0 => bindings[j] \in pool \ {e} \/ server = "stopped"
    BY <1>3 DEF Pooled, Environments!Unused
  <2>3. \A run \in held : run.env \in pool \ {e} \/ server = "stopped"
    BY <1>3 DEF Pooled, Environments!Unused
  <2>4. \A f \in pool : envs[f].root # cwd[i]
    BY <1>3
  <2>5. Renew(after, pool \ {e})
    BY <1>3 DEF after
  <2> QED
    BY <1>0, <2>1, <2>2, <2>3, <2>4, <2>5, BuildStep
<1>4. ASSUME NEW e \in pool, Environments!Unused(e),
             envs' = Environments!Stop({e}, "failed"), pool' = pool \ {e},
             bindings' = [bindings EXCEPT ![i] = 0]
      PROVE  EnvInv'
  <2> DEFINE after == Environments!Stop({e}, "failed")
  <2>1. /\ after \in Seq(Environment) /\ DOMAIN after = DOMAIN envs
        /\ \A f \in pool \ {e} : after[f] = envs[f]
    BY StopOnly
  <2>2. envs' = after
    BY <1>4
  <2> HIDE DEF after
  <2>3. EnvType'
    BY <1>0, <1>4, <2>1, <2>2
  <2>4. Pooled'
    <3> SUFFICES ASSUME server # "stopped" PROVE Pooled'
      BY <1>0 DEF Pooled
    <3>1. \A f \in pool' : f \in pool /\ envs'[f] = envs[f]
      BY <1>4, <2>1, <2>2
    <3>2. \A j \in Environments!Ids : bindings'[j] # 0 => bindings'[j] = bindings[j] /\ bindings[j] \in pool'
      BY <1>4 DEF Pooled, Environments!Unused
    <3>3. \A run \in held : run.env \in pool'
      BY <1>4 DEF Pooled, Environments!Unused
    <3> QED
      BY <1>0, <3>1, <3>2, <3>3 DEF Pooled
  <2> QED
    BY <1>0, <2>3, <2>4
<1>5. CASE bindings' = [bindings EXCEPT ![i] = 0] /\ UNCHANGED <<envs, pool>>
  BY <1>0, <1>5 DEF Pooled
<1> QED
  BY <1>1, <1>2, <1>3, <1>4, <1>5
  DEF Environments!Resolve, Environments!Finish, Environments!Unbound

\* A start, a run's end, the end of the server.
LEMMA EnvStep == EnvInv /\ [AllNext]_allVars => EnvInv'
<1> SUFFICES ASSUME EnvInv, [AllNext]_allVars PROVE EnvInv'
  OBVIOUS
<1> USE DEF EnvInv, EnvType, Held
<1>1. CASE UNCHANGED environmentVars
  BY <1>1 DEF environmentVars, Pooled
<1>2. ASSUME NEW i \in Environments!Ids, Environments!Arrive(i)
      PROVE  EnvInv'
  BY <1>2 DEF Environments!Arrive, Pooled
<1>3. ASSUME NEW i \in Environments!Ids, Environments!Admit(i)
      PROVE  EnvInv'
  <2>1. bindings' = [bindings EXCEPT ![i] = 0] /\ UNCHANGED <<cwd, envs, pool, server>>
    BY <1>3 DEF Environments!Admit, Environments!Finish, Environments!Unbound
  <2>2. CASE UNCHANGED <<held, ran>>
    BY <2>1, <2>2 DEF Pooled
  <2>3. CASE /\ server = "serving" /\ bindings[i] # 0 /\ ran' = ran + 1
             /\ held' = held \cup {[id |-> ran + 1, of |-> i, env |-> bindings[i], running |-> TRUE]}
    <3> DEFINE run == [id |-> ran + 1, of |-> i, env |-> bindings[i], running |-> TRUE]
    <3>1. run \in Held
      OBVIOUS
    <3>2. run.env \in pool /\ envs[run.env].root = cwd[run.of]
      BY <2>3 DEF Pooled
    <3>3. held' = held \cup {run} /\ server = "serving" /\ ran' = ran + 1
      BY <2>3
    <3> HIDE DEF run
    <3> QED
      BY <2>1, <3>1, <3>2, <3>3 DEF Pooled
  <2> QED
    BY <1>3, <2>2, <2>3 DEF Environments!Admit, Environments!Unbound
<1>4. ASSUME NEW run \in held, Environments!RunEnds(run) \/ Environments!Prune(run)
      PROVE  EnvInv'
  <2> DEFINE ended == [run EXCEPT !.running = FALSE]
  <2>1. /\ ended \in Held /\ ended.env = run.env /\ ended.of = run.of /\ ~ended.running
    OBVIOUS
  <2>2. held' = (held \ {run}) \cup {ended} \/ held' = held \ {run}
    BY <1>4 DEF Environments!RunEnds, Environments!Prune
  <2> HIDE DEF ended
  <2>3. UNCHANGED <<cwd, envs, pool, bindings, ran, server>>
    BY <1>4 DEF Environments!RunEnds, Environments!Prune
  <2>4. EnvType'
    BY <2>1, <2>2, <2>3
  <2>5. Pooled'
    BY <2>1, <2>2, <2>3 DEF Pooled
  <2> QED
    BY <2>1, <2>2, <2>3, <2>4, <2>5
<1>5. CASE Environments!StopSignal \/ Environments!Drained
  BY <1>5 DEF Environments!StopSignal, Environments!Drained, Environments!Settled, Pooled
<1>6. CASE Environments!Shutdown
  <2>1. server' = "stopped" /\ (\A run \in held : ~run.running) /\ UNCHANGED <<cwd, bindings, held, ran>>
    BY <1>6 DEF Environments!Shutdown
  <2>2. envs' \in Seq(Environment) /\ DOMAIN envs' = DOMAIN envs
    <3>1. CASE UNCHANGED envs
      BY <3>1
    <3>2. CASE envs' = Environments!Stop(pool, "stopped")
      BY <3>2, StopOnly
    <3>3. ASSUME NEW some \in SUBSET pool, NEW bad \in pool \ some,
                 envs' = [e \in DOMAIN envs |->
                   CASE e \in some -> [envs[e] EXCEPT !.state = "stopped"]
                     [] e = bad -> [envs[e] EXCEPT !.state = "failed"]
                     [] OTHER -> envs[e]]
          PROVE  envs' \in Seq(Environment) /\ DOMAIN envs' = DOMAIN envs
      <4>1. \A r \in Environment, how \in {"stopped", "failed"} : [r EXCEPT !.state = how] \in Environment
        BY DEF Environment
      <4>2. \A e \in DOMAIN envs : envs'[e] \in Environment
        BY SMTT(30), <3>3, <4>1
      <4>3. DOMAIN envs' = DOMAIN envs /\ DOMAIN envs = 1..Len(envs)
        BY <3>3
      <4>4. envs' = [e \in 1..Len(envs) |->
                      IF e \in some THEN [envs[e] EXCEPT !.state = "stopped"]
                      ELSE IF e = bad THEN [envs[e] EXCEPT !.state = "failed"] ELSE envs[e]]
        BY <3>3, <4>3
      <4> QED
        BY <4>2, <4>3, <4>4
    <3> QED
      BY <1>6, <3>1, <3>2, <3>3 DEF Environments!Shutdown
  <2>3. pool' \subseteq pool
    BY <1>6 DEF Environments!Shutdown
  <2> QED
    BY <2>1, <2>2, <2>3 DEF Pooled
<1> QED
  BY <1>1, <1>2, <1>3, <1>4, <1>5, <1>6, ResolveStep
  DEF AllNext, OfHost, OfServices, Rest, allVars, serviceVars, Environments!Next

\* In every behaviour of the server a run that still goes on has its own directory's environment,
\* live, whatever is evicted or bound meanwhile (environment.rs environment, start, shutdown).
THEOREM RunHeldHolds == AllSpec => []RunHeld
<1>1. EnvInv => RunHeld
  BY DEF EnvInv, EnvType, Held, Pooled, RunHeld, Environments!RunHeld
<1> QED
  BY <1>1, EnvInit, EnvStep, PTL DEF AllSpec

-----------------------------------------------------------------------------
(* Side conversations (side_routes.rs)                                     *)

\* A history, a turn, a thread and a run of the side conversations.
Chat == [opened : Nat, ran : Seq(Nat)]
Turn == [request : Requests, run : Nat, settled : BOOLEAN]
Thread == [opened : Nat, history : Chat, active : Nat, turns : Seq(Turn)]
Task == [of : SideThreads!Keys \X Requests, input : Chat,
         running : BOOLEAN, cancelled : BOOLEAN, kept : BOOLEAN]

\* The types of the side conversations' state.
SideType ==
    /\ threads \in [SideThreads!Keys -> Thread] /\ tasks \in Seq(Task)
    /\ opens \in Nat /\ waiters \subseteq [run : DOMAIN tasks, key : SideThreads!Keys, from : Nat]
    /\ desk.op \in {"open", "start", "record"} => desk.key \in SideThreads!Keys
    /\ desk.op \in {"start", "record"} => desk.request \in Requests
    /\ desk.op = "start" => desk.history \in Chat
    /\ desk.op = "record" => desk.run \in DOMAIN tasks

\* The thread an operation is about is as the operation found it, or gone.
DeskHolds ==
    /\ desk.op = "open" => ~SideThreads!IsOpen(desk.key)
    /\ desk.op \in {"start", "record"} => threads[desk.key].active = 0

\* The inductive invariant of the side conversations.
SideInv == SideType /\ DeskHolds /\ NoOrphanRun

\* No thread is open at first and no run exists.
LEMMA SideInit == AllInit => SideInv
<1>1. AllInit => SideThreads!Init
  BY Zenon DEF AllInit
<1>2. SideThreads!Closed \in Thread
  BY DEF SideThreads!Closed, SideThreads!History, Thread, Chat
<1>3. SideThreads!Init => SideType
  BY <1>2 DEF SideThreads!Init, SideThreads!Idle, SideType
<1>4. SideThreads!Init => DeskHolds /\ NoOrphanRun
  BY DEF SideThreads!Init, SideThreads!Idle, DeskHolds, NoOrphanRun, SideThreads!NoOrphanRun
<1> QED
  BY <1>1, <1>3, <1>4 DEF SideInv

\* A cancellation leaves the list of runs, and everything but the mark of those.
LEMMA CancelOnly ==
  ASSUME tasks \in Seq(Task), NEW rs
  PROVE  LET after == SideThreads!CancelTasks(rs)
         IN  /\ after \in Seq(Task) /\ DOMAIN after = DOMAIN tasks
             /\ \A r \in DOMAIN tasks :
                  /\ after[r].running = tasks[r].running
                  /\ ~after[r].cancelled => ~tasks[r].cancelled /\ r \notin rs
<1> DEFINE after == SideThreads!CancelTasks(rs)
<1>1. after = [r \in 1..Len(tasks) |->
                 IF r \in rs THEN [tasks[r] EXCEPT !.cancelled = TRUE] ELSE tasks[r]]
  BY DEF SideThreads!CancelTasks
<1>2. \A t \in Task : LET c == [t EXCEPT !.cancelled = TRUE]
                      IN  c \in Task /\ c.running = t.running /\ c.cancelled
  BY DEF Task
<1> HIDE DEF after
<1>3. \A r \in 1..Len(tasks) :
        /\ after[r] \in Task /\ after[r].running = tasks[r].running
        /\ ~after[r].cancelled => ~tasks[r].cancelled /\ r \notin rs
  BY <1>1, <1>2
<1>4. after \in Seq(Task) /\ DOMAIN after = DOMAIN tasks
  BY <1>1, <1>3
<1> QED
  BY <1>3, <1>4 DEF after

\* A thread is closed together with its active run, whatever the desk is about.
LEMMA DiscardStep ==
  ASSUME SideInv, NEW ks, SideThreads!Discard(ks), UNCHANGED <<desk, waiters, opens>>
  PROVE  SideInv'
<1> USE DEF SideInv, SideType
<1> DEFINE rs == {threads[k].active : k \in ks}
<1>1. /\ tasks' = SideThreads!CancelTasks(rs)
      /\ threads' = [k \in SideThreads!Keys |-> IF k \in ks THEN SideThreads!Closed ELSE threads[k]]
  BY DEF SideThreads!Discard
<1>2. /\ tasks' \in Seq(Task) /\ DOMAIN tasks' = DOMAIN tasks
      /\ \A r \in DOMAIN tasks :
           /\ tasks'[r].running = tasks[r].running
           /\ ~tasks'[r].cancelled => ~tasks[r].cancelled /\ r \notin rs
  BY <1>1, CancelOnly
<1>3. /\ SideThreads!Closed \in Thread /\ SideThreads!Closed.active = 0
      /\ SideThreads!Closed.opened = 0
  BY DEF SideThreads!Closed, SideThreads!History, Thread, Chat
<1>4. SideType'
  BY <1>1, <1>2, <1>3
<1>6. DeskHolds'
  <2>1. \A k \in SideThreads!Keys :
          /\ threads[k].active = 0 => threads'[k].active = 0
          /\ ~SideThreads!IsOpen(k) => ~SideThreads!IsOpen(k)'
    BY <1>1, <1>3 DEF SideThreads!IsOpen
  <2> QED
    BY <2>1 DEF DeskHolds
<1>5. NoOrphanRun'
  <2> SUFFICES ASSUME NEW r \in DOMAIN tasks, tasks'[r].running, ~tasks'[r].cancelled,
                      ~(desk.op = "record" /\ desk.run = r)
               PROVE  \E k \in SideThreads!Keys : SideThreads!IsOpen(k)' /\ threads'[k].active = r
    BY <1>2 DEF NoOrphanRun, SideThreads!NoOrphanRun
  <2>1. PICK k \in SideThreads!Keys : SideThreads!IsOpen(k) /\ threads[k].active = r
    BY <1>2 DEF NoOrphanRun, SideThreads!NoOrphanRun
  <2>2. k \notin ks
    BY <1>2, <2>1
  <2> QED
    BY <1>1, <2>1, <2>2 DEF SideThreads!IsOpen
<1> QED
  BY <1>4, <1>5, <1>6

\* A new thread takes a place that nobody's run is in.
LEMMA OpenedStep == SideInv /\ SideThreads!Opened => SideInv'
<1> SUFFICES ASSUME SideInv, SideThreads!Opened PROVE SideInv'
  OBVIOUS
<1> USE DEF SideInv, SideType
<1>1. desk.op = "open" /\ desk'.op = "none" /\ UNCHANGED <<tasks, waiters>>
  BY DEF SideThreads!Opened, SideThreads!Idle
<1>2. CASE UNCHANGED <<threads, opens>>
  BY <1>1, <1>2 DEF DeskHolds, SideThreads!IsOpen, NoOrphanRun, SideThreads!NoOrphanRun
<1>3. CASE opens' = opens + 1
           /\ threads' = [threads EXCEPT ![desk.key] =
                [SideThreads!Closed EXCEPT !.opened = opens',
                                           !.history = SideThreads!History(opens', <<>>)]]
  <2> DEFINE new == [SideThreads!Closed EXCEPT !.opened = opens',
                                               !.history = SideThreads!History(opens', <<>>)]
  <2>1. new \in Thread
    <3>1. opens' \in Nat /\ SideThreads!History(opens', <<>>) \in Chat
      BY <1>3 DEF SideThreads!History, Chat
    <3>2. SideThreads!Closed \in Thread
      BY DEF SideThreads!Closed, SideThreads!History, Thread, Chat
    <3> QED
      BY <3>1, <3>2 DEF Thread
  <2>2. threads' = [threads EXCEPT ![desk.key] = new] /\ opens' \in Nat
    BY <1>3
  <2> HIDE DEF new
  <2>3. \A k \in SideThreads!Keys : SideThreads!IsOpen(k) => threads'[k] = threads[k]
    BY <1>1, <2>2 DEF DeskHolds
  <2> QED
    BY <1>1, <2>1, <2>2, <2>3 DEF DeskHolds, SideThreads!IsOpen, NoOrphanRun, SideThreads!NoOrphanRun
<1> QED
  BY <1>2, <1>3 DEF SideThreads!Opened

\* From the launch on the desk answers for the run.
LEMMA LaunchStep == SideInv /\ SideThreads!Launch => SideInv'
<1> SUFFICES ASSUME SideInv, SideThreads!Launch PROVE SideInv'
  OBVIOUS
<1> USE DEF SideInv, SideType
<1>1. desk.op = "start" /\ UNCHANGED <<threads, waiters, opens>>
  BY DEF SideThreads!Launch
<1>2. ASSUME NEW r \in DOMAIN tasks,
             desk' = [op |-> "record", key |-> desk.key, request |-> desk.request, run |-> r],
             UNCHANGED tasks
      PROVE  SideInv'
  BY <1>1, <1>2 DEF DeskHolds, SideThreads!IsOpen, NoOrphanRun, SideThreads!NoOrphanRun
<1>3. CASE /\ tasks' = Append(tasks, [of |-> <<desk.key, desk.request>>,
                                      input |-> desk.history, running |-> TRUE,
                                      cancelled |-> FALSE, kept |-> TRUE])
           /\ desk' = [op |-> "record", key |-> desk.key,
                       request |-> desk.request, run |-> Len(tasks')]
  <2> DEFINE new == [of |-> <<desk.key, desk.request>>, input |-> desk.history, running |-> TRUE,
                     cancelled |-> FALSE, kept |-> TRUE]
  <2>1. new \in Task
    BY <1>1 DEF Task
  <2>2. tasks' = Append(tasks, new)
    BY <1>3
  <2> HIDE DEF new
  <2>3. /\ tasks' \in Seq(Task) /\ DOMAIN tasks' = 1..(Len(tasks) + 1) /\ Len(tasks') = Len(tasks) + 1
        /\ \A r \in DOMAIN tasks : tasks'[r] = tasks[r]
    BY <2>1, <2>2
  <2>4. SideType' /\ DeskHolds'
    BY <1>1, <1>3, <2>3 DEF DeskHolds
  <2>5. NoOrphanRun'
    <3>1. desk'.op = "record" /\ desk'.run = Len(tasks) + 1 /\ desk.op # "record"
      BY <1>1, <1>3, <2>3
    <3>2. \A r \in DOMAIN tasks' : r # Len(tasks) + 1 => r \in DOMAIN tasks /\ tasks'[r] = tasks[r]
      BY <2>3
    <3> QED
      BY <1>1, <3>1, <3>2 DEF NoOrphanRun, SideThreads!NoOrphanRun, SideThreads!IsOpen
  <2> QED
    BY <2>4, <2>5
<1>4. CASE desk' = SideThreads!Idle /\ UNCHANGED tasks
  BY <1>1, <1>4 DEF SideThreads!Idle, DeskHolds, SideThreads!IsOpen, NoOrphanRun, SideThreads!NoOrphanRun
<1> QED
  BY <1>2, <1>3, <1>4 DEF SideThreads!Launch

\* The thread takes over the run, or finds itself gone and the run is cancelled.
LEMMA RecordStep == SideInv /\ SideThreads!Record => SideInv'
<1> SUFFICES ASSUME SideInv, SideThreads!Record PROVE SideInv'
  OBVIOUS
<1> USE DEF SideInv, SideType
<1>1. desk.op = "record" /\ desk'.op = "none" /\ UNCHANGED opens
  BY DEF SideThreads!Record, SideThreads!Idle
<1>2. desk.key \in SideThreads!Keys /\ desk.run \in DOMAIN tasks /\ desk.run \in Nat \ {0}
  BY <1>1
<1>3. CASE /\ SideThreads!IsOpen(desk.key) /\ UNCHANGED tasks
           /\ threads' = [threads EXCEPT
                ![desk.key].active = desk.run,
                ![desk.key].turns = Append(@, [request |-> desk.request, run |-> desk.run,
                                               settled |-> FALSE])]
           /\ waiters' = waiters \cup {[run |-> desk.run, key |-> desk.key,
                                        from |-> threads[desk.key].opened]}
  <2> DEFINE old == threads[desk.key]
             turn == [request |-> desk.request, run |-> desk.run, settled |-> FALSE]
             new == [old EXCEPT !.active = desk.run, !.turns = Append(@, turn)]
  <2>1. old \in Thread /\ turn \in Turn
    BY <1>1, <1>2 DEF Turn
  <2>2. new \in Thread /\ new.opened = old.opened /\ new.active = desk.run
    <3>1. Append(old.turns, turn) \in Seq(Turn)
      BY <2>1 DEF Thread
    <3> HIDE DEF turn
    <3> QED
      BY <1>2, <2>1, <3>1 DEF Thread
  <2>3. threads' = [threads EXCEPT ![desk.key] = new]
    BY <1>2, <1>3
  <2>4. waiters' \subseteq [run : DOMAIN tasks, key : SideThreads!Keys, from : Nat]
    BY <1>2, <1>3, <2>1 DEF Thread
  <2> HIDE DEF new
  <2>5. SideType' /\ DeskHolds'
    BY <1>1, <1>2, <1>3, <2>2, <2>3, <2>4 DEF DeskHolds
  <2>6. NoOrphanRun'
    <3> SUFFICES ASSUME NEW r \in DOMAIN tasks, tasks[r].running, ~tasks[r].cancelled
                 PROVE  \E k \in SideThreads!Keys : SideThreads!IsOpen(k)' /\ threads'[k].active = r
      BY <1>3 DEF NoOrphanRun, SideThreads!NoOrphanRun
    <3>1. CASE r = desk.run
      BY <1>2, <1>3, <2>2, <2>3, <3>1 DEF SideThreads!IsOpen
    <3>2. CASE r # desk.run
      <4>1. PICK k \in SideThreads!Keys : SideThreads!IsOpen(k) /\ threads[k].active = r
        BY <3>2 DEF NoOrphanRun, SideThreads!NoOrphanRun
      <4>2. k # desk.key
        BY <1>1, <4>1 DEF DeskHolds
      <4> QED
        BY <2>3, <4>1, <4>2 DEF SideThreads!IsOpen
    <3> QED
      BY <3>1, <3>2
  <2> QED
    BY <2>5, <2>6
<1>4. CASE /\ ~SideThreads!IsOpen(desk.key)
           /\ tasks' = SideThreads!CancelTasks({desk.run}) /\ UNCHANGED <<threads, waiters>>
  <2>1. /\ tasks' \in Seq(Task) /\ DOMAIN tasks' = DOMAIN tasks
        /\ \A r \in DOMAIN tasks :
             /\ tasks'[r].running = tasks[r].running
             /\ ~tasks'[r].cancelled => ~tasks[r].cancelled /\ r # desk.run
    BY <1>4, CancelOnly
  <2> QED
    BY <1>1, <1>4, <2>1 DEF DeskHolds, SideThreads!IsOpen, NoOrphanRun, SideThreads!NoOrphanRun
<1> QED
  BY <1>3, <1>4 DEF SideThreads!Record, SideThreads!Abandoned

\* The write-back of a run that has ended frees no place but its own.
LEMMA ReportStep ==
  ASSUME SideInv, NEW w \in waiters, SideThreads!Report(w)
  PROVE  SideInv'
<1> USE DEF SideInv, SideType
<1>1. ~tasks[w.run].running /\ waiters' = waiters \ {w} /\ UNCHANGED <<desk, tasks, opens>>
  BY DEF SideThreads!Report
<1>2. CASE UNCHANGED threads
  BY <1>1, <1>2 DEF DeskHolds, SideThreads!IsOpen, NoOrphanRun, SideThreads!NoOrphanRun
<1>3. ASSUME NEW reported \in BOOLEAN,
             threads' = [threads EXCEPT
               ![w.key].turns = [i \in DOMAIN @ |->
                   IF @[i].run = w.run THEN [@[i] EXCEPT !.settled = TRUE] ELSE @[i]],
               ![w.key].active = IF @ = w.run THEN 0 ELSE @,
               ![w.key].history = IF reported THEN SideThreads!Transcript(w.run) ELSE @]
      PROVE  SideInv'
  <2> DEFINE old == threads[w.key]
             turns == [i \in DOMAIN old.turns |->
                         IF old.turns[i].run = w.run THEN [old.turns[i] EXCEPT !.settled = TRUE]
                                                     ELSE old.turns[i]]
             place == IF old.active = w.run THEN 0 ELSE old.active
             history == IF reported THEN SideThreads!Transcript(w.run) ELSE old.history
             new == [old EXCEPT !.turns = turns, !.active = place, !.history = history]
  <2>1. w.key \in SideThreads!Keys /\ w.run \in DOMAIN tasks /\ old \in Thread
    OBVIOUS
  <2>2. turns \in Seq(Turn)
    <3>1. old.turns \in Seq(Turn)
      BY <2>1 DEF Thread
    <3>2. \A t \in Turn : [t EXCEPT !.settled = TRUE] \in Turn
      BY DEF Turn
    <3>3. turns = [i \in 1..Len(old.turns) |->
                         IF old.turns[i].run = w.run THEN [old.turns[i] EXCEPT !.settled = TRUE]
                                                     ELSE old.turns[i]]
      BY <3>1
    <3> QED
      BY SMTT(30), <3>1, <3>2, <3>3
  <2>3. history \in Chat
    <3>1. w.run \in Nat /\ tasks[w.run] \in Task /\ tasks[w.run].input \in Chat
      <4>1. w.run \in 1..Len(tasks) /\ tasks[w.run] \in Task
        BY <2>1
      <4> QED
        BY <4>1 DEF Task
    <3>2. SideThreads!Transcript(w.run) \in Chat
      BY <3>1 DEF SideThreads!Transcript, SideThreads!History, Chat
    <3> QED
      BY <2>1, <3>2 DEF Thread
  <2>4. place \in Nat /\ (place = old.active \/ (place = 0 /\ old.active = w.run))
    BY <2>1 DEF Thread
  <2>5. threads' = [threads EXCEPT ![w.key] = new]
    BY <1>3, <2>1
  <2> HIDE DEF turns, place, history
  <2>6. new \in Thread /\ new.opened = old.opened /\ new.active = place
    BY <2>1, <2>2, <2>3, <2>4 DEF Thread
  <2> HIDE DEF new
  <2>7. SideType' /\ DeskHolds'
    BY <1>1, <2>1, <2>4, <2>5, <2>6 DEF DeskHolds, SideThreads!IsOpen
  <2>8. NoOrphanRun'
    <3> SUFFICES ASSUME NEW r \in DOMAIN tasks, tasks[r].running, ~tasks[r].cancelled,
                        ~(desk.op = "record" /\ desk.run = r)
                 PROVE  \E k \in SideThreads!Keys : SideThreads!IsOpen(k)' /\ threads'[k].active = r
      BY <1>1 DEF NoOrphanRun, SideThreads!NoOrphanRun
    <3>1. PICK k \in SideThreads!Keys : SideThreads!IsOpen(k) /\ threads[k].active = r
      BY DEF NoOrphanRun, SideThreads!NoOrphanRun
    <3>2. r # w.run
      BY <1>1
    <3> QED
      BY <2>1, <2>4, <2>5, <2>6, <3>1, <3>2 DEF SideThreads!IsOpen
  <2> QED
    BY <2>7, <2>8
<1> QED
  BY <1>2, <1>3 DEF SideThreads!Report

\* Every other step leaves the threads alone, or ends a run.
LEMMA SideStep == SideInv /\ [AllNext]_allVars => SideInv'
<1> SUFFICES ASSUME SideInv, [AllNext]_allVars PROVE SideInv'
  OBVIOUS
<1> USE DEF SideInv, SideType
<1>1. CASE UNCHANGED sideVars
  BY <1>1 DEF sideVars, DeskHolds, SideThreads!IsOpen, NoOrphanRun, SideThreads!NoOrphanRun
<1>2. ASSUME NEW k \in SideThreads!Keys, SideThreads!Open(k)
      PROVE  SideInv'
  BY <1>2 DEF SideThreads!Open, SideThreads!Idle, DeskHolds, SideThreads!IsOpen,
              NoOrphanRun, SideThreads!NoOrphanRun
<1>3. ASSUME NEW k \in SideThreads!Keys, NEW q \in Requests, SideThreads!Start(k, q)
      PROVE  SideInv'
  BY <1>3 DEF SideThreads!Start, SideThreads!Idle, Thread, DeskHolds, SideThreads!IsOpen,
              NoOrphanRun, SideThreads!NoOrphanRun
<1>4. ASSUME NEW k \in SideThreads!Keys, SideThreads!Close(k)
      PROVE  SideInv'
  BY <1>4, DiscardStep DEF SideThreads!Close
<1>5. ASSUME NEW r \in DOMAIN tasks, SideThreads!RunEnds(r) \/ SideThreads!Forget(r)
      PROVE  SideInv'
  <2> DEFINE ended == [tasks[r] EXCEPT !.running = FALSE]
             forgotten == [tasks[r] EXCEPT !.kept = FALSE]
             Weaker(t) == /\ t \in Task
                          /\ t.running => tasks[r].running
                          /\ t.running /\ ~t.cancelled => ~tasks[r].cancelled
  <2>1. tasks[r] \in Task
    OBVIOUS
  <2>6. Weaker(ended) /\ Weaker(forgotten)
    BY <2>1 DEF Task
  <2>7. tasks' = [tasks EXCEPT ![r] = ended] \/ tasks' = [tasks EXCEPT ![r] = forgotten]
    BY <1>5 DEF SideThreads!RunEnds, SideThreads!Forget
  <2> HIDE DEF ended, forgotten
  <2>2. PICK t : Weaker(t) /\ tasks' = [tasks EXCEPT ![r] = t]
    BY <2>6, <2>7
  <2>3. UNCHANGED <<threads, desk, waiters, opens>>
    BY <1>5 DEF SideThreads!RunEnds, SideThreads!Forget
  <2>8. /\ tasks' \in Seq(Task) /\ DOMAIN tasks' = DOMAIN tasks
        /\ \A q \in DOMAIN tasks : tasks'[q] = IF q = r THEN t ELSE tasks[q]
    <3>1. t \in Task
      BY <2>2
    <3>2. tasks' = [tasks EXCEPT ![r] = t]
      BY <2>2
    <3> QED
      BY <3>1, <3>2
  <2>4. SideType' /\ DeskHolds'
    BY <2>3, <2>8 DEF DeskHolds, SideThreads!IsOpen
  <2>5. NoOrphanRun'
    BY <2>2, <2>3, <2>8 DEF NoOrphanRun, SideThreads!NoOrphanRun, SideThreads!IsOpen
  <2> QED
    BY <2>4, <2>5
<1>6. ASSUME NEW p \in Parents, SideThreads!Retire(p)
      PROVE  SideInv'
  BY <1>6 DEF SideThreads!Retire, DeskHolds, SideThreads!IsOpen, NoOrphanRun, SideThreads!NoOrphanRun
<1>7. ASSUME NEW p \in Parents, SideThreads!DropParent(p)
      PROVE  SideInv'
  BY <1>7, DiscardStep DEF SideThreads!DropParent
<1> QED
  BY <1>1, <1>2, <1>3, <1>4, <1>5, <1>6, <1>7, OpenedStep, LaunchStep, RecordStep, ReportStep
  DEF AllNext, OfHost, OfServices, Rest, allVars, serviceVars, SideThreads!Next

\* In every behaviour of the server a side conversation's run that is not cancelled is the active run
\* of an open thread, or about to be recorded there (side_routes.rs start_owned, drop_parent).
THEOREM NoOrphanRunHolds == AllSpec => []NoOrphanRun
<1>1. SideInv => NoOrphanRun
  BY DEF SideInv
<1> QED
  BY <1>1, SideInit, SideStep, PTL DEF AllSpec

-----------------------------------------------------------------------------
(* The MCP connection (mcp/connection.rs)                                  *)

\* Where a call can be.
CallStates == {"idle", "offered", "refused", "checked", "locked", "sent", "failing", "answered", "failed"}

\* The connection (connection.rs).  What the host assembled is what the connection froze; only the
\* write lock replaces the service, and it is not held while a call has the read lock; a number is
\* a call's from the moment it is sent.
McpInv ==
    /\ calls \in [Calls -> [pc : CallStates, over : Nat]]
    /\ live \in [no : Nat, signature : {0} \union McpCatalogs, open : BOOLEAN]
    /\ dials \in Nat \ {0}
    /\ catalog = assembled
    /\ ~frozen => assembled = 0
    /\ dial.signature \in {0} \union McpCatalogs /\ remote \in McpCatalogs
    /\ dial.pc # "idle" => Mcp!Readers = {}
    /\ live.no # 0 => live.signature = assembled
    /\ live.open => live.no # 0
    /\ \A c \in Mcp!Readers : live.no # 0
    /\ \A c \in Calls :
        /\ calls[c].pc \in {"sent", "failing"} => calls[c].over = live.no
        /\ calls[c].pc \notin {"sent", "failing", "answered", "failed"} => calls[c].over = 0
        /\ calls[c].pc = "failed" /\ calls[c].over # 0 => c \in told

\* The connection starts empty, with its first dial under way.
LEMMA McpInit == AllInit => McpInv
<1> SUFFICES ASSUME Mcp!Init PROVE McpInv
  BY Zenon DEF AllInit
<1> QED
  BY DEF Mcp!Init, Mcp!NoService, Mcp!Readers, McpInv, CallStates

\* A call moves alone: what holds of the others, and of the connection, stays.
LEMMA CallStep ==
  ASSUME McpInv, NEW c \in Calls,
         \/ Mcp!Offer(c) \/ Mcp!Request(c) \/ Mcp!Lock(c) \/ Mcp!Send(c) \/ Mcp!Answer(c)
         \/ Mcp!GiveUp(c) \/ Mcp!Tell(c) \/ Mcp!Drop(c)
  PROVE  McpInv'
<1> USE DEF McpInv, CallStates, Mcp!Readers, Mcp!Move
<1>1. CASE Mcp!Offer(c)
  BY <1>1 DEF Mcp!Offer
<1>2. CASE Mcp!Request(c)
  BY <1>2 DEF Mcp!Request
<1>3. CASE Mcp!Lock(c)
  BY <1>3 DEF Mcp!Lock, Mcp!WriterFirst
<1>4. CASE Mcp!Send(c)
  BY <1>4 DEF Mcp!Send
<1>5. CASE Mcp!Answer(c)
  BY <1>5 DEF Mcp!Answer
<1>6. CASE Mcp!GiveUp(c)
  BY <1>6 DEF Mcp!GiveUp
<1>7. CASE Mcp!Tell(c)
  BY <1>7 DEF Mcp!Tell
<1>8. CASE Mcp!Drop(c)
  BY <1>8 DEF Mcp!Drop
<1> QED
  BY <1>1, <1>2, <1>3, <1>4, <1>5, <1>6, <1>7, <1>8

\* The write lock is free of readers, so a connection is opened, installed and closed under no call.
LEMMA ConnectionStep ==
  ASSUME McpInv,
         \/ Mcp!Connect \/ Mcp!DialFails \/ Mcp!Discover \/ Mcp!Install \/ Mcp!TransportCloses
         \/ Mcp!Stop \/ Mcp!Close \/ \E v \in McpCatalogs : Mcp!RemoteChanges(v)
  PROVE  McpInv'
<1> USE DEF McpInv, Mcp!Readers, Mcp!NoService
<1>1. CASE Mcp!Connect
  BY <1>1 DEF Mcp!Connect
<1>2. CASE Mcp!DialFails
  BY <1>2 DEF Mcp!DialFails, Mcp!Finish
<1>3. CASE Mcp!Discover
  BY <1>3 DEF Mcp!Discover
<1>4. CASE Mcp!Install
  <2>1. Mcp!Readers = {} /\ UNCHANGED <<remote, dials, told>>
    BY <1>4 DEF Mcp!Install
  <2>2. dial' = [pc |-> "idle", signature |-> 0] /\ frozen' = TRUE
    BY <1>4 DEF Mcp!Install, Mcp!Finish
  <2>3. catalog' = assembled'
    BY <1>4 DEF Mcp!Install, Mcp!Finish
  <2>4. \/ live' = live /\ assembled' = assembled
        \/ live' = [no |-> dials, signature |-> dial.signature, open |-> TRUE] /\ assembled' = dial.signature
    BY <1>4 DEF Mcp!Install, Mcp!Finish
  <2> DEFINE Service == [no : Nat, signature : {0} \union McpCatalogs, open : BOOLEAN]
  <2>5. live' \in Service
    <3>1. dials \in Nat /\ dial.signature \in {0} \union McpCatalogs /\ live \in Service
      OBVIOUS
    <3>2. [no |-> dials, signature |-> dial.signature, open |-> TRUE] \in Service
      BY ONLY <3>1
    <3> QED
      BY ONLY <2>4, <3>1, <3>2
  <2>6. live'.no # 0 => live'.signature = assembled'
    BY <2>4
  <2>7. live'.open => live'.no # 0
    BY <2>4
  <2>8. calls' = calls
    BY <1>4 DEF Mcp!Install
  <2>9. \A c \in Calls : calls[c].pc \notin {"locked", "sent", "failing"}
    BY <2>1
  <2> QED
    BY <2>1, <2>2, <2>3, <2>5, <2>6, <2>7, <2>8, <2>9
<1>5. CASE Mcp!TransportCloses
  BY <1>5 DEF Mcp!TransportCloses
<1>6. CASE Mcp!Stop
  BY <1>6 DEF Mcp!Stop
<1>7. CASE Mcp!Close
  BY <1>7 DEF Mcp!Close
<1>8. CASE \E v \in McpCatalogs : Mcp!RemoteChanges(v)
  BY <1>8 DEF Mcp!RemoteChanges
<1> QED
  BY <1>1, <1>2, <1>3, <1>4, <1>5, <1>6, <1>7, <1>8

\* In every behaviour of the server a call in flight goes over the installed service, whose catalog
\* is the one the host assembled its tools from, and a call that was given up is announced
\* (connection.rs connect, request, CancelOnDrop).
THEOREM CallsSoundHolds == AllSpec => []CallsSound
<1>1. AllInit => McpInv
  BY McpInit
<1>2. McpInv /\ [AllNext]_allVars => McpInv'
  <2> SUFFICES ASSUME McpInv, [AllNext]_allVars PROVE McpInv'
    OBVIOUS
  <2>1. CASE UNCHANGED mcpVars
    BY <2>1 DEF mcpVars, McpInv, Mcp!Readers
  <2>2. CASE Mcp!Next
    BY <2>2, CallStep, ConnectionStep, Zenon DEF Mcp!Next
  <2>3. UNCHANGED mcpVars \/ Mcp!Next
    BY Zenon DEF AllNext, OfHost, OfServices, Rest, allVars, serviceVars
  <2> QED
    BY <2>1, <2>2, <2>3
<1>3. McpInv => CallsSound
  BY DEF McpInv, CallsSound, Mcp!CallsSound, Mcp!CallOverAssembled, Mcp!AbandonedIsTold, Mcp!Readers
<1> QED
  BY <1>1, <1>2, <1>3, PTL DEF AllSpec

-----------------------------------------------------------------------------
(* MCP settings (mcp_setup.rs)                                             *)

\* A server as it is saved or dialled: its secret is blank or was typed for its target.
Confined(s) == s.secret \in {McpSettings!NoSecret, s.target}
\* What a server's entry can be.
SavedServer == [target : Targets \cup {McpSettings!NoSecret},
                secret : Targets \cup {McpSettings!NoSecret}]

\* The inductive invariant of the MCP settings.
SecretInv ==
    /\ servers \in [Servers -> SavedServer] /\ dialled \in [Servers -> SavedServer]
    /\ \A s \in Servers : Confined(servers[s]) /\ Confined(dialled[s])

\* merge_secrets: what is accepted is confined when what was saved is, and what was typed was
\* typed for the new target.
LEMMA MergeConfines ==
  ASSUME NEW old \in SavedServer, Confined(old),
         NEW new \in SavedServer, Confined(new), NEW clear \in BOOLEAN,
         McpSettings!MergeSecrets(old, new, clear).accepted
  PROVE  LET secret == McpSettings!MergeSecrets(old, new, clear).secret
         IN  [new EXCEPT !.secret = secret] \in SavedServer
             /\ Confined([new EXCEPT !.secret = secret])
BY DEF McpSettings!MergeSecrets, Confined, SavedServer

\* There is no secret before one is typed.
LEMMA SecretInit == AllInit => SecretInv
<1>1. AllInit => McpSettings!Init
  BY Zenon DEF AllInit
<1>2. McpSettings!NoServer \in SavedServer /\ Confined(McpSettings!NoServer)
  BY DEF McpSettings!NoServer, SavedServer, Confined
<1> QED
  BY <1>1, <1>2 DEF McpSettings!Init, SecretInv

\* Upsert is the one step that writes a secret, and what it writes merge_secrets has confined.
LEMMA SecretStep == SecretInv /\ [AllNext]_allVars => SecretInv'
<1> SUFFICES ASSUME SecretInv, [AllNext]_allVars PROVE SecretInv'
  OBVIOUS
<1>1. CASE UNCHANGED mcpSettingsVars
  BY <1>1 DEF mcpSettingsVars, SecretInv, Confined
<1>2. CASE McpSettings!Next
  <2>1. ASSUME NEW s \in Servers, NEW t \in Targets, NEW clear \in BOOLEAN,
               NEW typed \in {McpSettings!NoSecret, t},
               McpSettings!Upsert(s, [target |-> t, secret |-> typed], clear)
        PROVE  SecretInv'
    <3> DEFINE new == [target |-> t, secret |-> typed]
               merged == McpSettings!MergeSecrets(servers[s], new, clear)
               entry == [new EXCEPT !.secret = merged.secret]
    <3>1. servers[s] \in SavedServer /\ Confined(servers[s])
      BY DEF SecretInv
    <3>2. new \in SavedServer /\ Confined(new)
      BY DEF SavedServer, Confined
    <3>3. merged.accepted /\ servers' = [servers EXCEPT ![s] = entry] /\ dialled' = dialled
      BY <2>1 DEF McpSettings!Upsert, McpSettings!Save
    <3> HIDE DEF new
    <3>4. entry \in SavedServer /\ Confined(entry)
      BY <3>1, <3>2, <3>3, MergeConfines
    <3> HIDE DEF entry
    <3> QED
      BY <3>3, <3>4 DEF SecretInv
  <2>2. ASSUME NEW s \in Servers, McpSettings!Delete(s)
        PROVE  SecretInv'
    BY <2>2 DEF McpSettings!Delete, McpSettings!Save, McpSettings!NoServer, SecretInv, SavedServer, Confined
  <2>3. CASE McpSettings!View \/ McpSettings!Restart
    BY <2>3 DEF McpSettings!View, McpSettings!Restart, SecretInv
  <2> QED
    BY <1>2, <2>1, <2>2, <2>3 DEF McpSettings!Next
<1> QED
  BY <1>1, <1>2 DEF AllNext, OfHost, OfServices, Rest, allVars, serviceVars

\* In every behaviour of the server a saved or dialled secret is blank or the one typed for the very
\* target it is saved for (mcp_setup.rs merge_secrets).
THEOREM SecretConfinedHolds == AllSpec => []SecretConfined
<1>1. SecretInv => SecretConfined
  BY DEF SecretInv, SecretConfined, McpSettings!SecretConfined, Confined
<1> QED
  BY <1>1, SecretInit, SecretStep, PTL DEF AllSpec

-----------------------------------------------------------------------------
(* Capabilities (capabilities.rs)                                          *)

\* A choices file.
Choices == [revision : Nat, enabled : [Caps -> {"on", "off", Capabilities!Unset}]]

\* The types of the capabilities' state.
CapType ==
    /\ policies \in [Caps -> Capabilities!Policy]
    /\ saved \in Choices /\ state \in Choices
    /\ confirmed \in [Caps -> {"on", "off", Capabilities!Unset}]

\* A confirmed choice is in the file, across crashes too, and in the memory of a running server.
ConfirmedKept ==
    \A c \in Caps :
        confirmed[c] # Capabilities!Unset =>
            /\ saved.enabled[c] = confirmed[c]
            /\ up => state.enabled[c] = confirmed[c]

\* The inductive invariant of the capabilities.
CapInv == CapType /\ ConfirmedKept /\ Capabilities!AsDeployed

\* The server is down and nothing has been chosen.
LEMMA CapInit == AllInit => CapInv
<1> SUFFICES ASSUME Capabilities!Init PROVE CapInv
  BY Zenon DEF AllInit
<1>1. CapType
  BY DEF Capabilities!Init, Capabilities!NoChoices, Capabilities!Unset, Capabilities!Policy,
         CapType, Choices, Defaults
<1>2. ConfirmedKept /\ Capabilities!AsDeployed
  BY DEF Capabilities!Init, ConfirmedKept, Capabilities!AsDeployed
<1> QED
  BY <1>1, <1>2 DEF CapInv

\* A start follows the deployment, and the confirmed choice where that is allowed.
LEMMA BootStep ==
  ASSUME CapInv, NEW file \in UNION {[cs -> Capabilities!Policy] : cs \in SUBSET Caps},
         NEW off \in SUBSET (Caps \ Fixed), Capabilities!Boot(file, off)
  PROVE  CapInv' /\ \A c \in Compiled :
           policies'[c].configurable /\ confirmed[c] # Capabilities!Unset =>
             (c \in active' <=> confirmed[c] = "on")
<1> DEFINE deployed == [c \in Caps |->
             CASE c \in off -> Capabilities!LockedOff
               [] c \in DOMAIN file -> file[c]
               [] OTHER -> Defaults[c]]
<1>1. /\ policies' = deployed /\ state' = saved /\ up' = TRUE
      /\ active' = {c \in Compiled : Capabilities!Desired(c, deployed[c], saved)}
      /\ \A c \in Caps : deployed[c].enabled => c \in Compiled
      /\ UNCHANGED <<saved, saving, confirmed>>
  BY DEF Capabilities!Boot, Capabilities!ReadState
<1>2. ASSUME NEW c \in Caps PROVE deployed[c] \in Capabilities!Policy
  <2>1. PICK cs \in SUBSET Caps : file \in [cs -> Capabilities!Policy]
    OBVIOUS
  <2>2. c \in DOMAIN file => file[c] \in Capabilities!Policy
    BY <2>1
  <2>3. /\ Capabilities!LockedOff \in Capabilities!Policy
        /\ Defaults[c] \in Capabilities!Policy
    BY DEF Capabilities!LockedOff, Capabilities!Policy, Defaults
  <2> QED
    BY <2>2, <2>3
<1>3. deployed \in [Caps -> Capabilities!Policy]
  BY <1>2
<1> HIDE DEF deployed
<1>4. CapType'
  BY <1>1, <1>3 DEF CapInv, CapType
<1>5. ConfirmedKept'
  BY <1>1 DEF CapInv, ConfirmedKept
<1>6. ASSUME NEW c \in Caps
      PROVE  /\ c \in active' => c \in Compiled
             /\ ~policies'[c].configurable => (c \in active' <=> policies'[c].enabled)
  BY <1>1, <1>3 DEF Capabilities!Desired
<1>7. Capabilities!AsDeployed'
  BY <1>1, <1>5, <1>6 DEF Capabilities!AsDeployed, ConfirmedKept
<1>8. ASSUME NEW c \in Compiled, policies'[c].configurable,
             confirmed[c] # Capabilities!Unset
      PROVE  c \in active' <=> confirmed[c] = "on"
  <2>1. saved.enabled[c] = confirmed[c]
    BY <1>8, CompiledAssumption DEF CapInv, ConfirmedKept
  <2> QED
    BY <1>1, <1>8, <2>1, CompiledAssumption DEF Capabilities!Desired
<1> QED
  BY <1>4, <1>5, <1>7, <1>8 DEF CapInv

\* A choice that is being written is nobody's confirmed choice until it is adopted.
LEMMA ChoiceStep ==
  ASSUME CapInv, NEW p \in Pages,
         \/ Capabilities!Adopt(p)
         \/ \E c \in Caps, choice \in {"on", "off"} : Capabilities!SetEnabled(p, c, choice)
  PROVE  CapInv' /\ up
<1>1. CASE Capabilities!Adopt(p)
  <2>1. /\ up /\ state' = saved /\ UNCHANGED <<policies, up, active, saved>>
        /\ confirmed' = [c \in Caps |-> IF saved.enabled[c] # state.enabled[c]
                                        THEN saved.enabled[c] ELSE confirmed[c]]
    BY <1>1 DEF Capabilities!Adopt
  <2>2. CapType'
    BY <2>1 DEF CapInv, CapType, Choices
  <2>3. ConfirmedKept'
    BY <2>1 DEF CapInv, CapType, ConfirmedKept
  <2>4. Capabilities!AsDeployed'
    BY <2>1, <2>3 DEF CapInv, Capabilities!AsDeployed, ConfirmedKept
  <2> QED
    BY <2>1, <2>2, <2>3, <2>4 DEF CapInv
<1>2. ASSUME NEW c \in Caps, NEW choice \in {"on", "off"}, Capabilities!SetEnabled(p, c, choice)
      PROVE  CapInv' /\ up
  <2>1. /\ up /\ UNCHANGED <<policies, up, active, state>>
        /\ saved' = [revision |-> state.revision + 1,
                     enabled |-> [state.enabled EXCEPT ![c] = choice]]
        /\ confirmed' = [confirmed EXCEPT ![c] = Capabilities!Unset]
    BY <1>2 DEF Capabilities!SetEnabled, Capabilities!WriteState
  <2>2. CapType'
    BY <2>1 DEF CapInv, CapType, Choices
  <2>3. ConfirmedKept'
    BY <2>1 DEF CapInv, CapType, Choices, ConfirmedKept
  <2>4. Capabilities!AsDeployed'
    BY <2>1, <2>3 DEF CapInv, Capabilities!AsDeployed, ConfirmedKept
  <2> QED
    BY <2>1, <2>2, <2>3, <2>4 DEF CapInv
<1> QED
  BY <1>1, <1>2

\* What a start takes from the choices, as in Capabilities!ChoiceTaken.
TakesChoice ==
    ~up /\ up' =>
        \A c \in Compiled :
            policies'[c].configurable /\ confirmed[c] # Capabilities!Unset =>
                (c \in active' <=> confirmed[c] = "on")

\* Every step keeps the invariant and every start takes the confirmed choices.
LEMMA CapStep ==
  CapInv /\ [AllNext]_allVars => CapInv' /\ [TakesChoice]_(Capabilities!capabilityVars)
<1> SUFFICES ASSUME CapInv, [AllNext]_allVars PROVE CapInv' /\ TakesChoice
  OBVIOUS
<1>1. CASE UNCHANGED capabilityVars
  BY <1>1 DEF capabilityVars, CapInv, CapType, ConfirmedKept, Capabilities!AsDeployed, TakesChoice
<1>2. ASSUME NEW file \in UNION {[cs -> Capabilities!Policy] : cs \in SUBSET Caps},
             NEW off \in SUBSET (Caps \ Fixed), Capabilities!Boot(file, off)
      PROVE  CapInv' /\ TakesChoice
  BY <1>2, BootStep DEF TakesChoice
<1>3. CASE Capabilities!Crash
  BY <1>3 DEF Capabilities!Crash, CapInv, CapType, ConfirmedKept, Capabilities!AsDeployed, TakesChoice
<1>4. ASSUME NEW p \in Pages, Capabilities!View(p)
      PROVE  CapInv' /\ TakesChoice
  BY <1>4 DEF Capabilities!View, CapInv, CapType, ConfirmedKept, Capabilities!AsDeployed, TakesChoice
<1>5. ASSUME NEW p \in Pages,
             \/ Capabilities!Adopt(p)
             \/ \E c \in Caps, choice \in {"on", "off"} : Capabilities!SetEnabled(p, c, choice)
      PROVE  CapInv' /\ TakesChoice
  BY <1>5, ChoiceStep DEF TakesChoice
<1> QED
  BY <1>1, <1>2, <1>3, <1>4, <1>5
  DEF AllNext, OfHost, OfServices, Rest, allVars, serviceVars, Capabilities!Next

\* In every behaviour of the server what runs is what the deployment fixes, and a start takes every
\* choice that was confirmed to the user, across crashes (capabilities.rs open, set_enabled).
THEOREM LockedByDeploymentHolds == AllSpec => LockedByDeployment
<1>1. CapInv => Capabilities!AsDeployed
  BY DEF CapInv
<1>2. AllSpec => []Capabilities!AsDeployed /\ [][TakesChoice]_(Capabilities!capabilityVars)
  BY <1>1, CapInit, CapStep, PTL DEF AllSpec
<1> QED
  BY <1>2 DEF LockedByDeployment, Capabilities!LockedByDeployment, Capabilities!ChoiceTaken, TakesChoice

-----------------------------------------------------------------------------
(* Model settings (models/src/lib.rs)                                      *)

\* A key is named for the endpoint it was typed for; a provider, a selection, the saved document and
\* a route with its number.
Key == Endpoints \cup {ModelSettings!NoKey}
Provider == [endpoint : Key, key : Key, models : ModelSettings!Catalogs]
Selection == {ModelSettings!None} \cup [provider : ProviderIds, model : ModelIds]
Document == [revision : Nat, providers : [ProviderIds -> Provider], default : Selection]
RouteId == ProviderIds \X Nat \X Nat

\* The types of the model settings' state.
ModelType ==
    /\ document \in Document
    /\ routes \subseteq [id : RouteId, selection : Selection, endpoint : Key, key : Key]
    /\ discoveries \subseteq [key : Key, endpoint : Endpoints]
    /\ sequence \in Nat /\ running \subseteq ModelRuns
    /\ route \in [ModelRuns -> {ModelSettings!NoRoute} \cup RouteId]

\* A run in progress has a route, and its number was given to no other run since the process
\* started.
RoutesDistinct ==
    /\ \A r \in running : route[r] # ModelSettings!NoRoute
    /\ \A r \in ModelRuns : route[r] # ModelSettings!NoRoute => route[r][3] < sequence
    /\ \A r, q \in ModelRuns :
         r # q /\ route[r] # ModelSettings!NoRoute /\ route[q] # ModelSettings!NoRoute =>
             route[r][3] # route[q][3]

\* The inductive invariant of the model settings.
ModelInv == ModelType /\ RoutesDistinct /\ SettingsHonest

\* A provider's key is blank or its endpoint's.
Owned(provider) == provider.key \in {ModelSettings!NoKey, provider.endpoint}

\* No provider is there at first, and no run.
LEMMA ModelInit == AllInit => ModelInv
<1> SUFFICES ASSUME ModelSettings!Init PROVE ModelInv
  BY Zenon DEF AllInit
<1>1. ModelSettings!Absent \in Provider /\ Owned(ModelSettings!Absent)
  BY DEF ModelSettings!Absent, ModelSettings!Catalogs, Provider, Key, Owned
<1>2. ModelType
  BY <1>1 DEF ModelSettings!Init, ModelType, Document, Selection
<1>3. RoutesDistinct /\ SettingsHonest
  BY <1>1 DEF ModelSettings!Init, RoutesDistinct, SettingsHonest, ModelSettings!SettingsHonest,
              ModelSettings!KeyConfined, ModelSettings!RoutePinned, Owned
<1> QED
  BY <1>2, <1>3 DEF ModelInv

\* An update changes the document only: what runs are bound to stays.
LEMMA UpdateStep ==
  ASSUME ModelInv, NEW revision, NEW next \in Document,
         \A i \in ProviderIds : Owned(next.providers[i]),
         ModelSettings!Update(revision, next)
  PROVE  ModelInv'
<1>1. /\ document' = [next EXCEPT !.revision = revision + 1] /\ revision = document.revision
      /\ UNCHANGED <<routes, sequence, route, running, discoveries>>
  BY DEF ModelSettings!Update
<1>2. revision \in Nat
  BY <1>1 DEF ModelInv, ModelType, Document
<1>3. document' \in Document /\ document'.providers = next.providers
  BY <1>1, <1>2 DEF Document
<1>4. ModelType' /\ RoutesDistinct'
  BY <1>1, <1>3 DEF ModelInv, ModelType, RoutesDistinct
<1>5. SettingsHonest'
  BY <1>1, <1>3 DEF ModelInv, SettingsHonest, ModelSettings!SettingsHonest,
     ModelSettings!KeyConfined, ModelSettings!RoutePinned, Owned
<1> QED
  BY <1>4, <1>5 DEF ModelInv

\* A key that is kept stays with its endpoint.
LEMMA MergeOwned ==
  ASSUME NEW previous \in Provider, Owned(previous), NEW endpoint \in Endpoints,
         NEW typed \in BOOLEAN, NEW clear \in BOOLEAN,
         \/ ~ModelSettings!MustRetype(typed, clear, endpoint, previous)
         \/ previous.endpoint = endpoint \/ typed \/ clear
  PROVE  LET key == ModelSettings!MergeKey(typed, clear, endpoint, previous)
         IN  key \in Key /\ key \in {ModelSettings!NoKey, endpoint}
BY DEF ModelSettings!MergeKey, ModelSettings!MustRetype, Provider, Key, Owned

\* Saving a provider keeps its key only where its endpoint is kept.
LEMMA UpsertStep ==
  ASSUME ModelInv, NEW revision, NEW id \in ProviderIds, NEW endpoint \in Endpoints,
         NEW typed \in BOOLEAN, NEW clear \in BOOLEAN, NEW models \in ModelSettings!Catalogs,
         ModelSettings!Upsert(revision, id, endpoint, typed, clear, models)
  PROVE  ModelInv'
<1> DEFINE previous == document.providers[id]
           key == ModelSettings!MergeKey(typed, clear, endpoint, previous)
           provider == [endpoint |-> endpoint, models |-> models, key |-> key]
           providers == [document.providers EXCEPT ![id] = provider]
           own == {s \in ModelSettings!Enabled(providers) : s.provider = id}
<1>1. /\ document \in Document /\ previous \in Provider
      /\ \A i \in ProviderIds : document.providers[i] \in Provider /\ Owned(document.providers[i])
  BY DEF ModelInv, ModelType, Document, SettingsHonest, ModelSettings!SettingsHonest,
         ModelSettings!KeyConfined, Owned
<1>2. ~ModelSettings!MustRetype(typed, clear, endpoint, previous)
  BY DEF ModelSettings!Upsert
<1>3. key \in Key /\ key \in {ModelSettings!NoKey, endpoint}
  BY <1>1, <1>2, MergeOwned
<1>4. PICK default \in IF document.default # ModelSettings!None \/ own = {}
                       THEN {document.default} ELSE own :
        ModelSettings!Update(revision,
          [document EXCEPT !.providers = providers, !.default = default])
  BY DEF ModelSettings!Upsert
<1> HIDE DEF key
<1>5. provider \in Provider /\ Owned(provider)
  BY <1>3 DEF Provider, Owned, Key
<1>6. default \in Selection
  BY <1>1, <1>4 DEF Document, Selection, ModelSettings!Enabled
<1> HIDE DEF provider
<1>7. /\ providers \in [ProviderIds -> Provider]
      /\ \A i \in ProviderIds : Owned(providers[i])
  BY <1>1, <1>5 DEF Document
<1> HIDE DEF providers
<1>8. LET next == [document EXCEPT !.providers = providers, !.default = default]
      IN  next \in Document /\ next.providers = providers
  BY <1>1, <1>6, <1>7 DEF Document
<1> QED
  BY <1>4, <1>7, <1>8, UpdateStep

\* A provider is deleted with its key, and a default it gave is cleared.
LEMMA DeleteStep ==
  ASSUME ModelInv, NEW revision, NEW id \in ProviderIds, ModelSettings!Delete(revision, id)
  PROVE  ModelInv'
<1> DEFINE providers == [document.providers EXCEPT ![id] = ModelSettings!Absent]
<1>1. /\ document \in Document
      /\ \A i \in ProviderIds : document.providers[i] \in Provider /\ Owned(document.providers[i])
  BY DEF ModelInv, ModelType, Document, SettingsHonest, ModelSettings!SettingsHonest,
         ModelSettings!KeyConfined, Owned
<1>2. PICK default \in IF document.default.provider = id THEN ModelSettings!Fallback(providers)
                                                         ELSE {document.default} :
        ModelSettings!Update(revision,
          [document EXCEPT !.providers = providers, !.default = default])
  BY DEF ModelSettings!Delete
<1>3. ModelSettings!Absent \in Provider /\ Owned(ModelSettings!Absent)
  BY DEF ModelSettings!Absent, ModelSettings!Catalogs, Provider, Key, Owned
<1>4. default \in Selection
  BY <1>1, <1>2 DEF Document, Selection, ModelSettings!Fallback, ModelSettings!Enabled
<1>5. /\ providers \in [ProviderIds -> Provider]
      /\ \A i \in ProviderIds : Owned(providers[i])
  BY <1>1, <1>3 DEF Document
<1> HIDE DEF providers
<1>6. LET next == [document EXCEPT !.providers = providers, !.default = default]
      IN  next \in Document /\ next.providers = providers
  BY <1>1, <1>4, <1>5 DEF Document
<1> QED
  BY <1>2, <1>5, <1>6, UpdateStep

\* Showing, hiding and choosing models touch neither keys nor endpoints.
LEMMA VisibilityStep ==
  ASSUME ModelInv, NEW revision, NEW id \in ProviderIds, NEW models \in ModelSettings!Catalogs,
         NEW default \in Selection, NEW next,
         LET provider == [document.providers[id] EXCEPT !.models = models]
         IN  next = [document EXCEPT !.providers = [@ EXCEPT ![id] = provider],
                                     !.default = default],
         ModelSettings!Update(revision, next)
  PROVE  ModelInv'
<1> DEFINE provider == [document.providers[id] EXCEPT !.models = models]
           providers == [document.providers EXCEPT ![id] = provider]
<1>1. /\ document \in Document /\ document.providers[id] \in Provider
      /\ \A i \in ProviderIds : document.providers[i] \in Provider /\ Owned(document.providers[i])
  BY DEF ModelInv, ModelType, Document, SettingsHonest, ModelSettings!SettingsHonest,
         ModelSettings!KeyConfined, Owned
<1>2. provider \in Provider /\ Owned(provider)
  BY <1>1 DEF Provider, Owned
<1>3. next = [document EXCEPT !.providers = providers, !.default = default]
  OBVIOUS
<1> HIDE DEF provider
<1>4. /\ providers \in [ProviderIds -> Provider]
      /\ \A i \in ProviderIds : Owned(providers[i])
  BY <1>1, <1>2 DEF Document
<1> HIDE DEF providers
<1>5. next \in Document /\ next.providers = providers
  BY <1>1, <1>3, <1>4 DEF Document
<1> QED
  BY <1>4, <1>5, UpdateStep

\* Choosing the default shows the chosen model.
LEMMA SetDefaultStep ==
  ASSUME ModelInv, NEW revision, NEW id \in ProviderIds, NEW m \in ModelIds,
         ModelSettings!SetDefault(revision, [provider |-> id, model |-> m])
  PROVE  ModelInv'
<1> DEFINE selection == [provider |-> id, model |-> m]
           models == [document.providers[id].models EXCEPT ![m] = "enabled"]
           next == [document EXCEPT !.providers[id].models[m] = "enabled", !.default = selection]
<1>1. document \in Document /\ document.providers[id] \in Provider
  BY DEF ModelInv, ModelType, Document
<1>2. models \in ModelSettings!Catalogs
  BY <1>1 DEF Provider, ModelSettings!Catalogs
<1>3. selection \in Selection
  BY DEF Selection
<1>4. next = [document EXCEPT !.providers = [@ EXCEPT ![id] = [document.providers[id] EXCEPT !.models = models]],
                              !.default = selection]
  BY <1>1 DEF Document, Provider
<1>5. ModelSettings!Update(revision, next)
  BY DEF ModelSettings!SetDefault
<1> QED
  BY <1>2, <1>3, <1>4, <1>5, VisibilityStep

\* Showing or hiding models.
LEMMA SetVisibilityStep ==
  ASSUME ModelInv, NEW revision, NEW id \in ProviderIds, NEW chosen, NEW enabled \in BOOLEAN,
         ModelSettings!SetVisibility(revision, id, chosen, enabled)
  PROVE  ModelInv'
<1> DEFINE old == document.providers[id].models
           models == [m \in ModelIds |->
               IF old[m] = "absent" \/ m \notin chosen THEN old[m]
               ELSE IF enabled \/ document.default = [provider |-> id, model |-> m]
               THEN "enabled" ELSE "hidden"]
           next == [document EXCEPT !.providers[id].models = models]
<1>1. document \in Document /\ document.providers[id] \in Provider
  BY DEF ModelInv, ModelType, Document
<1>2. models \in ModelSettings!Catalogs
  BY <1>1 DEF Provider, ModelSettings!Catalogs
<1>3. ModelSettings!Update(revision, next)
  BY DEF ModelSettings!SetVisibility
<1> HIDE DEF models
<1>4. next = [document EXCEPT !.providers = [@ EXCEPT ![id] = [document.providers[id] EXCEPT !.models = models]],
                              !.default = document.default]
  BY <1>1 DEF Document, Provider
<1>5. document.default \in Selection
  BY <1>1 DEF Document
<1> QED
  BY <1>2, <1>3, <1>4, <1>5, VisibilityStep

\* The third part of a route is its number.
LEMMA RouteNumber == \A id \in RouteId : id[3] \in Nat
  BY DEF RouteId

\* A new run takes a number that no other run has.
LEMMA StartStep ==
  ASSUME ModelInv, NEW r \in ModelRuns,
         NEW requested \in {ModelSettings!None} \cup [provider : ProviderIds, model : ModelIds],
         ModelSettings!Start(r, requested)
  PROVE  ModelInv'
<1> DEFINE selection == IF requested = ModelSettings!None THEN document.default ELSE requested
           provider == document.providers[selection.provider]
           key == ModelSettings!RouteKey(selection, sequence)
           new == [id |-> key, selection |-> selection, endpoint |-> provider.endpoint,
                   key |-> provider.key]
<1>1. /\ routes' = {b \in routes : b.id # key} \cup {new}
      /\ sequence' = sequence + 1 /\ route' = [route EXCEPT ![r] = key]
      /\ running' = running \cup {r} /\ UNCHANGED <<document, discoveries>>
      /\ selection \in ModelSettings!Enabled(document.providers)
      /\ route[r] = ModelSettings!NoRoute
  BY DEF ModelSettings!Start
<1>2. selection \in Selection /\ selection.provider \in ProviderIds
  BY <1>1 DEF ModelSettings!Enabled, Selection
<1>3. provider \in Provider /\ Owned(provider)
  BY <1>2 DEF ModelInv, ModelType, Document, SettingsHonest, ModelSettings!SettingsHonest,
              ModelSettings!KeyConfined, Owned
<1>4. key \in RouteId /\ key[3] = sequence /\ key # ModelSettings!NoRoute
  BY <1>2 DEF ModelSettings!RouteKey, ModelSettings!NoRoute, RouteId, ModelInv, ModelType, Document
<1> HIDE DEF selection, provider, key
<1>5. /\ new.id = key /\ Owned(new)
      /\ new \in [id : RouteId, selection : Selection, endpoint : Key, key : Key]
  BY <1>2, <1>3, <1>4 DEF Provider, Owned
<1> HIDE DEF new
<1>6. ModelType'
  BY <1>1, <1>4, <1>5 DEF ModelInv, ModelType
<1>7. RoutesDistinct'
  <2>1. sequence \in Nat /\ \A q \in ModelRuns : route[q] # ModelSettings!NoRoute => route[q][3] \in Nat
    BY RouteNumber DEF ModelInv, ModelType
  <2>2. \A q \in ModelRuns : route'[q] = IF q = r THEN key ELSE route[q]
    BY <1>1 DEF ModelInv, ModelType
  <2> QED
    BY <1>1, <1>4, <2>1, <2>2 DEF ModelInv, RoutesDistinct
<1>8. ModelSettings!KeyConfined'
  BY <1>1, <1>5 DEF ModelInv, SettingsHonest, ModelSettings!SettingsHonest, ModelSettings!KeyConfined, Owned
<1>9. ModelSettings!RoutePinned'
  <2> SUFFICES ASSUME NEW q \in running' PROVE \E b \in routes' : b.id = route'[q]
    BY DEF ModelSettings!RoutePinned
  <2>1. CASE q = r
    BY <1>1, <1>5, <2>1 DEF ModelInv, ModelType
  <2>2. CASE q # r
    <3>1. PICK b \in routes : b.id = route[q]
      BY <1>1, <2>2 DEF ModelInv, SettingsHonest, ModelSettings!SettingsHonest, ModelSettings!RoutePinned
    <3>2. route[q] # key /\ route'[q] = route[q]
      BY <1>1, <1>4, <2>2 DEF ModelInv, ModelType, RoutesDistinct
    <3> QED
      BY <1>1, <3>1, <3>2
  <2> QED
    BY <2>1, <2>2
<1> QED
  BY <1>6, <1>7, <1>8, <1>9 DEF ModelInv, SettingsHonest, ModelSettings!SettingsHonest

\* The end of a run drops its own binding.
LEMMA EndStep ==
  ASSUME ModelInv, NEW r \in ModelRuns, ModelSettings!End(r)
  PROVE  ModelInv'
<1>1. /\ r \in running /\ running' = running \ {r} /\ routes' = {b \in routes : b.id # route[r]}
      /\ UNCHANGED <<document, sequence, route, discoveries>>
  BY DEF ModelSettings!End
<1>2. ModelType' /\ RoutesDistinct'
  BY <1>1 DEF ModelInv, ModelType, RoutesDistinct
<1>3. ModelSettings!KeyConfined'
  BY <1>1 DEF ModelInv, SettingsHonest, ModelSettings!SettingsHonest, ModelSettings!KeyConfined
<1>4. \A q \in running' : q \in running /\ route[q] # route[r]
  BY <1>1 DEF ModelInv, ModelType, RoutesDistinct
<1>5. ModelSettings!RoutePinned'
  BY <1>1, <1>4 DEF ModelInv, SettingsHonest, ModelSettings!SettingsHonest, ModelSettings!RoutePinned
<1> QED
  BY <1>2, <1>3, <1>5 DEF ModelInv, SettingsHonest, ModelSettings!SettingsHonest

\* Discovery sends a key to the endpoint it was typed for.
LEMMA DiscoverStep ==
  ASSUME ModelInv, NEW id \in ProviderIds \cup {"unnamed"}, NEW endpoint \in Endpoints,
         NEW typed \in BOOLEAN, NEW clear \in BOOLEAN,
         ModelSettings!Discover(id, endpoint, typed, clear)
  PROVE  ModelInv'
<1> DEFINE previous == IF id \in ProviderIds THEN document.providers[id] ELSE ModelSettings!Absent
           key == ModelSettings!MergeKey(typed, clear, endpoint, previous)
<1>1. /\ discoveries' = discoveries \cup {[key |-> key, endpoint |-> endpoint]}
      /\ id \in ProviderIds => previous.endpoint = endpoint \/ typed \/ clear
      /\ UNCHANGED <<document, routes, sequence, route, running>>
  BY DEF ModelSettings!Discover
<1>2. ModelSettings!Absent \in Provider /\ ModelSettings!Absent.key = ModelSettings!NoKey
  BY DEF ModelSettings!Absent, ModelSettings!Catalogs, Provider, Key
<1>3. previous \in Provider /\ Owned(previous)
  BY <1>2 DEF ModelInv, ModelType, Document, SettingsHonest, ModelSettings!SettingsHonest,
              ModelSettings!KeyConfined, Owned
<1>4. \/ ~ModelSettings!MustRetype(typed, clear, endpoint, previous)
      \/ previous.endpoint = endpoint \/ typed \/ clear
  BY <1>1, <1>2 DEF ModelSettings!MustRetype
<1>5. key \in Key /\ key \in {ModelSettings!NoKey, endpoint}
  BY <1>3, <1>4, MergeOwned
<1> HIDE DEF key
<1>6. ModelType' /\ RoutesDistinct'
  BY <1>1, <1>5 DEF ModelInv, ModelType, RoutesDistinct
<1>7. SettingsHonest'
  BY <1>1, <1>5 DEF ModelInv, SettingsHonest, ModelSettings!SettingsHonest,
                    ModelSettings!KeyConfined, ModelSettings!RoutePinned
<1> QED
  BY <1>6, <1>7 DEF ModelInv

\* Every step of the server keeps the model settings honest.
LEMMA ModelStep == ModelInv /\ [AllNext]_allVars => ModelInv'
<1> SUFFICES ASSUME ModelInv, [AllNext]_allVars PROVE ModelInv'
  OBVIOUS
<1>1. CASE UNCHANGED modelVars
  BY <1>1 DEF modelVars, ModelInv, ModelType, RoutesDistinct, SettingsHonest,
     ModelSettings!SettingsHonest, ModelSettings!KeyConfined, ModelSettings!RoutePinned
<1>2. ASSUME NEW id \in ProviderIds, NEW endpoint \in Endpoints, NEW typed \in BOOLEAN,
             NEW clear \in BOOLEAN, NEW models \in ModelSettings!Catalogs,
             \/ \E revision \in ModelSettings!Revisions :
                  ModelSettings!Upsert(revision, id, endpoint, typed, clear, models)
             \/ ModelSettings!Seed(id, endpoint, typed, models)
      PROVE  ModelInv'
  BY <1>2, UpsertStep DEF ModelSettings!Seed
<1>3. CASE ModelSettings!Reopen
  BY <1>3 DEF ModelSettings!Reopen, ModelInv, ModelType, RoutesDistinct, SettingsHonest,
     ModelSettings!SettingsHonest, ModelSettings!KeyConfined, ModelSettings!RoutePinned
<1>4. ASSUME NEW d \in discoveries, ModelSettings!Discovered(d)
      PROVE  ModelInv'
  BY <1>4 DEF ModelSettings!Discovered, ModelInv, ModelType, RoutesDistinct, SettingsHonest,
     ModelSettings!SettingsHonest, ModelSettings!KeyConfined, ModelSettings!RoutePinned
<1>5. CASE ModelSettings!StartRefused
  <2>1. /\ sequence' = sequence + 1
        /\ UNCHANGED <<document, routes, route, running, discoveries>>
    BY <1>5 DEF ModelSettings!StartRefused
  <2>2. \A q \in ModelRuns : route[q] # ModelSettings!NoRoute => route[q][3] \in Nat
    BY RouteNumber DEF ModelInv, ModelType
  <2>3. ModelType' /\ RoutesDistinct'
    BY <2>1, <2>2 DEF ModelInv, ModelType, RoutesDistinct
  <2> QED
    BY <2>1, <2>3 DEF ModelInv, SettingsHonest, ModelSettings!SettingsHonest,
                      ModelSettings!KeyConfined, ModelSettings!RoutePinned
<1>6. CASE ModelSettings!Next
  BY <1>2, <1>3, <1>4, <1>5, <1>6, DeleteStep, SetDefaultStep, SetVisibilityStep, DiscoverStep,
     StartStep, EndStep DEF ModelSettings!Next
<1> QED
  BY <1>1, <1>6 DEF AllNext, OfHost, OfServices, Rest, allVars, serviceVars

\* In every behaviour of the server a key goes to no endpoint but the one it was typed for, and a run
\* in progress finds the route it was bound to (models/src/lib.rs upsert, bind_selected, Binding).
THEOREM SettingsHonestHolds == AllSpec => []SettingsHonest
<1>1. ModelInv => SettingsHonest
  BY DEF ModelInv
<1> QED
  BY <1>1, ModelInit, ModelStep, PTL DEF AllSpec

-----------------------------------------------------------------------------
(* The reply stream: sequences of sequences                                *)

\* f holds what flattening the first n parts of ps gives, for each n up to k.
Flattens(S, ps, k, f) ==
    /\ f \in [1..k -> Seq(S)]
    /\ \A i \in 1..k : f[i] = IF i = 1 THEN ps[i] ELSE f[i - 1] \o ps[i]

\* Every sequence of sequences has such a function.
LEMMA FlattensExists ==
  ASSUME NEW S, NEW ps \in Seq(Seq(S))
  PROVE  \E f : Flattens(S, ps, Len(ps), f)
<1> DEFINE M == {n \in Nat : n <= Len(ps) => \E f : Flattens(S, ps, n, f)}
<1>1. 0 \in M
  <2> DEFINE f == [i \in 1..0 |-> <<>>]
  <2>1. Flattens(S, ps, 0, f)
    BY DEF Flattens
  <2> HIDE DEF f
  <2> QED BY <2>1
<1>2. ASSUME NEW n \in Nat, n \in M PROVE n + 1 \in M
  <2> SUFFICES ASSUME n + 1 <= Len(ps) PROVE \E f : Flattens(S, ps, n + 1, f)
    OBVIOUS
  <2>1. PICK f : Flattens(S, ps, n, f)
    BY <1>2
  <2>2. ps[n + 1] \in Seq(S)
    OBVIOUS
  <2> DEFINE v == IF n = 0 THEN ps[n + 1] ELSE f[n] \o ps[n + 1]
             g == [i \in 1..(n + 1) |-> IF i = n + 1 THEN v ELSE f[i]]
  <2>3. v \in Seq(S)
    <3>1. CASE n = 0
      BY <2>2, <3>1
    <3>2. CASE n # 0
      <4>1. f[n] \in Seq(S)
        BY <2>1, <3>2 DEF Flattens
      <4>2. f[n] \o ps[n + 1] \in Seq(S)
        BY <2>2, <4>1
      <4> QED BY <3>2, <4>2
    <3> QED BY <3>1, <3>2
  <2>4. v = (IF n + 1 = 1 THEN ps[n + 1] ELSE f[n] \o ps[n + 1])
    OBVIOUS
  <2> HIDE DEF v
  <2>5. g \in [1..(n + 1) -> Seq(S)] /\ \A i \in 1..n : g[i] = f[i]
    BY <2>1, <2>3 DEF Flattens
  <2>6. g[n + 1] = v
    OBVIOUS
  <2> HIDE DEF g
  <2>7. ASSUME NEW i \in 1..(n + 1) PROVE g[i] = IF i = 1 THEN ps[i] ELSE g[i - 1] \o ps[i]
    <3>1. CASE i = n + 1
      <4>1. i # 1 => g[i - 1] = f[n]
        BY <2>5, <3>1
      <4> QED BY <2>4, <2>6, <3>1, <4>1
    <3>2. CASE i # n + 1
      <4>1. i \in 1..n /\ (i # 1 => i - 1 \in 1..n)
        BY <3>2
      <4> QED BY <2>1, <2>5, <4>1 DEF Flattens
    <3> QED BY <3>1, <3>2
  <2>8. Flattens(S, ps, n + 1, g)
    BY <2>5, <2>7 DEF Flattens
  <2> QED BY <2>8
<1> HIDE DEF M
<1>3. Nat \subseteq M
  BY <1>1, <1>2, SetInduction
<1> QED BY <1>3 DEF M

\* FlattenSeq is its last value.
LEMMA FlattenIs ==
  ASSUME NEW S, NEW ps \in Seq(Seq(S)), ps # <<>>, NEW f, Flattens(S, ps, Len(ps), f)
  PROVE  ProviderStream!FlattenSeq(ps) = f[Len(ps)]
<1> DEFINE L == Len(ps)
           F(g) == [i \in 1..L |-> IF i = 1 THEN ps[i] ELSE g[i - 1] \o ps[i]]
           Flat == CHOOSE g : g = F(g)
<1>1. L \in Nat /\ L # 0
  OBVIOUS
<1>2. ProviderStream!FlattenSeq(ps) = Flat[L]
  BY <1>1 DEF ProviderStream!FlattenSeq
<1>3. f = F(f)
  BY <1>1 DEF Flattens
<1>4. Flat = F(Flat)
  BY <1>3
<1> HIDE DEF Flat
<1>5. \A i \in 1..L : /\ Flat[i] = (IF i = 1 THEN ps[i] ELSE Flat[i - 1] \o ps[i])
                      /\ f[i] = (IF i = 1 THEN ps[i] ELSE f[i - 1] \o ps[i])
  BY <1>3, <1>4
<1> DEFINE M == {n \in Nat : n + 1 <= L => Flat[n + 1] = f[n + 1]}
<1> HIDE DEF F
<1>6. 0 \in M
  <2>1. 0 + 1 = 1 /\ 1 \in 1..L
    BY <1>1
  <2> QED BY <1>5, <2>1
<1>7. ASSUME NEW n \in Nat, n \in M PROVE n + 1 \in M
  <2> SUFFICES ASSUME n + 1 + 1 <= L PROVE Flat[n + 1 + 1] = f[n + 1 + 1]
    OBVIOUS
  <2>1. /\ n + 1 + 1 \in 1..L /\ n + 1 + 1 # 1 /\ n + 1 + 1 - 1 = n + 1
        /\ Flat[n + 1] = f[n + 1]
    BY <1>1, <1>7
  <2> QED BY <1>5, <2>1
<1>8. L - 1 \in Nat /\ L - 1 + 1 = L
  BY <1>1
<1> HIDE DEF M
<1>9. Nat \subseteq M
  BY <1>6, <1>7, SetInduction
<1>10. L - 1 \in M
  BY <1>8, <1>9
<1>11. Flat[L] = f[L]
  BY <1>1, <1>8, <1>10 DEF M
<1> QED BY <1>2, <1>11

\* Flattening nothing gives nothing.
LEMMA FlattenEmpty == ProviderStream!FlattenSeq(<<>>) = <<>>
<1>1. Len(<<>>) = 0
  OBVIOUS
<1> QED BY <1>1 DEF ProviderStream!FlattenSeq

\* Flattening one more part appends it.
LEMMA FlattenAppend ==
  ASSUME NEW S, NEW ps \in Seq(Seq(S)), NEW q \in Seq(S)
  PROVE  /\ ProviderStream!FlattenSeq(ps) \in Seq(S)
         /\ ProviderStream!FlattenSeq(Append(ps, q)) = ProviderStream!FlattenSeq(ps) \o q
<1> DEFINE qs == Append(ps, q)
           L == Len(ps)
<1>1. /\ qs \in Seq(Seq(S)) /\ qs # <<>> /\ Len(qs) = L + 1 /\ L \in Nat
      /\ \A i \in 1..L : qs[i] = ps[i]
      /\ qs[L + 1] = q
  BY AppendProperties
<1> HIDE DEF qs
<1>2. PICK f : Flattens(S, qs, Len(qs), f)
  BY <1>1, FlattensExists
<1>3. ProviderStream!FlattenSeq(qs) = f[L + 1]
  <2>1. ProviderStream!FlattenSeq(qs) = f[Len(qs)]
    BY <1>1, <1>2, FlattenIs
  <2> QED BY <1>1, <2>1
<1>4. CASE ps = <<>>
  <2>1. ProviderStream!FlattenSeq(ps) = <<>> /\ <<>> \in Seq(S)
    BY <1>4, FlattenEmpty
  <2>2. L + 1 = 1 /\ 1 \in 1..Len(qs)
    BY <1>1, <1>4
  <2>3. f[1] = q
    BY <1>1, <1>2, <2>2 DEF Flattens
  <2>4. <<>> \o q = q
    BY ConcatEmptySeq
  <2> QED BY <1>3, <2>1, <2>2, <2>3, <2>4 DEF qs
<1>5. CASE ps # <<>>
  <2>1. L # 0
    BY <1>5
  <2> DEFINE g == [i \in 1..L |-> f[i]]
  <2>2. Flattens(S, ps, L, g)
    <3>1. f \in [1..(L + 1) -> Seq(S)]
          /\ \A i \in 1..(L + 1) : f[i] = IF i = 1 THEN qs[i] ELSE f[i - 1] \o qs[i]
      BY <1>1, <1>2 DEF Flattens
    <3>2. g \in [1..L -> Seq(S)]
      BY <1>1, <3>1
    <3>3. ASSUME NEW i \in 1..L PROVE g[i] = IF i = 1 THEN ps[i] ELSE g[i - 1] \o ps[i]
      <4>1. i \in 1..(L + 1) /\ (i # 1 => i - 1 \in 1..L)
        BY <1>1
      <4> QED BY <1>1, <3>1, <4>1
    <3> HIDE DEF g
    <3> QED BY <3>2, <3>3 DEF Flattens
  <2>3. g[L] = f[L]
    BY <1>1, <2>1
  <2> HIDE DEF g
  <2>4. ProviderStream!FlattenSeq(ps) = g[L]
    BY <1>5, <2>2, FlattenIs
  <2>5. f[L + 1] = f[L] \o q /\ f[L] \in Seq(S)
    <3>1. L + 1 \in 1..Len(qs) /\ L \in 1..Len(qs) /\ L + 1 # 1 /\ L + 1 - 1 = L
      BY <1>1, <2>1
    <3>2. /\ f \in [1..Len(qs) -> Seq(S)]
          /\ \A i \in 1..Len(qs) : f[i] = IF i = 1 THEN qs[i] ELSE f[i - 1] \o qs[i]
      BY <1>2 DEF Flattens
    <3>3. f[L + 1] = f[L] \o qs[L + 1]
      <4> SUFFICES ASSUME NEW m, m = L + 1 PROVE f[m] = f[L] \o qs[m]
        OBVIOUS
      <4>1. m \in 1..Len(qs) /\ m # 1 /\ m - 1 = L
        BY <3>1
      <4> QED BY <3>2, <4>1
    <3> QED BY <1>1, <3>1, <3>2, <3>3
  <2> QED BY <1>3, <2>3, <2>4, <2>5 DEF qs
<1> QED BY <1>4, <1>5

\* What concatenation does in the sequences over S, as one fact.
Associates(S) == \A a, b, c \in Seq(S) : (a \o b) \o c = a \o (b \o c)
Extends(S) == \A a, b \in Seq(S), e \in S : a \o Append(b, e) = Append(a \o b, e)

\* Concatenation is associative.
LEMMA ConcatAssociates ==
  ASSUME NEW S
  PROVE  Associates(S)
BY ConcatAssociative DEF Associates

\* Appending commutes with a concatenation on the left.
LEMMA ConcatLast ==
  ASSUME NEW T, NEW a \in Seq(T), NEW b \in Seq(T), NEW e \in T
  PROVE  a \o Append(b, e) = Append(a \o b, e)
<1>1. b \o <<e>> = Append(b, e) /\ <<e>> \in Seq(T) /\ a \o b \in Seq(T)
  BY AppendIsConcat
<1>2. (a \o b) \o <<e>> = a \o (b \o <<e>>)
  BY <1>1, ConcatAssociative
<1>3. Append(a \o b, e) = (a \o b) \o <<e>>
  BY <1>1, AppendIsConcat
<1> QED BY <1>1, <1>2, <1>3

\* The same for all of them.
LEMMA ConcatExtends ==
  ASSUME NEW S
  PROVE  Extends(S)
BY ConcatLast DEF Extends

\* A flattened concatenation is the concatenation of the flattened.
LEMMA FlattenConcat ==
  ASSUME NEW S, NEW ps \in Seq(Seq(S)), NEW qs \in Seq(Seq(S))
  PROVE  /\ ProviderStream!FlattenSeq(ps) \in Seq(S)
         /\ ProviderStream!FlattenSeq(ps \o qs) = ProviderStream!FlattenSeq(ps) \o ProviderStream!FlattenSeq(qs)
<1>a. Associates(S) /\ Extends(Seq(S))
  BY ConcatAssociates, ConcatExtends
<1> DEFINE F(s) == ProviderStream!FlattenSeq(s)
           Joins(s) == F(ps \o s) = F(ps) \o F(s)
           M == {n \in Nat : \A s \in Seq(Seq(S)) : Len(s) = n => Joins(s)}
<1>0. F(ps) \in Seq(S)
  <2>1. <<>> \in Seq(S)
    OBVIOUS
  <2> QED BY <2>1, FlattenAppend
<1>1. 0 \in M
  <2> SUFFICES ASSUME NEW s \in Seq(Seq(S)), Len(s) = 0 PROVE Joins(s)
    OBVIOUS
  <2>1. s = <<>>
    OBVIOUS
  <2>2. ps \o <<>> = ps /\ F(ps) \o <<>> = F(ps)
    BY <1>0, ConcatEmptySeq
  <2> HIDE DEF F
  <2>3. F(<<>>) = <<>>
    BY FlattenEmpty DEF F
  <2> QED BY <2>1, <2>2, <2>3
<1>2. ASSUME NEW n \in Nat, n \in M PROVE n + 1 \in M
  <2> SUFFICES ASSUME NEW s \in Seq(Seq(S)), Len(s) = n + 1 PROVE Joins(s)
    OBVIOUS
  <2>1. s # <<>>
    OBVIOUS
  <2>2. PICK t \in Seq(Seq(S)), q \in Seq(S) : s = Append(t, q)
    BY <2>1, SequenceEmptyOrAppend
  <2>3. Len(t) = n
    BY <2>2
  <2>4. F(ps \o t) = F(ps) \o F(t)
    BY <1>2, <2>3
  <2>5. ps \o s = Append(ps \o t, q)
    BY Zenon, <1>a, <2>2 DEF Extends
  <2>6. ps \o t \in Seq(Seq(S))
    OBVIOUS
  <2>7. F(ps \o s) = F(ps \o t) \o q /\ F(t) \in Seq(S) /\ F(s) = F(t) \o q
    BY <2>2, <2>5, <2>6, FlattenAppend
  <2> HIDE DEF F
  <2>8. (F(ps) \o F(t)) \o q = F(ps) \o (F(t) \o q)
    BY Zenon, <1>0, <1>a, <2>2, <2>7 DEF Associates
  <2> QED BY <1>0, <2>4, <2>7, <2>8
<1> HIDE DEF M
<1>3. Nat \subseteq M
  BY <1>1, <1>2, SetInduction
<1>4. Len(qs) \in M
  BY <1>3
<1>5. Joins(qs)
  BY <1>4 DEF M
<1> QED BY <1>0, <1>5

-----------------------------------------------------------------------------
(* The reply stream: model events                                          *)

\* What m makes of each element, joined.
Mapped(m, s) == [i \in DOMAIN s |-> m[s[i]]]
Joined(m, s) == ProviderStream!FlattenSeq(Mapped(m, s))

Maps(m, X, T) == m \in [X -> T]

\* Mapping distributes over concatenation.
LEMMA MappedConcat ==
  ASSUME NEW X, NEW T, NEW m, Maps(m, X, T), NEW s \in Seq(X), NEW t \in Seq(X)
  PROVE  Mapped(m, s) \in Seq(T) /\ Mapped(m, s \o t) = Mapped(m, s) \o Mapped(m, t)
<1>1. ASSUME NEW u \in Seq(X)
      PROVE  /\ Mapped(m, u) \in Seq(T) /\ Len(Mapped(m, u)) = Len(u)
             /\ \A i \in 1..Len(u) : Mapped(m, u)[i] = m[u[i]]
  <2>1. Mapped(m, u) \in [1..Len(u) -> T]
    BY DEF Mapped, Maps
  <2>2. Len(u) \in Nat
    OBVIOUS
  <2> QED BY <2>1, <2>2 DEF Mapped
<1> DEFINE a == Mapped(m, s)
           b == Mapped(m, t)
           c == Mapped(m, s \o t)
<1>2. /\ s \o t \in Seq(X) /\ Len(s \o t) = Len(s) + Len(t) /\ Len(s) \in Nat /\ Len(t) \in Nat
      /\ \A i \in 1..(Len(s) + Len(t)) : (s \o t)[i] = IF i <= Len(s) THEN s[i] ELSE t[i - Len(s)]
  BY ConcatProperties
<1>3. /\ a \in Seq(T) /\ Len(a) = Len(s) /\ \A i \in 1..Len(s) : a[i] = m[s[i]]
      /\ b \in Seq(T) /\ Len(b) = Len(t) /\ \A i \in 1..Len(t) : b[i] = m[t[i]]
      /\ c \in Seq(T) /\ Len(c) = Len(s) + Len(t)
      /\ \A i \in 1..(Len(s) + Len(t)) : c[i] = m[(s \o t)[i]]
  BY <1>1, <1>2
<1> HIDE DEF a, b, c
<1> DEFINE d == a \o b
<1>4. /\ d \in Seq(T) /\ Len(d) = Len(a) + Len(b)
      /\ \A i \in 1..(Len(a) + Len(b)) : d[i] = IF i <= Len(a) THEN a[i] ELSE b[i - Len(a)]
  <2>1. a \in Seq(T) /\ b \in Seq(T)
    BY <1>3
  <2> QED BY <2>1, ConcatProperties
<1>5. /\ Len(d) = Len(s) + Len(t)
      /\ \A i \in 1..(Len(s) + Len(t)) : d[i] = IF i <= Len(s) THEN a[i] ELSE b[i - Len(s)]
  BY <1>3, <1>4
<1> HIDE DEF d
<1>6. ASSUME NEW i \in 1..(Len(s) + Len(t)) PROVE c[i] = d[i]
  <2>1. CASE i <= Len(s)
    BY <1>2, <1>3, <1>5, <2>1
  <2>2. CASE ~(i <= Len(s))
    <3>1. i - Len(s) \in 1..Len(t)
      BY <1>2, <2>2
    <3> QED BY <1>2, <1>3, <1>5, <2>2, <3>1
  <2> QED BY <2>1, <2>2
<1>7. c = d
  BY <1>3, <1>4, <1>5, <1>6
<1> QED BY <1>3, <1>7 DEF a, b, c, d

JoinsWell(m, s, t, T) ==
    /\ Joined(m, s) \in Seq(T)
    /\ Joined(m, s \o t) = Joined(m, s) \o Joined(m, t)

\* Joining distributes over concatenation.
LEMMA JoinedConcat ==
  ASSUME NEW X, NEW T, NEW m, Maps(m, X, Seq(T)), NEW s \in Seq(X), NEW t \in Seq(X)
  PROVE  JoinsWell(m, s, t, T)
<1>1. Mapped(m, s) \in Seq(Seq(T)) /\ Mapped(m, t) \in Seq(Seq(T))
      /\ Mapped(m, s \o t) = Mapped(m, s) \o Mapped(m, t)
  <2>1. Mapped(m, s) \in Seq(Seq(T)) /\ Mapped(m, s \o t) = Mapped(m, s) \o Mapped(m, t)
    BY MappedConcat
  <2>2. Mapped(m, t) \in Seq(Seq(T))
    BY MappedConcat
  <2> QED BY <2>1, <2>2
<1>2. /\ ProviderStream!FlattenSeq(Mapped(m, s)) \in Seq(T)
      /\ ProviderStream!FlattenSeq(Mapped(m, s) \o Mapped(m, t))
           = ProviderStream!FlattenSeq(Mapped(m, s)) \o ProviderStream!FlattenSeq(Mapped(m, t))
  BY <1>1, FlattenConcat
<1> QED BY <1>1, <1>2 DEF Joined, JoinsWell

\* Joining one gives its image, and joining none gives nothing.
LEMMA JoinedOne ==
  ASSUME NEW X, NEW T, NEW m, Maps(m, X, Seq(T)), NEW x \in X
  PROVE  Joined(m, <<x>>) = m[x] /\ Joined(m, <<>>) = <<>>
<1>1. Mapped(m, <<x>>) = <<m[x]>> /\ Mapped(m, <<>>) = <<>>
  BY DEF Mapped
<1>2. m[x] \in Seq(T) /\ <<>> \in Seq(Seq(T)) /\ Append(<<>>, m[x]) = <<m[x]>>
  BY DEF Maps
<1>3. ProviderStream!FlattenSeq(<<m[x]>>) = ProviderStream!FlattenSeq(<<>>) \o m[x]
  <2>1. ProviderStream!FlattenSeq(Append(<<>>, m[x])) = ProviderStream!FlattenSeq(<<>>) \o m[x]
    BY <1>2, FlattenAppend
  <2> QED BY <1>2, <2>1
<1>4. <<>> \o m[x] = m[x]
  BY <1>2, ConcatEmptySeq
<1> QED BY <1>1, <1>3, <1>4, FlattenEmpty DEF Joined

Fragment == Nat \X Nat
StreamEvent ==
         [event : {"text"}, parts : Seq(Fragment)]
    \cup [event : {"tool"}, index : 1 .. MaxItems, parts : Seq(Fragment)]
    \cup [event : {"reasoning", "data", "usage", "end"}]
    \cup [event : {"finish"}, reason : {"stop", "tools", "length"}]

\* The text that events carry, and the calls they name.
TextPart == [e \in StreamEvent |-> IF e.event = "text" THEN e.parts ELSE <<>>]
TextOf(s) == Joined(TextPart, s)
CallsOf(s) == {s[i].index : i \in {j \in DOMAIN s : s[j].event = "tool"}}
\* Each event but the End, as a part of its own.
Survivor == [e \in StreamEvent |-> IF e.event = "end" THEN <<>> ELSE <<e>>]
\* Events that show nothing of the reply.
Quiet(s) == \A i \in DOMAIN s : s[i].event \in {"usage", "finish", "end"}

\* The fields of events have their types.
LEMMA EventFields ==
  ASSUME NEW e \in StreamEvent
  PROVE  /\ e.event \in {"text", "tool", "reasoning", "data", "usage", "end", "finish"}
         /\ e.event = "text" => e.parts \in Seq(Fragment)
         /\ e.event = "tool" => e.parts \in Seq(Fragment) /\ e.index \in 1 .. MaxItems
         /\ e.event = "finish" => e.reason \in {"stop", "tools", "length"}
BY DEF StreamEvent

\* What an event adds to text and what is left of it but for an End.
LEMMA EventParts ==
  /\ Maps(TextPart, StreamEvent, Seq(Fragment))
  /\ Maps(Survivor, StreamEvent, Seq(StreamEvent))
  /\ \A e \in StreamEvent : /\ TextPart[e] = (IF e.event = "text" THEN e.parts ELSE <<>>)
                            /\ Survivor[e] = (IF e.event = "end" THEN <<>> ELSE <<e>>)
<1>1. ASSUME NEW e \in StreamEvent
      PROVE  /\ (IF e.event = "text" THEN e.parts ELSE <<>>) \in Seq(Fragment)
             /\ (IF e.event = "end" THEN <<>> ELSE <<e>>) \in Seq(StreamEvent)
  <2>1. (IF e.event = "text" THEN e.parts ELSE <<>>) \in Seq(Fragment)
    <3>1. <<>> \in Seq(Fragment)
      OBVIOUS
    <3> QED BY <3>1, EventFields
  <2>2. <<e>> \in Seq(StreamEvent) /\ <<>> \in Seq(StreamEvent)
    OBVIOUS
  <2> QED BY <2>1, <2>2
<1> QED BY <1>1 DEF TextPart, Survivor, Maps

\* WithoutEnd joins the survivors.
LEMMA WithoutEndIs ==
  ASSUME NEW s \in Seq(StreamEvent)
  PROVE  ProviderStream!WithoutEnd(s) = Joined(Survivor, s)
<1>1. [i \in DOMAIN s |-> IF s[i].event = "end" THEN <<>> ELSE <<s[i]>>] = Mapped(Survivor, s)
  BY EventParts DEF Mapped
<1> QED BY <1>1 DEF ProviderStream!WithoutEnd, Joined

\* The text of events is a sequence of fragments, and that of two stretches is joined.
LEMMA TextOfConcat ==
  ASSUME NEW s \in Seq(StreamEvent), NEW t \in Seq(StreamEvent)
  PROVE  /\ TextOf(s) \in Seq(Fragment)
         /\ TextOf(s \o t) = TextOf(s) \o TextOf(t)
<1>1. Maps(TextPart, StreamEvent, Seq(Fragment))
  BY EventParts
<1>2. JoinsWell(TextPart, s, t, Fragment)
  BY Zenon, <1>1, JoinedConcat
<1> QED BY <1>2 DEF JoinsWell, TextOf

\* What two stretches leave is joined.
LEMMA WithoutEndConcat ==
  ASSUME NEW s \in Seq(StreamEvent), NEW t \in Seq(StreamEvent)
  PROVE  /\ ProviderStream!WithoutEnd(s) \in Seq(StreamEvent)
         /\ ProviderStream!WithoutEnd(s \o t) = ProviderStream!WithoutEnd(s) \o ProviderStream!WithoutEnd(t)
<1>1. s \o t \in Seq(StreamEvent)
  OBVIOUS
<1>2. Joined(Survivor, s) \in Seq(StreamEvent) /\ Joined(Survivor, s \o t) = Joined(Survivor, s) \o Joined(Survivor, t)
  <2>1. Maps(Survivor, StreamEvent, Seq(StreamEvent))
    BY EventParts
  <2>2. JoinsWell(Survivor, s, t, StreamEvent)
    BY Zenon, <2>1, JoinedConcat
  <2> QED BY <2>2 DEF JoinsWell
<1> QED BY <1>1, <1>2, WithoutEndIs

\* What one event shows, names and leaves.
LEMMA OneEvent ==
  ASSUME NEW e \in StreamEvent
  PROVE  /\ TextOf(<<e>>) = (IF e.event = "text" THEN e.parts ELSE <<>>)
         /\ CallsOf(<<e>>) = (IF e.event = "tool" THEN {e.index} ELSE {})
         /\ ProviderStream!WithoutEnd(<<e>>) = (IF e.event = "end" THEN <<>> ELSE <<e>>)
<1>1. <<e>> \in Seq(StreamEvent)
  OBVIOUS
<1>2. Joined(TextPart, <<e>>) = TextPart[e] /\ Joined(Survivor, <<e>>) = Survivor[e]
  <2>1. Maps(TextPart, StreamEvent, Seq(Fragment))
    BY EventParts
  <2>2. Maps(Survivor, StreamEvent, Seq(StreamEvent))
    BY EventParts
  <2>3. Joined(TextPart, <<e>>) = TextPart[e]
    BY <2>1, JoinedOne
  <2>4. Joined(Survivor, <<e>>) = Survivor[e]
    BY <2>2, JoinedOne
  <2> QED BY <2>3, <2>4
<1>3. CallsOf(<<e>>) = (IF e.event = "tool" THEN {e.index} ELSE {})
  <2>1. DOMAIN <<e>> = {1} /\ <<e>>[1] = e
    OBVIOUS
  <2> QED BY <2>1 DEF CallsOf
<1> QED BY <1>1, <1>2, <1>3, EventParts, WithoutEndIs DEF TextOf

\* No event shows, names or leaves anything.
LEMMA NoEvents == TextOf(<<>>) = <<>> /\ CallsOf(<<>>) = {} /\ ProviderStream!WithoutEnd(<<>>) = <<>> /\ Quiet(<<>>)
<1>1. \A m : Joined(m, <<>>) = <<>>
  <2>1. \A m : Mapped(m, <<>>) = <<>>
    BY DEF Mapped
  <2> QED BY <2>1, FlattenEmpty DEF Joined
<1>2. CallsOf(<<>>) = {} /\ Quiet(<<>>)
  BY DEF CallsOf, Quiet
<1>3. <<>> \in Seq(StreamEvent)
  OBVIOUS
<1> QED BY <1>1, <1>2, <1>3, WithoutEndIs DEF TextOf

\* Two stretches name the calls of both, and are quiet when both are.
LEMMA CallsOfConcat ==
  ASSUME NEW s \in Seq(StreamEvent), NEW t \in Seq(StreamEvent)
  PROVE  /\ CallsOf(s \o t) = CallsOf(s) \cup CallsOf(t)
         /\ Quiet(s \o t) <=> Quiet(s) /\ Quiet(t)
<1> DEFINE u == s \o t
<1>1. /\ DOMAIN u = 1..(Len(s) + Len(t)) /\ DOMAIN s = 1..Len(s) /\ DOMAIN t = 1..Len(t)
      /\ \A i \in 1..(Len(s) + Len(t)) : u[i] = IF i <= Len(s) THEN s[i] ELSE t[i - Len(s)]
      /\ Len(s) \in Nat /\ Len(t) \in Nat
  BY ConcatProperties
<1> HIDE DEF u
<1>2. ASSUME NEW i \in DOMAIN s PROVE i \in DOMAIN u /\ u[i] = s[i]
  BY <1>1
<1>3. ASSUME NEW i \in DOMAIN t PROVE Len(s) + i \in DOMAIN u /\ u[Len(s) + i] = t[i]
  <2>1. Len(s) + i \in 1..(Len(s) + Len(t)) /\ ~(Len(s) + i <= Len(s)) /\ Len(s) + i - Len(s) = i
    BY <1>1
  <2> SUFFICES ASSUME NEW j, j = Len(s) + i PROVE j \in DOMAIN u /\ u[j] = t[i]
    OBVIOUS
  <2> QED BY <1>1, <2>1
<1>4. ASSUME NEW i \in DOMAIN u
      PROVE  (\E j \in DOMAIN s : s[j] = u[i]) \/ (\E j \in DOMAIN t : t[j] = u[i])
  <2>1. CASE i <= Len(s)
    BY <1>1, <2>1
  <2>2. CASE ~(i <= Len(s))
    <3>1. i - Len(s) \in DOMAIN t /\ u[i] = t[i - Len(s)]
      BY <1>1, <2>2
    <3> QED BY <3>1
  <2> QED BY <2>1, <2>2
<1>5. CallsOf(u) = CallsOf(s) \cup CallsOf(t)
  <2>1. ASSUME NEW c \in CallsOf(u) PROVE c \in CallsOf(s) \cup CallsOf(t)
    <3>1. PICK i \in DOMAIN u : u[i].event = "tool" /\ u[i].index = c
      BY DEF CallsOf
    <3> QED BY <1>4, <3>1 DEF CallsOf
  <2>2. ASSUME NEW c \in CallsOf(s) PROVE c \in CallsOf(u)
    BY <1>2 DEF CallsOf
  <2>3. ASSUME NEW c \in CallsOf(t) PROVE c \in CallsOf(u)
    <3>1. PICK i \in DOMAIN t : t[i].event = "tool" /\ t[i].index = c
      BY DEF CallsOf
    <3>2. Len(s) + i \in DOMAIN u /\ u[Len(s) + i] = t[i]
      BY <1>3
    <3> QED BY <3>1, <3>2 DEF CallsOf
  <2> QED BY <2>1, <2>2, <2>3
<1>6. Quiet(u) <=> Quiet(s) /\ Quiet(t)
  <2>1. Quiet(s) /\ Quiet(t) => Quiet(u)
    <3> SUFFICES ASSUME Quiet(s), Quiet(t), NEW i \in DOMAIN u PROVE u[i].event \in {"usage", "finish", "end"}
      BY DEF Quiet
    <3> QED BY <1>4 DEF Quiet
  <2>2. Quiet(u) => Quiet(s)
    BY <1>2 DEF Quiet
  <2>3. Quiet(u) => Quiet(t)
    <3> SUFFICES ASSUME Quiet(u), NEW i \in DOMAIN t PROVE t[i].event \in {"usage", "finish", "end"}
      BY DEF Quiet
    <3>1. Len(s) + i \in DOMAIN u /\ u[Len(s) + i] = t[i]
      BY <1>3
    <3> QED BY <3>1 DEF Quiet
  <2> QED BY <2>1, <2>2, <2>3
<1> QED BY <1>5, <1>6 DEF u

\* What WithoutEnd keeps is among the events, and stays.
LEMMA WithoutEndKeeps ==
  ASSUME NEW s \in Seq(StreamEvent)
  PROVE  /\ ProviderStream!WithoutEnd(ProviderStream!WithoutEnd(s)) = ProviderStream!WithoutEnd(s)
         /\ \A i \in DOMAIN ProviderStream!WithoutEnd(s) :
               \E j \in DOMAIN s : s[j] = ProviderStream!WithoutEnd(s)[i]
<1> DEFINE W(u) == ProviderStream!WithoutEnd(u)
           Kept(u) == W(W(u)) = W(u) /\ \A i \in DOMAIN W(u) : \E j \in DOMAIN u : u[j] = W(u)[i]
           M == {n \in Nat : \A u \in Seq(StreamEvent) : Len(u) = n => Kept(u)}
<1>1. 0 \in M
  <2> SUFFICES ASSUME NEW u \in Seq(StreamEvent), Len(u) = 0 PROVE Kept(u)
    OBVIOUS
  <2>1. u = <<>> /\ DOMAIN <<>> = {}
    OBVIOUS
  <2>2. W(<<>>) = <<>>
    BY NoEvents
  <2> HIDE DEF W
  <2> QED BY <2>1, <2>2
<1>2. ASSUME NEW n \in Nat, n \in M PROVE n + 1 \in M
  <2> SUFFICES ASSUME NEW u \in Seq(StreamEvent), Len(u) = n + 1 PROVE Kept(u)
    OBVIOUS
  <2>1. PICK t \in Seq(StreamEvent), e \in StreamEvent : u = Append(t, e)
    <3>1. u # <<>>
      OBVIOUS
    <3> QED BY <3>1, SequenceEmptyOrAppend
  <2>2. Len(t) = n
    BY <2>1
  <2>3. Kept(t)
    BY <1>2, <2>2
  <2>4. <<e>> \in Seq(StreamEvent) /\ u = t \o <<e>>
    BY <2>1, AppendIsConcat
  <2>5. W(t) \in Seq(StreamEvent) /\ W(u) = W(t) \o W(<<e>>)
    BY <2>4, WithoutEndConcat
  <2>6. W(<<e>>) = (IF e.event = "end" THEN <<>> ELSE <<e>>)
    BY OneEvent
  <2>7. /\ Len(u) \in Nat /\ DOMAIN t = 1..Len(t) /\ DOMAIN u = 1..(Len(t) + 1) /\ Len(t) \in Nat
        /\ \A i \in 1..Len(t) : u[i] = t[i]
        /\ u[Len(t) + 1] = e
    BY <2>1, AppendProperties
  <2>8. CASE e.event = "end"
    <3>1. W(t) \o <<>> = W(t)
      BY <2>5, ConcatEmptySeq
    <3>2. W(u) = W(t)
      BY <2>5, <2>6, <2>8, <3>1
    <3> HIDE DEF W
    <3>3. DOMAIN t \subseteq DOMAIN u
      BY <2>7
    <3> QED BY <2>3, <2>7, <3>2, <3>3
  <2>9. CASE e.event # "end"
    <3>1. W(<<e>>) = <<e>>
      BY <2>6, <2>9
    <3>2. W(W(t) \o <<e>>) = W(W(t)) \o W(<<e>>)
      BY <2>4, <2>5, WithoutEndConcat
    <3> DEFINE w == W(t)
    <3>3. w \in Seq(StreamEvent) /\ W(u) = Append(w, e) /\ W(u) = w \o <<e>>
      BY <2>5, <3>1, AppendIsConcat
    <3>4. W(W(u)) = W(u)
      <4>1. W(w) = w
        BY <2>3
      <4> HIDE DEF W, w
      <4>2. W(w \o <<e>>) = W(w) \o W(<<e>>)
        BY <3>2 DEF w
      <4> QED BY <3>1, <3>3, <4>1, <4>2
    <3>5. \A i \in DOMAIN w : \E j \in DOMAIN t : t[j] = w[i]
      BY <2>3
    <3> HIDE DEF W, w
    <3>6. ASSUME NEW i \in DOMAIN W(u) PROVE \E j \in DOMAIN u : u[j] = W(u)[i]
      <4>1. /\ DOMAIN w = 1..Len(w) /\ Len(w) \in Nat /\ DOMAIN Append(w, e) = 1..(Len(w) + 1)
            /\ \A k \in 1..Len(w) : Append(w, e)[k] = w[k]
            /\ Append(w, e)[Len(w) + 1] = e
        BY <3>3, AppendProperties
      <4>2. CASE i = Len(w) + 1
        <5>1. Len(t) + 1 \in DOMAIN u
          BY <2>7
        <5> QED BY <2>7, <3>3, <4>1, <4>2, <5>1
      <4>3. CASE i # Len(w) + 1
        <5>1. i \in DOMAIN w /\ W(u)[i] = w[i]
          BY <3>3, <4>1, <4>3
        <5>2. PICK j \in DOMAIN t : t[j] = w[i]
          BY <3>5, <5>1
        <5>3. j \in DOMAIN u /\ u[j] = t[j]
          BY <2>7
        <5> QED BY <5>1, <5>2, <5>3
      <4> QED BY <4>2, <4>3
    <3> QED BY <3>4, <3>6
  <2> QED BY <2>8, <2>9
<1> HIDE DEF M
<1>3. Nat \subseteq M
  BY <1>1, <1>2, SetInduction
<1>4. Len(s) \in M
  BY <1>3
<1> QED BY <1>4 DEF M

\* What is quiet stays quiet.
LEMMA WithoutEndQuiet ==
  ASSUME NEW s \in Seq(StreamEvent), Quiet(s)
  PROVE  Quiet(ProviderStream!WithoutEnd(s))
BY WithoutEndKeeps DEF Quiet

-----------------------------------------------------------------------------
(* The reply stream: items and their text                                  *)

StreamItem == [kind : ProviderStream!Kinds, size : Nat, done : BOOLEAN]
Reasons == {"none", "stop", "tools", "length"}
Decoder ==
    [started : BOOLEAN, items : Seq(StreamItem), finish : Reasons, ended : BOOLEAN, output : BOOLEAN,
     text : Seq(Fragment), whole : BOOLEAN, private : BOOLEAN]

\* The text of item i, and that of each.
Piece(i, x) == IF x.kind = "message" THEN ProviderStream!Fragments(i, 0, x.size) ELSE <<>>
Pieces(items) == [i \in DOMAIN items |-> Piece(i, items[i])]

\* Fragments are fragments.
LEMMA FragmentsType ==
  ASSUME NEW i \in Nat, NEW a \in Nat, NEW b \in Nat, a <= b
  PROVE  /\ ProviderStream!Fragments(i, a, b) \in Seq(Fragment)
         /\ Len(ProviderStream!Fragments(i, a, b)) = b - a
         /\ \A k \in 1..(b - a) : ProviderStream!Fragments(i, a, b)[k] = <<i, a + k>>
<1>1. b - a \in Nat
  OBVIOUS
<1>2. ASSUME NEW k \in 1..(b - a) PROVE <<i, a + k>> \in Fragment
  BY <1>1 DEF Fragment
<1>3. ProviderStream!Fragments(i, a, b) \in [1..(b - a) -> Fragment]
  BY <1>2 DEF ProviderStream!Fragments
<1>4. \A k \in 1..(b - a) : ProviderStream!Fragments(i, a, b)[k] = <<i, a + k>>
  BY DEF ProviderStream!Fragments
<1> QED BY <1>1, <1>3, <1>4

\* Texts can be joined in any order.
LEMMA FragmentsAssociate == \A a, b, c \in Seq(Fragment) : (a \o b) \o c = a \o (b \o c)
<1>1. Associates(Fragment)
  BY ConcatAssociates
<1> QED BY <1>1 DEF Associates

\* Fragments followed by the next ones are the fragments up to there.
LEMMA FragmentsJoin ==
  ASSUME NEW i \in Nat, NEW a \in Nat, NEW b \in Nat, a <= b
  PROVE  ProviderStream!Fragments(i, 0, a) \o ProviderStream!Fragments(i, a, b) = ProviderStream!Fragments(i, 0, b)
<1> DEFINE s == ProviderStream!Fragments(i, 0, a)
           t == ProviderStream!Fragments(i, a, b)
           u == ProviderStream!Fragments(i, 0, b)
<1>1. /\ s \in Seq(Fragment) /\ Len(s) = a /\ \A k \in 1..a : s[k] = <<i, k>>
      /\ u \in Seq(Fragment) /\ Len(u) = b /\ \A k \in 1..b : u[k] = <<i, k>>
  <2>1. 0 <= a /\ 0 <= b /\ a - 0 = a /\ b - 0 = b /\ 0 \in Nat /\ \A k \in Nat : 0 + k = k
    OBVIOUS
  <2>2. /\ s \in Seq(Fragment) /\ Len(s) = a - 0 /\ \A k \in 1..(a - 0) : s[k] = <<i, 0 + k>>
        /\ u \in Seq(Fragment) /\ Len(u) = b - 0 /\ \A k \in 1..(b - 0) : u[k] = <<i, 0 + k>>
    BY <2>1, FragmentsType
  <2> HIDE DEF s, u
  <2> QED BY <2>1, <2>2
<1>2. t \in Seq(Fragment) /\ Len(t) = b - a /\ \A k \in 1..(b - a) : t[k] = <<i, a + k>>
  BY FragmentsType
<1> HIDE DEF s, t, u
<1> DEFINE v == s \o t
<1>3. /\ v \in Seq(Fragment) /\ Len(v) = Len(s) + Len(t)
      /\ \A k \in 1..(Len(s) + Len(t)) : v[k] = IF k <= Len(s) THEN s[k] ELSE t[k - Len(s)]
  BY <1>1, <1>2, ConcatProperties
<1>4. Len(s) + Len(t) = b
  BY <1>1, <1>2
<1>5. /\ v \in Seq(Fragment) /\ Len(v) = b
      /\ \A k \in 1..b : v[k] = IF k <= a THEN s[k] ELSE t[k - a]
  BY <1>1, <1>3, <1>4
<1> HIDE DEF v
<1>6. ASSUME NEW k \in 1..b PROVE v[k] = u[k]
  <2>1. CASE k <= a
    <3>1. k \in 1..a
      BY <2>1
    <3>2. v[k] = s[k]
      BY <1>5, <2>1
    <3>3. s[k] = <<i, k>> /\ u[k] = <<i, k>>
      BY <1>1, <3>1
    <3> QED BY <3>2, <3>3
  <2>2. CASE ~(k <= a)
    <3>1. k - a \in 1..(b - a) /\ a + (k - a) = k
      BY <2>2
    <3>2. v[k] = t[k - a]
      BY <1>5, <2>2
    <3>3. t[k - a] = <<i, a + (k - a)>>
      BY <1>2, <3>1
    <3> QED BY <1>1, <3>1, <3>2, <3>3
  <2> QED BY <2>1, <2>2
<1>7. v = u
  BY <1>1, <1>5, <1>6
<1> QED BY <1>7 DEF s, t, u, v

\* An empty range has no fragments.
LEMMA FragmentsNone ==
  ASSUME NEW i \in Nat, NEW a \in Nat
  PROVE  ProviderStream!Fragments(i, a, a) = <<>>
<1>1. a - a = 0
  OBVIOUS
<1> QED BY <1>1 DEF ProviderStream!Fragments

\* The piece of an item is a sequence of fragments.
LEMMA PieceType ==
  ASSUME NEW i \in Nat, NEW x \in StreamItem
  PROVE  Piece(i, x) \in Seq(Fragment)
<1>1. x.size \in Nat
  BY DEF StreamItem
<1>2. ProviderStream!Fragments(i, 0, x.size) \in Seq(Fragment) /\ <<>> \in Seq(Fragment)
  <2> SUFFICES ASSUME NEW n \in Nat PROVE ProviderStream!Fragments(i, 0, n) \in Seq(Fragment)
    BY <1>1
  <2> QED BY FragmentsType, 0 \in Nat, 0 <= n
<1> QED BY <1>2 DEF Piece

\* So are the pieces of all items.
LEMMA PiecesType ==
  ASSUME NEW items \in Seq(StreamItem)
  PROVE  /\ Pieces(items) \in Seq(Seq(Fragment)) /\ Len(Pieces(items)) = Len(items)
         /\ \A i \in 1..Len(items) : Pieces(items)[i] = Piece(i, items[i])
<1>1. ASSUME NEW i \in DOMAIN items PROVE Piece(i, items[i]) \in Seq(Fragment)
  <2>1. i \in Nat /\ items[i] \in StreamItem
    OBVIOUS
  <2> QED BY <2>1, PieceType
<1>2. Pieces(items) \in [1..Len(items) -> Seq(Fragment)]
  BY <1>1 DEF Pieces
<1>3. Len(items) \in Nat
  OBVIOUS
<1> QED BY <1>2, <1>3 DEF Pieces

\* One more item adds its piece.
LEMMA PiecesAppend ==
  ASSUME NEW items \in Seq(StreamItem), NEW x \in StreamItem
  PROVE  Pieces(Append(items, x)) = Append(Pieces(items), Piece(Len(items) + 1, x))
<1> DEFINE L == Len(items)
           a == Append(items, x)
           p == Pieces(items)
           q == Piece(L + 1, x)
           b == Append(p, q)
           c == Pieces(a)
<1>1. /\ a \in Seq(StreamItem) /\ Len(a) = L + 1 /\ L \in Nat
      /\ \A i \in 1..L : a[i] = items[i]
      /\ a[L + 1] = x
  BY AppendProperties
<1>2. /\ p \in Seq(Seq(Fragment)) /\ Len(p) = L /\ \A i \in 1..L : p[i] = Piece(i, items[i])
  BY PiecesType
<1>3. q \in Seq(Fragment)
  BY <1>1, PieceType
<1> HIDE DEF p, q, a
<1>4. /\ c \in Seq(Seq(Fragment)) /\ Len(c) = Len(a) /\ \A i \in 1..Len(a) : c[i] = Piece(i, a[i])
  BY <1>1, PiecesType
<1>5. /\ b \in Seq(Seq(Fragment)) /\ Len(b) = L + 1
      /\ \A i \in 1..L : b[i] = p[i]
      /\ b[L + 1] = q
  BY <1>2, <1>3, AppendProperties
<1> HIDE DEF b, c
<1>6. ASSUME NEW i \in 1..(L + 1) PROVE b[i] = c[i]
  <2>1. CASE i = L + 1
    BY <1>1, <1>4, <1>5, <2>1 DEF q
  <2>2. CASE i # L + 1
    <3>1. i \in 1..L
      BY <1>1, <2>2
    <3> QED BY <1>1, <1>2, <1>4, <1>5, <3>1
  <2> QED BY <2>1, <2>2
<1>7. b = c
  BY <1>1, <1>4, <1>5, <1>6
<1> QED BY <1>7 DEF a, b, c, p, q

\* The text of items.
ItemsText(items) == ProviderStream!FlattenSeq(Pieces(items))

\* With one more item there is its text after that.
LEMMA ItemsTextAppend ==
  ASSUME NEW items \in Seq(StreamItem), NEW x \in StreamItem
  PROVE  /\ ItemsText(items) \in Seq(Fragment)
         /\ ItemsText(Append(items, x)) = ItemsText(items) \o Piece(Len(items) + 1, x)
<1>1. Len(items) + 1 \in Nat
  OBVIOUS
<1>2. Piece(Len(items) + 1, x) \in Seq(Fragment) /\ Pieces(items) \in Seq(Seq(Fragment))
  BY <1>1, PieceType, PiecesType
<1> QED BY <1>2, PiecesAppend, FlattenAppend DEF ItemsText

\* Items are the last one after the others, and replacing it keeps those.
LEMMA LastItem ==
  ASSUME NEW items \in Seq(StreamItem), NEW x \in StreamItem, items # <<>>
  PROVE  /\ Len(items) \in DOMAIN items
         /\ \E front \in Seq(StreamItem) :
              /\ items = Append(front, items[Len(items)]) /\ Len(front) + 1 = Len(items)
              /\ [items EXCEPT ![Len(items)] = x] = Append(front, x)
<1>1. PICK front \in Seq(StreamItem), y \in StreamItem : items = Append(front, y)
  BY SequenceEmptyOrAppend
<1> DEFINE L == Len(front)
<1>2. /\ Len(items) = L + 1 /\ L \in Nat /\ DOMAIN items = 1..(L + 1)
      /\ \A i \in 1..L : items[i] = front[i]
      /\ items[L + 1] = y
  BY <1>1, AppendProperties
<1> DEFINE a == Append(front, x)
           b == [items EXCEPT ![L + 1] = x]
<1>3. /\ a \in Seq(StreamItem) /\ Len(a) = L + 1 /\ DOMAIN a = 1..(L + 1)
      /\ \A i \in 1..L : a[i] = front[i]
      /\ a[L + 1] = x
  BY AppendProperties
<1>4. /\ b \in Seq(StreamItem) /\ Len(b) = L + 1 /\ b[L + 1] = x
      /\ \A i \in 1..L : b[i] = items[i]
  BY <1>2
<1> HIDE DEF a, b
<1>5. a = b
  <2>1. ASSUME NEW i \in 1..(L + 1) PROVE a[i] = b[i]
    <3>1. i = L + 1 \/ i \in 1..L
      BY <1>2
    <3> QED BY <1>2, <1>3, <1>4, <3>1
  <2> QED BY <1>2, <1>3, <1>4, <2>1
<1>6. Len(items) \in DOMAIN items
  BY <1>2
<1>7. /\ items = Append(front, items[Len(items)]) /\ Len(front) + 1 = Len(items)
      /\ [items EXCEPT ![Len(items)] = x] = Append(front, x)
  BY <1>1, <1>2, <1>5 DEF a, b
<1> QED BY <1>6, <1>7

-----------------------------------------------------------------------------
(* The reply stream: the events of a step                                  *)

\* An element of a concatenation is one of either.
LEMMA ConcatElements ==
  ASSUME NEW X, NEW s \in Seq(X), NEW t \in Seq(X), NEW i \in DOMAIN (s \o t)
  PROVE  (\E j \in DOMAIN s : s[j] = (s \o t)[i]) \/ (\E j \in DOMAIN t : t[j] = (s \o t)[i])
<1> DEFINE u == s \o t
<1>1. /\ DOMAIN u = 1..(Len(s) + Len(t)) /\ DOMAIN s = 1..Len(s) /\ DOMAIN t = 1..Len(t)
      /\ \A k \in 1..(Len(s) + Len(t)) : u[k] = IF k <= Len(s) THEN s[k] ELSE t[k - Len(s)]
      /\ Len(s) \in Nat /\ Len(t) \in Nat
  BY ConcatProperties
<1>0. i \in DOMAIN u
  OBVIOUS
<1> HIDE DEF u
<1>2. CASE i <= Len(s)
  <2>1. i \in DOMAIN s /\ u[i] = s[i]
    BY <1>0, <1>1, <1>2
  <2> QED BY <2>1 DEF u
<1>3. CASE ~(i <= Len(s))
  <2>1. i - Len(s) \in DOMAIN t /\ u[i] = t[i - Len(s)]
    BY <1>0, <1>1, <1>3
  <2> QED BY <2>1 DEF u
<1>4. i \in Int /\ Len(s) \in Int
  BY <1>0, <1>1
<1> QED BY <1>2, <1>3, <1>4

\* Events with neither text nor calls.
Silent(s) == \A i \in DOMAIN s : s[i].event \notin {"text", "tool"}

\* Silent events show no text and name no call.
LEMMA SilentEvents ==
  ASSUME NEW s \in Seq(StreamEvent), Silent(s)
  PROVE  TextOf(s) = <<>> /\ CallsOf(s) = {}
<1> DEFINE M == {n \in Nat : \A u \in Seq(StreamEvent) : Len(u) = n /\ Silent(u) => TextOf(u) = <<>>}
<1>1. 0 \in M
  <2> SUFFICES ASSUME NEW u \in Seq(StreamEvent), Len(u) = 0 PROVE TextOf(u) = <<>>
    OBVIOUS
  <2>1. u = <<>>
    OBVIOUS
  <2> QED BY <2>1, NoEvents
<1>2. ASSUME NEW n \in Nat, n \in M PROVE n + 1 \in M
  <2> SUFFICES ASSUME NEW u \in Seq(StreamEvent), Len(u) = n + 1, Silent(u) PROVE TextOf(u) = <<>>
    OBVIOUS
  <2>1. PICK t \in Seq(StreamEvent), e \in StreamEvent : u = Append(t, e)
    <3>1. u # <<>>
      OBVIOUS
    <3> QED BY <3>1, SequenceEmptyOrAppend
  <2>2. /\ Len(u) = Len(t) + 1 /\ Len(t) \in Nat /\ DOMAIN t = 1..Len(t) /\ DOMAIN u = 1..(Len(t) + 1)
        /\ \A i \in 1..Len(t) : u[i] = t[i]
        /\ u[Len(t) + 1] = e
    BY <2>1, AppendProperties
  <2>3. Silent(t) /\ e.event # "text"
    <3>1. Silent(t)
      BY <2>2 DEF Silent
    <3>2. Len(t) + 1 \in DOMAIN u
      BY <2>2
    <3>3. e.event # "text"
      BY <2>2, <3>2 DEF Silent
    <3> QED BY <3>1, <3>3
  <2>4. TextOf(t) = <<>>
    BY <1>2, <2>2, <2>3
  <2>5. <<e>> \in Seq(StreamEvent) /\ u = t \o <<e>>
    BY <2>1, AppendIsConcat
  <2>6. TextOf(u) = TextOf(t) \o TextOf(<<e>>)
    BY <2>5, TextOfConcat
  <2>7. TextOf(<<e>>) = <<>>
    BY <2>3, OneEvent
  <2> QED BY <2>4, <2>6, <2>7
<1> HIDE DEF M
<1>3. Nat \subseteq M
  BY <1>1, <1>2, SetInduction
<1>4. Len(s) \in M
  BY <1>3
<1>5. TextOf(s) = <<>>
  BY <1>4 DEF M
<1>6. CallsOf(s) = {}
  BY DEF Silent, CallsOf
<1> QED BY <1>5, <1>6

\* What ends a reply: a tail of facts, the finish and the End.
Tailed(s, pre, reason) ==
    /\ s \in Seq(StreamEvent)
    /\ TextOf(s) = <<>> /\ CallsOf(s) = {}
    /\ Quiet(pre) => Quiet(s)
    /\ \A i \in DOMAIN s : s[i].event = "finish" => s[i].reason = reason

\* A finish and an End after usage or data is such a tail.
LEMMA TailIs ==
  ASSUME NEW pre \in Seq([event : {"usage", "data"}]), NEW reason \in {"stop", "tools", "length"}
  PROVE  Tailed(pre \o <<ProviderStream!Finish(reason), ProviderStream!Plain("end")>>, pre, reason)
<1> DEFINE a == ProviderStream!Finish(reason)
           b == ProviderStream!Plain("end")
           s == pre \o <<a, b>>
<1>1. /\ a \in StreamEvent /\ a.event = "finish" /\ a.reason = reason
      /\ b \in StreamEvent /\ b.event = "end"
  BY DEF ProviderStream!Finish, ProviderStream!Plain, StreamEvent
<1> HIDE DEF a, b
<1>2. <<a, b>> \in Seq(StreamEvent)
  BY <1>1
<1>3. [event : {"usage", "data"}] \subseteq StreamEvent
  BY DEF StreamEvent
<1>4. pre \in Seq(StreamEvent) /\ \A i \in DOMAIN pre : pre[i].event \in {"usage", "data"}
  <2> DEFINE F == [event : {"usage", "data"}]
  <2>1. \A x \in F : x.event \in {"usage", "data"}
    OBVIOUS
  <2> HIDE DEF F
  <2>2. Len(pre) \in Nat /\ DOMAIN pre = 1..Len(pre) /\ \A i \in DOMAIN pre : pre[i] \in F
    <3>1. pre \in Seq(F)
      BY DEF F
    <3> QED BY <3>1
  <2>3. pre \in Seq(StreamEvent)
    <3>1. F \subseteq StreamEvent
      BY <1>3 DEF F
    <3>2. pre \in Seq(F)
      BY DEF F
    <3> QED BY <3>1, <3>2
  <2> QED BY <2>1, <2>2, <2>3
<1>5. ASSUME NEW i \in DOMAIN <<a, b>> PROVE <<a, b>>[i] = a \/ <<a, b>>[i] = b
  OBVIOUS
<1>6. s \in Seq(StreamEvent)
  BY <1>2, <1>4
<1>7. ASSUME NEW i \in DOMAIN s
      PROVE  (\E j \in DOMAIN pre : pre[j] = s[i]) \/ s[i] = a \/ s[i] = b
  <2>1. (\E j \in DOMAIN pre : pre[j] = s[i]) \/ (\E j \in DOMAIN <<a, b>> : <<a, b>>[j] = s[i])
    BY <1>2, <1>4, ConcatElements
  <2> QED BY <1>5, <2>1
<1> HIDE DEF s
<1>8. Silent(s)
  BY <1>1, <1>4, <1>7 DEF Silent
<1>9. Quiet(pre) => Quiet(s)
  BY <1>1, <1>7 DEF Quiet
<1>10. \A i \in DOMAIN s : s[i].event = "finish" => s[i].reason = reason
  BY <1>1, <1>4, <1>7
<1>11. TextOf(s) = <<>> /\ CallsOf(s) = {}
  BY <1>6, <1>8, SilentEvents
<1>12. Tailed(s, pre, reason)
  BY <1>6, <1>9, <1>10, <1>11 DEF Tailed
<1> QED BY <1>12 DEF a, b, s

\* One event, or none, that is no finish and shows only this text and these calls.
Shows(s, txt, named) ==
    /\ s \in Seq(StreamEvent)
    /\ TextOf(s) = txt /\ CallsOf(s) = named
    /\ \A i \in DOMAIN s : s[i].event # "finish"

\* No event shows no text and names no call.
LEMMA NothingShows == Shows(<<>>, <<>>, {})
BY NoEvents DEF Shows

\* One event shows what it carries.
LEMMA OneShows ==
  ASSUME NEW e \in StreamEvent, e.event # "finish"
  PROVE  Shows(<<e>>, IF e.event = "text" THEN e.parts ELSE <<>>, IF e.event = "tool" THEN {e.index} ELSE {})
<1>1. <<e>> \in Seq(StreamEvent) /\ \A i \in DOMAIN <<e>> : <<e>>[i] = e
  OBVIOUS
<1> QED BY <1>1, OneEvent DEF Shows

\* A tool delta names its call.
LEMMA ToolDeltaIs ==
  ASSUME NEW i \in 1 .. MaxItems, NEW parts \in Seq(Fragment)
  PROVE  Shows(<<ProviderStream!ToolDelta(i, parts)>>, <<>>, {i})
<1> DEFINE e == ProviderStream!ToolDelta(i, parts)
<1>1. e \in StreamEvent /\ e.event = "tool" /\ e.index = i
  BY DEF StreamEvent, ProviderStream!ToolDelta
<1> HIDE DEF e
<1>2. Shows(<<e>>, IF e.event = "text" THEN e.parts ELSE <<>>, IF e.event = "tool" THEN {e.index} ELSE {})
  BY <1>1, OneShows
<1>3. (IF e.event = "text" THEN e.parts ELSE <<>>) = <<>> /\ (IF e.event = "tool" THEN {e.index} ELSE {}) = {i}
  BY <1>1
<1>4. Shows(<<e>>, <<>>, {i})
  BY <1>2, <1>3
<1> QED BY <1>4 DEF e

\* A text event shows its parts.
LEMMA TextIs ==
  ASSUME NEW parts \in Seq(Fragment)
  PROVE  Shows(<<ProviderStream!Text(parts)>>, parts, {})
<1> DEFINE e == ProviderStream!Text(parts)
<1>1. e \in StreamEvent /\ e.event = "text" /\ e.parts = parts
  BY DEF StreamEvent, ProviderStream!Text
<1> HIDE DEF e
<1>2. Shows(<<e>>, IF e.event = "text" THEN e.parts ELSE <<>>, IF e.event = "tool" THEN {e.index} ELSE {})
  BY <1>1, OneShows
<1>3. (IF e.event = "text" THEN e.parts ELSE <<>>) = parts /\ (IF e.event = "tool" THEN {e.index} ELSE {}) = {}
  BY <1>1
<1>4. Shows(<<e>>, parts, {})
  BY <1>2, <1>3
<1> QED BY <1>4 DEF e

\* The new parts of an item that grows.
GrownText(i, kind, from, to) == IF kind = "message" THEN ProviderStream!Fragments(i, from, to) ELSE <<>>
GrownCalls(i, kind, from, to) == IF kind = "call" /\ from # to THEN {i} ELSE {}

\* Parts shows the text and the call of an item that grows.
LEMMA PartsIs ==
  ASSUME NEW d, NEW i \in 1 .. MaxItems, NEW from \in Nat, NEW to \in Nat, from <= to,
         NEW kind \in ProviderStream!Kinds, d.items[i].kind = kind
  PROVE  Shows(ProviderStream!Parts(d, i, from, to), GrownText(i, kind, from, to), GrownCalls(i, kind, from, to))
<1>0. i \in Nat
  OBVIOUS
<1>1. ProviderStream!Fragments(i, from, to) \in Seq(Fragment)
  BY <1>0, FragmentsType
<1>2. CASE from = to
  <2>1. ProviderStream!Parts(d, i, from, to) = <<>>
    BY <1>2 DEF ProviderStream!Parts
  <2>2. ProviderStream!Fragments(i, from, to) = <<>>
    BY <1>0, <1>2, FragmentsNone
  <2> QED BY <1>2, <2>1, <2>2, NothingShows DEF GrownText, GrownCalls
<1>3. CASE from # to /\ kind = "message"
  <2>1. ProviderStream!Parts(d, i, from, to) = <<ProviderStream!Text(ProviderStream!Fragments(i, from, to))>>
    BY <1>3 DEF ProviderStream!Parts
  <2>2. GrownText(i, kind, from, to) = ProviderStream!Fragments(i, from, to) /\ GrownCalls(i, kind, from, to) = {}
    BY <1>3 DEF GrownText, GrownCalls
  <2> QED BY <1>1, <2>1, <2>2, TextIs
<1>4. CASE from # to /\ kind = "call"
  <2>1. ProviderStream!Parts(d, i, from, to) = <<ProviderStream!ToolDelta(i, ProviderStream!Fragments(i, from, to))>>
    BY <1>4 DEF ProviderStream!Parts
  <2>2. GrownText(i, kind, from, to) = <<>> /\ GrownCalls(i, kind, from, to) = {i}
    BY <1>4 DEF GrownText, GrownCalls
  <2> QED BY <1>1, <2>1, <2>2, ToolDeltaIs
<1>5. CASE from # to /\ kind = "reasoning"
  <2>1. ProviderStream!Parts(d, i, from, to) = <<>>
    BY <1>5 DEF ProviderStream!Parts
  <2>2. GrownText(i, kind, from, to) = <<>> /\ GrownCalls(i, kind, from, to) = {}
    BY <1>5 DEF GrownText, GrownCalls
  <2> QED BY <2>1, <2>2, NothingShows
<1> QED BY <1>2, <1>3, <1>4, <1>5 DEF ProviderStream!Kinds

-----------------------------------------------------------------------------
(* The reply stream: decoders that grow                                    *)

\* What is private or more than text has set the output mark.
Marked(d) == d.output \/ (~d.private /\ \A i \in DOMAIN d.items : d.items[i].kind = "message")
Sound(d) == d \in Decoder /\ Marked(d) /\ Len(d.items) <= MaxItems
\* The provider's last word: every item complete, their text in order what was streamed.
Final(d) == d.ended /\ ProviderStream!AllDone(d) /\ ProviderStream!ItemText(d) = d.text
InOrder(d) ==
    /\ ProviderStream!ItemText(d) = d.text
    /\ \A i \in DOMAIN d.items : i < Len(d.items) => d.items[i].done

\* What a good frame makes of decoder d: decoder e, with the events ev.
Decoded(d, e, ev) ==
    /\ Sound(e) /\ ev \in Seq(StreamEvent)
    /\ d.output => e.output
    /\ e.output \/ Quiet(ev)
Streamed(d, e, ev) ==
    /\ e.text = d.text \o TextOf(ev)
    /\ ProviderStream!CallsIn(e) = ProviderStream!CallsIn(d) \cup CallsOf(ev)
    /\ \A i \in DOMAIN ev : ev[i].event = "finish" /\ ev[i].reason # "length" => Final(e)

\* The fields of a decoder have their types.
LEMMA DecoderFields ==
  ASSUME NEW d \in Decoder
  PROVE  /\ d.items \in Seq(StreamItem) /\ d.text \in Seq(Fragment) /\ d.finish \in Reasons
         /\ d.output \in BOOLEAN /\ d.ended \in BOOLEAN /\ d.private \in BOOLEAN
BY DEF Decoder

\* ItemText is the text of the decoder's items.
LEMMA ItemTextIs ==
  ASSUME NEW d
  PROVE  ProviderStream!ItemText(d) = ItemsText(d.items)
BY DEF ProviderStream!ItemText, ItemsText, Pieces, Piece

\* An item of a decoder has its type, and its number is in range.
LEMMA ItemIs ==
  ASSUME NEW d \in Decoder, Len(d.items) <= MaxItems, NEW i \in DOMAIN d.items
  PROVE  /\ i \in 1 .. MaxItems /\ d.items[i] \in StreamItem
         /\ d.items[i].kind \in ProviderStream!Kinds /\ d.items[i].size \in Nat
<1> DEFINE items == d.items
<1>1. items \in Seq(StreamItem)
  BY DecoderFields
<1>2. Len(items) \in Nat /\ Len(items) <= MaxItems /\ i \in DOMAIN items
  BY <1>1
<1> HIDE DEF items
<1>3. items[i] \in StreamItem /\ i \in 1..Len(items)
  BY <1>1, <1>2
<1>4. i \in 1 .. MaxItems
  BY <1>2, <1>3, StreamAssumption
<1> QED BY <1>3, <1>4 DEF items, StreamItem

\* The items, text and marks of a decoder stay.
SameReply(d, e) ==
    /\ e \in Decoder /\ e.items = d.items /\ e.text = d.text /\ e.private = d.private
    /\ e.output = d.output

\* Such a step without text is fine when it has something final to finish with.
LEMMA SameStep ==
  ASSUME NEW d, Sound(d), NEW e, SameReply(d, e), NEW ev \in Seq(StreamEvent),
         TextOf(ev) = <<>>, CallsOf(ev) = {}, e.output \/ Quiet(ev),
         \A i \in DOMAIN ev : ev[i].event = "finish" /\ ev[i].reason # "length" => Final(e)
  PROVE  Decoded(d, e, ev) /\ Streamed(d, e, ev) /\ (InOrder(d) => InOrder(e))
<1>1. Sound(e)
  BY DEF Sound, Marked, SameReply
<1>2. d.text \o <<>> = d.text
  <2>1. d.text \in Seq(Fragment)
    BY DecoderFields DEF Sound
  <2> QED BY <2>1, ConcatEmptySeq
<1>3. ProviderStream!CallsIn(e) = ProviderStream!CallsIn(d)
  BY DEF ProviderStream!CallsIn, SameReply
<1>4. Decoded(d, e, ev)
  BY <1>1 DEF Decoded, SameReply
<1>5. Streamed(d, e, ev)
  BY <1>2, <1>3 DEF Streamed, SameReply
<1>6. InOrder(d) => InOrder(e)
  BY ItemTextIs DEF InOrder, SameReply
<1> QED BY <1>4, <1>5, <1>6

\* A new item with n fragments.
Grew(d, e, kind, n) ==
    /\ e \in Decoder
    /\ e.items = Append(d.items, [kind |-> kind, size |-> n, done |-> FALSE])
    /\ e.output = (d.output \/ kind # "message" \/ n > 0)
    /\ e.text = d.text \o GrownText(Len(d.items) + 1, kind, 0, n)
    /\ e.private = d.private

\* A step that adds an item is fine.
LEMMA GrewStep ==
  ASSUME NEW d, Sound(d), Len(d.items) # MaxItems,
         NEW kind \in ProviderStream!Kinds, NEW n \in Nat, NEW e, Grew(d, e, kind, n), NEW ev,
         Shows(ev, GrownText(Len(d.items) + 1, kind, 0, n), IF kind = "call" THEN {Len(d.items) + 1} ELSE {}),
         kind = "message" /\ n = 0 => Quiet(ev)
  PROVE  Decoded(d, e, ev) /\ Streamed(d, e, ev) /\ (InOrder(d) /\ ProviderStream!AllDone(d) => InOrder(e))
<1> DEFINE items == d.items
           L == Len(items)
           x == [kind |-> kind, size |-> n, done |-> FALSE]
<1>1. d \in Decoder /\ items \in Seq(StreamItem) /\ L \in Nat /\ L <= MaxItems
  BY DecoderFields DEF Sound
<1>2. x \in StreamItem
  BY DEF StreamItem
<1>3. x.kind = kind /\ x.size = n
  OBVIOUS
<1>4. e.items = Append(items, x)
  BY DEF Grew
<1> HIDE DEF items, x
<1> DEFINE added == Append(items, x)
<1>5. /\ added \in Seq(StreamItem) /\ Len(added) = L + 1 /\ DOMAIN added = 1..(L + 1) /\ DOMAIN items = 1..L
      /\ \A i \in 1..L : added[i] = items[i]
      /\ added[L + 1] = x
  BY <1>1, <1>2, AppendProperties
<1> HIDE DEF added
<1>6. e.items = added /\ d.items = items
  BY <1>4 DEF added, items
<1>7. Sound(e)
  <2>1. Len(e.items) <= MaxItems
    <3>1. L # MaxItems
      BY DEF items
    <3> QED BY <1>1, <1>5, <1>6, <3>1, StreamAssumption
  <2>2. Marked(e)
    <3> SUFFICES ASSUME ~e.output PROVE ~e.private /\ \A i \in DOMAIN e.items : e.items[i].kind = "message"
      BY DEF Marked
    <3>1. ~d.output /\ kind = "message" /\ e.private = d.private
      BY DEF Grew
    <3>2. ~d.private /\ \A i \in DOMAIN items : items[i].kind = "message"
      BY <3>1, <1>6 DEF Sound, Marked
    <3>3. ASSUME NEW i \in 1..(L + 1) PROVE added[i].kind = "message"
      <4>1. i = L + 1 \/ i \in 1..L
        BY <1>1
      <4> QED BY <1>3, <1>5, <3>1, <3>2, <4>1
    <3> QED BY <1>5, <1>6, <3>1, <3>2, <3>3
  <2> QED BY <2>1, <2>2 DEF Sound, Grew
<1>8. ProviderStream!CallsIn(e) = ProviderStream!CallsIn(d) \cup (IF kind = "call" THEN {L + 1} ELSE {})
  <2>1. ProviderStream!CallsIn(e) = {i \in 1..(L + 1) : added[i].kind = "call"}
    BY <1>5, <1>6 DEF ProviderStream!CallsIn
  <2>2. ProviderStream!CallsIn(d) = {i \in 1..L : items[i].kind = "call"}
    BY <1>5, <1>6 DEF ProviderStream!CallsIn
  <2>3. 1..(L + 1) = 1..L \cup {L + 1}
    BY <1>1
  <2> QED BY <1>3, <1>5, <2>1, <2>2, <2>3
<1>9. Decoded(d, e, ev)
  <2>1. e.output \/ Quiet(ev)
    <3>1. CASE kind = "message" /\ n = 0
      BY <3>1
    <3>2. CASE ~(kind = "message" /\ n = 0)
      <4>1. kind # "message" \/ n > 0
        BY <3>2
      <4> QED BY <4>1 DEF Grew
    <3> QED BY <3>1, <3>2
  <2>2. d.output => e.output
    BY DEF Grew
  <2> QED BY <1>7, <2>1, <2>2 DEF Decoded, Shows
<1>10. Streamed(d, e, ev)
  <2>1. e.text = d.text \o TextOf(ev)
    BY DEF Grew, Shows
  <2>2. CallsOf(ev) = (IF kind = "call" THEN {L + 1} ELSE {})
    BY <1>6 DEF Shows
  <2> QED BY <1>8, <2>1, <2>2 DEF Streamed, Shows
<1>11. ASSUME InOrder(d), ProviderStream!AllDone(d) PROVE InOrder(e)
  <2>1. ItemsText(items) = d.text
    BY <1>6, <1>11, ItemTextIs DEF InOrder
  <2>2. ItemsText(added) = ItemsText(items) \o Piece(L + 1, x)
    BY <1>1, <1>2, ItemsTextAppend DEF added
  <2>3. Piece(L + 1, x) = GrownText(L + 1, kind, 0, n)
    BY <1>3 DEF Piece, GrownText
  <2>4. ProviderStream!ItemText(e) = e.text
    BY <1>6, <2>1, <2>2, <2>3, ItemTextIs DEF Grew
  <2>5. ASSUME NEW i \in DOMAIN e.items, i < Len(e.items) PROVE e.items[i].done
    <3>1. i \in 1..L
      BY <1>1, <1>5, <1>6, <2>5
    <3>2. items[i].done
      BY <1>5, <1>6, <1>11, <3>1 DEF ProviderStream!AllDone
    <3> QED BY <1>5, <1>6, <3>1, <3>2
  <2> QED BY <2>4, <2>5 DEF InOrder
<1> QED BY <1>9, <1>10, <1>11

\* Item i has n fragments now.
Regrew(d, e, i, n) ==
    /\ e \in Decoder
    /\ \E x \in StreamItem : x.kind = d.items[i].kind /\ x.size = n /\ e.items = [d.items EXCEPT ![i] = x]
    /\ d.output => e.output
    /\ n # d.items[i].size => e.output
    /\ e.text = d.text \o GrownText(i, d.items[i].kind, d.items[i].size, n)
    /\ e.private = d.private

\* A step after which an item has grown is fine.
LEMMA RegrewStep ==
  ASSUME NEW d, Sound(d), NEW i \in DOMAIN d.items, NEW n \in Nat, d.items[i].size <= n, NEW e,
         Regrew(d, e, i, n)
  PROVE  /\ Decoded(d, e, ProviderStream!Parts(d, i, d.items[i].size, n))
         /\ Streamed(d, e, ProviderStream!Parts(d, i, d.items[i].size, n))
         /\ InOrder(d) /\ ~d.items[i].done => InOrder(e)
<1> DEFINE items == d.items
           kind == items[i].kind
           size == items[i].size
           ev == ProviderStream!Parts(d, i, size, n)
<1>1. d \in Decoder /\ items \in Seq(StreamItem) /\ Len(items) <= MaxItems /\ i \in DOMAIN items
  BY DecoderFields DEF Sound
<1>2. i \in 1 .. MaxItems /\ items[i] \in StreamItem /\ kind \in ProviderStream!Kinds /\ size \in Nat
  BY <1>1, ItemIs
<1>3. PICK x \in StreamItem : x.kind = kind /\ x.size = n /\ e.items = [items EXCEPT ![i] = x]
  BY DEF Regrew
<1>4. Shows(ev, GrownText(i, kind, size, n), GrownCalls(i, kind, size, n))
  BY <1>2, PartsIs
<1>5. size = n => Quiet(ev)
  <2>1. size = n => ev = <<>>
    BY DEF ProviderStream!Parts
  <2> QED BY <2>1, NoEvents
<1>6. d.items = items /\ d.items[i].size = size /\ d.items[i].kind = kind /\ size <= n
  OBVIOUS
<1> HIDE DEF items
<1> DEFINE new == [items EXCEPT ![i] = x]
<1>7. /\ new \in Seq(StreamItem) /\ Len(new) = Len(items) /\ DOMAIN new = DOMAIN items
      /\ new[i] = x /\ \A j \in DOMAIN items : j # i => new[j] = items[j]
  BY <1>1
<1>8. e.items = new
  BY <1>3
<1> HIDE DEF new, ev
<1>9. \A j \in DOMAIN items : new[j].kind = items[j].kind
  BY <1>1, <1>3, <1>7
<1>10. Sound(e)
  <2>1. Marked(e)
    <3> SUFFICES ASSUME ~e.output PROVE ~e.private /\ \A j \in DOMAIN e.items : e.items[j].kind = "message"
      BY DEF Marked
    <3>1. ~d.output /\ e.private = d.private
      BY DEF Regrew
    <3>2. ~d.private /\ \A j \in DOMAIN items : items[j].kind = "message"
      BY <3>1, <1>6 DEF Sound, Marked
    <3> QED BY <1>7, <1>8, <1>9, <3>1, <3>2
  <2> QED BY <1>1, <1>7, <1>8, <2>1 DEF Sound, Regrew
<1>11. Decoded(d, e, ev)
  <2>1. e.output \/ Quiet(ev)
    BY <1>5, <1>6 DEF Regrew
  <2>2. d.output => e.output
    BY DEF Regrew
  <2> QED BY <1>4, <1>10, <2>1, <2>2 DEF Decoded, Shows
<1>12. Streamed(d, e, ev)
  <2>1. e.text = d.text \o GrownText(i, kind, size, n)
    BY <1>6 DEF Regrew
  <2>2. TextOf(ev) = GrownText(i, kind, size, n) /\ CallsOf(ev) = GrownCalls(i, kind, size, n)
    BY <1>4 DEF Shows
  <2>3. ProviderStream!CallsIn(e) = {j \in DOMAIN items : new[j].kind = "call"}
    BY <1>7, <1>8 DEF ProviderStream!CallsIn
  <2>4. ProviderStream!CallsIn(d) = {j \in DOMAIN items : items[j].kind = "call"}
    BY <1>6 DEF ProviderStream!CallsIn
  <2>5. GrownCalls(i, kind, size, n) \subseteq {j \in DOMAIN items : items[j].kind = "call"}
    BY <1>1 DEF GrownCalls
  <2>6. ProviderStream!CallsIn(e) = ProviderStream!CallsIn(d) \cup CallsOf(ev)
    BY <1>9, <2>2, <2>3, <2>4, <2>5
  <2> QED BY <1>4, <2>1, <2>2, <2>6 DEF Streamed, Shows
<1>13. ASSUME InOrder(d), ~d.items[i].done PROVE InOrder(e)
  <2>1. i = Len(items)
    <3>1. ~(i < Len(items))
      BY <1>1, <1>6, <1>13 DEF InOrder
    <3> QED BY <1>1, <3>1
  <2>2. items # <<>>
    BY <1>1
  <2>3. PICK front \in Seq(StreamItem) :
           /\ items = Append(front, items[i]) /\ Len(front) + 1 = i
           /\ [items EXCEPT ![i] = x] = Append(front, x)
    <3>1. \E front \in Seq(StreamItem) :
              /\ items = Append(front, items[Len(items)]) /\ Len(front) + 1 = Len(items)
              /\ [items EXCEPT ![Len(items)] = x] = Append(front, x)
      BY <1>1, <2>2, LastItem
    <3> QED BY <2>1, <3>1
  <2>4. i \in Nat /\ 0 \in Nat /\ size \in Nat /\ n \in Nat /\ size <= n
    BY <1>2, <1>6
  <2>5. /\ ItemsText(front) \in Seq(Fragment)
        /\ ItemsText(items) = ItemsText(front) \o Piece(i, items[i])
        /\ ItemsText(new) = ItemsText(front) \o Piece(i, x)
    BY <1>2, <1>3, <2>3, ItemsTextAppend DEF new
  <2>6. Piece(i, x) = Piece(i, items[i]) \o GrownText(i, kind, size, n)
    <3>1. CASE kind = "message"
      <4>1. /\ Piece(i, x) = ProviderStream!Fragments(i, 0, n)
            /\ Piece(i, items[i]) = ProviderStream!Fragments(i, 0, size)
            /\ GrownText(i, kind, size, n) = ProviderStream!Fragments(i, size, n)
        BY <1>3, <3>1 DEF Piece, GrownText
      <4>2. ProviderStream!Fragments(i, 0, size) \o ProviderStream!Fragments(i, size, n) = ProviderStream!Fragments(i, 0, n)
        BY <2>4, FragmentsJoin
      <4> QED BY <4>1, <4>2
    <3>2. CASE kind # "message"
      BY <1>3, <3>2 DEF Piece, GrownText
    <3> QED BY <3>1, <3>2
  <2>7. Piece(i, items[i]) \in Seq(Fragment) /\ GrownText(i, kind, size, n) \in Seq(Fragment)
    <3>1. ProviderStream!Fragments(i, size, n) \in Seq(Fragment)
      BY <2>4, FragmentsType
    <3>2. Piece(i, items[i]) \in Seq(Fragment)
      BY Zenon, <1>2, <2>4, PieceType
    <3>3. <<>> \in Seq(Fragment)
      OBVIOUS
    <3> QED BY Zenon, <3>1, <3>2, <3>3 DEF GrownText
  <2>9. ItemsText(new) = ItemsText(items) \o GrownText(i, kind, size, n)
    <3> DEFINE a == ItemsText(front)
               b == Piece(i, items[i])
               c == GrownText(i, kind, size, n)
    <3>1. a \in Seq(Fragment) /\ b \in Seq(Fragment) /\ c \in Seq(Fragment)
      BY <2>5, <2>7
    <3>2. ItemsText(items) = a \o b /\ ItemsText(new) = a \o (b \o c)
      BY <2>5, <2>6
    <3> SUFFICES ItemsText(new) = ItemsText(items) \o c
      OBVIOUS
    <3> HIDE DEF a, b, c
    <3>3. (a \o b) \o c = a \o (b \o c)
      BY Zenon, <3>1, FragmentsAssociate
    <3> QED BY Zenon, <3>2, <3>3
  <2>10. e.text = d.text \o GrownText(i, kind, size, n)
    BY <1>6 DEF Regrew
  <2>11. ItemsText(items) = d.text
    BY <1>6, <1>13, ItemTextIs DEF InOrder
  <2>12. ProviderStream!ItemText(e) = e.text
    BY <1>8, <2>9, <2>10, <2>11, ItemTextIs
  <2>13. ASSUME NEW j \in DOMAIN e.items, j < Len(e.items) PROVE e.items[j].done
    <3>1. j \in DOMAIN items /\ j # i /\ j < Len(items)
      BY <1>7, <1>8, <2>1, <2>13
    <3>2. items[j].done
      BY <1>6, <1>13, <3>1 DEF InOrder
    <3> QED BY <1>7, <1>8, <3>1, <3>2
  <2> QED BY <2>12, <2>13 DEF InOrder
<1>14. Decoded(d, e, ev) /\ Streamed(d, e, ev) /\ (InOrder(d) /\ ~d.items[i].done => InOrder(e))
  BY <1>11, <1>12, <1>13
<1> QED BY <1>14 DEF ev, items

-----------------------------------------------------------------------------
(* The reply stream: what the decoders do                                  *)

\* What frames of the Responses protocol hold.
LEMMA ResponsesFrame ==
  ASSUME NEW f \in ProviderStream!ResponsesFrames
  PROVE  /\ f.t \in {"created", "incomplete", "error", "added", "delta", "item_done", "completed"}
         /\ f.t = "added" => f.kind \in ProviderStream!Kinds /\ f.n \in Nat
         /\ f.t = "item_done" => f.n \in Nat
BY StreamAssumption DEF ProviderStream!ResponsesFrames

\* What frames of the Messages protocol hold.
LEMMA MessagesFrame ==
  ASSUME NEW f \in ProviderStream!MessagesFrames
  PROVE  /\ f.t \in {"message_start", "message_stop", "error", "block_start", "delta", "block_stop", "message_delta"}
         /\ f.t = "block_start" => f.kind \in ProviderStream!Kinds /\ f.n \in Nat
         /\ f.t = "message_delta" => f.reason \in {"stop", "tools", "length"}
BY DEF ProviderStream!MessagesFrames

\* What frames of Chat Completions hold.
LEMMA ChatFrame ==
  ASSUME NEW f \in ProviderStream!ChatFrames
  PROVE  /\ f.t \in {"content", "reasoning", "usage", "done", "error", "tool", "finish"}
         /\ f.t = "tool" => f.i \in 1 .. MaxItems
         /\ f.t = "finish" => f.reason \in {"stop", "tools", "length"}
BY DEF ProviderStream!ChatFrames

\* What a step tells besides its events.
Told(d, r) == d.output => r.d.output
\* A good step.
Fine(d, r) == r.ok => Decoded(d, r.d, r.events) /\ Streamed(d, r.d, r.events)

\* Refusing a frame with no mark dropped is fine.
LEMMA BadIs ==
  ASSUME NEW d, NEW e, d.output => e.output
  PROVE  Told(d, ProviderStream!Bad(e)) /\ Fine(d, ProviderStream!Bad(e)) /\ ~ProviderStream!Bad(e).ok
BY DEF Told, Fine, ProviderStream!Bad

\* A good step to a fine decoder is fine.
LEMMA GoodIs ==
  ASSUME NEW d, NEW e, NEW ev, Decoded(d, e, ev), Streamed(d, e, ev)
  PROVE  /\ Told(d, ProviderStream!Good(e, ev)) /\ Fine(d, ProviderStream!Good(e, ev))
         /\ ProviderStream!Good(e, ev).d = e
BY DEF Told, Fine, ProviderStream!Good, Decoded

\* Setting the decoder's other fields keeps its reply.
LEMMA SameReplies ==
  ASSUME NEW d \in Decoder
  PROVE  /\ SameReply(d, [d EXCEPT !.started = TRUE])
         /\ SameReply(d, [d EXCEPT !.ended = TRUE]) /\ [d EXCEPT !.ended = TRUE].ended
         /\ \A reason \in {"stop", "tools", "length"} : SameReply(d, [d EXCEPT !.finish = reason])
<1>1. SameReply(d, [d EXCEPT !.started = TRUE])
  BY DEF SameReply, Decoder
<1>2. SameReply(d, [d EXCEPT !.ended = TRUE]) /\ [d EXCEPT !.ended = TRUE].ended
  BY DEF SameReply, Decoder
<1>3. ASSUME NEW reason \in {"stop", "tools", "length"} PROVE SameReply(d, [d EXCEPT !.finish = reason])
  BY DEF SameReply, Decoder, Reasons
<1> QED BY <1>1, <1>2, <1>3

\* A step that keeps the reply, with no events or with usage, is fine.
LEMMA QuietStep ==
  ASSUME NEW d, Sound(d), NEW e, SameReply(d, e), NEW ev, ev = <<>> \/ ev = <<ProviderStream!Plain("usage")>>
  PROVE  /\ Told(d, ProviderStream!Good(e, ev)) /\ Fine(d, ProviderStream!Good(e, ev))
         /\ InOrder(d) => InOrder(ProviderStream!Good(e, ev).d)
<1>1. ev \in Seq(StreamEvent) /\ Silent(ev) /\ Quiet(ev) /\ \A i \in DOMAIN ev : ev[i].event # "finish"
  <2>1. CASE ev = <<>>
    BY <2>1 DEF Silent, Quiet
  <2>2. CASE ev = <<ProviderStream!Plain("usage")>>
    <3> DEFINE x == ProviderStream!Plain("usage")
    <3>1. x \in StreamEvent /\ x.event = "usage"
      BY DEF ProviderStream!Plain, StreamEvent
    <3> HIDE DEF x
    <3>2. ev \in Seq(StreamEvent) /\ DOMAIN ev = {1} /\ ev[1] = x
      BY <2>2, <3>1 DEF x
    <3> QED BY <3>1, <3>2 DEF Silent, Quiet
  <2> QED BY <2>1, <2>2
<1>2. TextOf(ev) = <<>> /\ CallsOf(ev) = {}
  BY <1>1, SilentEvents
<1>3. Decoded(d, e, ev) /\ Streamed(d, e, ev) /\ (InOrder(d) => InOrder(e))
  BY <1>1, <1>2, SameStep
<1> QED BY <1>3, GoodIs

\* A step that ends the reply is fine.
LEMMA TailStep ==
  ASSUME NEW d, Sound(d), NEW pre \in Seq([event : {"usage", "data"}]), NEW reason \in {"stop", "tools", "length"},
         Quiet(pre) \/ d.output,
         reason # "length" => ProviderStream!AllDone(d) /\ ProviderStream!ItemText(d) = d.text
  PROVE  LET r == ProviderStream!Good([d EXCEPT !.ended = TRUE],
                    pre \o <<ProviderStream!Finish(reason), ProviderStream!Plain("end")>>)
         IN  Told(d, r) /\ Fine(d, r) /\ (InOrder(d) => InOrder(r.d))
<1> DEFINE e == [d EXCEPT !.ended = TRUE]
           ev == pre \o <<ProviderStream!Finish(reason), ProviderStream!Plain("end")>>
<1>1. SameReply(d, e) /\ e.ended
  BY SameReplies DEF Sound
<1>2. Tailed(ev, pre, reason)
  BY TailIs
<1> HIDE DEF e, ev
<1>3. reason # "length" => Final(e)
  <2>1. ProviderStream!ItemText(e) = ProviderStream!ItemText(d)
    BY <1>1, ItemTextIs DEF SameReply
  <2>2. ProviderStream!AllDone(d) => ProviderStream!AllDone(e)
    BY <1>1 DEF ProviderStream!AllDone, SameReply
  <2> QED BY <1>1, <2>1, <2>2 DEF Final, SameReply
<1>4. e.output \/ Quiet(ev)
  BY <1>1, <1>2 DEF Tailed, SameReply
<1>5. Decoded(d, e, ev) /\ Streamed(d, e, ev) /\ (InOrder(d) => InOrder(e))
  <2>1. \A i \in DOMAIN ev : ev[i].event = "finish" /\ ev[i].reason # "length" => Final(e)
    BY <1>2, <1>3 DEF Tailed
  <2>2. ev \in Seq(StreamEvent) /\ TextOf(ev) = <<>> /\ CallsOf(ev) = {}
    BY <1>2 DEF Tailed
  <2> QED BY <1>1, <1>4, <2>1, <2>2, SameStep
<1>6. LET r == ProviderStream!Good(e, ev) IN Told(d, r) /\ Fine(d, r) /\ (InOrder(d) => InOrder(r.d))
  BY <1>5, GoodIs
<1> QED BY <1>6 DEF e, ev

\* Added starts an item.
LEMMA AddedIs ==
  ASSUME NEW d \in Decoder, NEW f, f.kind \in ProviderStream!Kinds, f.n \in Nat
  PROVE  Grew(d, ProviderStream!Added(d, f), f.kind, f.n)
<1> DEFINE x == [kind |-> f.kind, size |-> f.n, done |-> FALSE]
           L == Len(d.items)
           e == ProviderStream!Added(d, f)
           text == IF f.kind = "message" THEN d.text \o ProviderStream!Fragments(L + 1, 0, f.n) ELSE d.text
           items == Append(d.items, x)
           output == d.output \/ f.kind # "message" \/ f.n > 0
<1>1. d.items \in Seq(StreamItem) /\ d.text \in Seq(Fragment) /\ L \in Nat
  BY DecoderFields
<1>2. x \in StreamItem
  BY DEF StreamItem
<1>3. e = [d EXCEPT !.items = items, !.output = output, !.text = text]
  BY DEF ProviderStream!Added
<1>4. text = d.text \o GrownText(L + 1, f.kind, 0, f.n) /\ text \in Seq(Fragment)
  <2>1. CASE f.kind = "message"
    <3> SUFFICES ASSUME NEW n \in Nat, n = f.n
                 PROVE  /\ text = d.text \o GrownText(L + 1, f.kind, 0, n)
                        /\ text \in Seq(Fragment)
      OBVIOUS
    <3>1. L + 1 \in Nat /\ 0 \in Nat /\ 0 <= n
      BY <1>1
    <3>2. ProviderStream!Fragments(L + 1, 0, n) \in Seq(Fragment)
      BY <3>1, FragmentsType
    <3> QED BY <1>1, <2>1, <3>2 DEF GrownText
  <2>2. CASE f.kind # "message"
    <3>1. d.text \o <<>> = d.text
      BY <1>1, ConcatEmptySeq
    <3> QED BY <1>1, <2>2, <3>1 DEF GrownText
  <2> QED BY <2>1, <2>2
<1>5. items \in Seq(StreamItem) /\ output \in BOOLEAN
  BY <1>1, <1>2
<1> HIDE DEF text, items, output, e
<1>6. e \in Decoder /\ e.items = items /\ e.output = output /\ e.text = text /\ e.private = d.private
  BY <1>3, <1>4, <1>5 DEF Decoder
<1>7. Grew(d, e, f.kind, f.n)
  BY <1>4, <1>6 DEF Grew, items, output
<1> QED BY <1>7 DEF e

\* Extended makes an item grow.
LEMMA ExtendedIs ==
  ASSUME NEW d \in Decoder, NEW i \in DOMAIN d.items, Len(d.items) <= MaxItems,
         NEW n \in Nat, d.items[i].size <= n
  PROVE  Regrew(d, ProviderStream!Extended(d, i, n), i, n)
<1> DEFINE x == [d.items[i] EXCEPT !.size = n]
           e == ProviderStream!Extended(d, i, n)
           kind == d.items[i].kind
           size == d.items[i].size
           text == IF kind = "message" THEN d.text \o ProviderStream!Fragments(i, size, n) ELSE d.text
           items == [d.items EXCEPT ![i] = x]
<1>1. d.items \in Seq(StreamItem) /\ d.text \in Seq(Fragment)
  BY DecoderFields
<1>2. i \in Nat /\ d.items[i] \in StreamItem /\ size \in Nat
  BY ItemIs
<1>3. x \in StreamItem /\ x.kind = kind /\ x.size = n
  BY <1>2 DEF StreamItem
<1>4. e = [d EXCEPT !.items = items, !.output = TRUE, !.text = text]
  BY DEF ProviderStream!Extended
<1>5. text = d.text \o GrownText(i, kind, size, n) /\ text \in Seq(Fragment)
  <2>1. CASE kind = "message"
    <3>1. size <= n
      OBVIOUS
    <3> HIDE DEF size
    <3>2. ProviderStream!Fragments(i, size, n) \in Seq(Fragment)
      BY <1>2, <3>1, FragmentsType
    <3> QED BY <1>1, <2>1, <3>2 DEF GrownText
  <2>2. CASE kind # "message"
    <3>1. d.text \o <<>> = d.text
      BY <1>1, ConcatEmptySeq
    <3> QED BY <1>1, <2>2, <3>1 DEF GrownText
  <2> QED BY <2>1, <2>2
<1>6. items \in Seq(StreamItem)
  BY <1>1, <1>3
<1> HIDE DEF text, items, e, x
<1>7. e \in Decoder /\ e.items = items /\ e.output = TRUE /\ e.text = text /\ e.private = d.private
  BY <1>4, <1>5, <1>6 DEF Decoder
<1>8. Regrew(d, e, i, n)
  BY <1>3, <1>5, <1>7 DEF Regrew, items
<1> QED BY <1>8 DEF e

\* Marking a grown item done leaves it grown.
LEMMA DoneIs ==
  ASSUME NEW d \in Decoder, NEW i \in DOMAIN d.items, Len(d.items) <= MaxItems, NEW n \in Nat,
         NEW c, Regrew(d, c, i, n)
  PROVE  Regrew(d, [c EXCEPT !.items[i].done = TRUE], i, n)
<1> DEFINE e == [c EXCEPT !.items[i].done = TRUE]
<1>1. d.items \in Seq(StreamItem) /\ c \in Decoder
  BY DecoderFields DEF Regrew
<1>2. PICK x \in StreamItem : x.kind = d.items[i].kind /\ x.size = n /\ c.items = [d.items EXCEPT ![i] = x]
  BY DEF Regrew
<1> DEFINE y == [x EXCEPT !.done = TRUE]
           items == [d.items EXCEPT ![i] = y]
<1>3. y \in StreamItem /\ y.kind = d.items[i].kind /\ y.size = n
  BY <1>2 DEF StreamItem
<1>4. c.items[i] = x
  BY <1>1, <1>2
<1>5. items \in Seq(StreamItem)
  BY <1>1, <1>3
<1>6. [c.items EXCEPT ![i] = y] = items
  BY <1>1, <1>2
<1>7. e = [c EXCEPT !.items = items]
  BY <1>4, <1>6
<1> HIDE DEF items, e, y
<1>8. e \in Decoder /\ e.items = items /\ e.output = c.output /\ e.text = c.text /\ e.private = c.private
  BY <1>1, <1>5, <1>7 DEF Decoder
<1>9. Regrew(d, e, i, n)
  BY <1>3, <1>8 DEF Regrew, items
<1> QED BY <1>9 DEF e

\* An unchanged item has grown by nothing.
LEMMA SameIsRegrown ==
  ASSUME NEW d \in Decoder, NEW i \in DOMAIN d.items, Len(d.items) <= MaxItems
  PROVE  Regrew(d, d, i, d.items[i].size)
<1>1. d.items \in Seq(StreamItem) /\ d.text \in Seq(Fragment)
  BY DecoderFields
<1>2. i \in Nat /\ d.items[i] \in StreamItem /\ d.items[i].size \in Nat
  BY ItemIs
<1>3. d.items = [d.items EXCEPT ![i] = d.items[i]]
  BY <1>1
<1>4. d.text = d.text \o GrownText(i, d.items[i].kind, d.items[i].size, d.items[i].size)
  <2>1. GrownText(i, d.items[i].kind, d.items[i].size, d.items[i].size) = <<>>
    BY <1>2, FragmentsNone DEF GrownText
  <2> QED BY <1>1, <2>1, ConcatEmptySeq
<1> QED BY <1>2, <1>3, <1>4 DEF Regrew

\* The events before a finish are usage and data, the latter for private items only.
LEMMA PreludeIs ==
  ASSUME NEW u, u = <<>> \/ u = <<ProviderStream!Plain("usage")>>, NEW p \in BOOLEAN, NEW pre,
         pre = u \o (IF p THEN <<ProviderStream!Plain("data")>> ELSE <<>>)
  PROVE  pre \in Seq([event : {"usage", "data"}]) /\ (~p => Quiet(pre))
<1> DEFINE F == [event : {"usage", "data"}]
           a == ProviderStream!Plain("usage")
           b == ProviderStream!Plain("data")
<1>1. a \in F /\ b \in F /\ a.event = "usage"
  BY DEF ProviderStream!Plain
<1>2. (u = <<>> \/ u = <<a>>) /\ pre = u \o (IF p THEN <<b>> ELSE <<>>)
  OBVIOUS
<1> HIDE DEF F, a, b
<1>3. <<>> \in Seq(F) /\ <<a>> \in Seq(F) /\ <<b>> \in Seq(F)
  BY <1>1
<1>4. pre \in Seq(F)
  <2> DEFINE v == IF p THEN <<b>> ELSE <<>>
  <2>1. u \in Seq(F) /\ v \in Seq(F)
    BY <1>2, <1>3
  <2>2. pre = u \o v
    BY <1>2
  <2> HIDE DEF v
  <2> QED BY <2>1, <2>2
<1>5. ASSUME ~p PROVE Quiet(pre)
  <2>1. pre = u
    BY <1>2, <1>3, <1>5, ConcatEmptySeq
  <2>2. Quiet(<<>>)
    BY NoEvents
  <2>3. DOMAIN <<a>> = {1} /\ <<a>>[1] = a
    OBVIOUS
  <2> QED BY <1>1, <1>2, <2>1, <2>2, <2>3 DEF Quiet
<1> QED BY <1>4, <1>5 DEF F

\* Private items have set the mark.
LEMMA PrivateMarked ==
  ASSUME NEW d, Marked(d), \E i \in DOMAIN d.items : d.items[i].kind # "message"
  PROVE  d.output
BY DEF Marked

\* A step that makes an item grow is fine.
LEMMA RegrewFine ==
  ASSUME NEW d, Sound(d), NEW i \in DOMAIN d.items, NEW n \in Nat, d.items[i].size <= n, NEW e,
         Regrew(d, e, i, n)
  PROVE  LET r == ProviderStream!Good(e, ProviderStream!Parts(d, i, d.items[i].size, n))
         IN  Told(d, r) /\ Fine(d, r) /\ (InOrder(d) /\ ~d.items[i].done => InOrder(r.d))
<1>1. /\ Decoded(d, e, ProviderStream!Parts(d, i, d.items[i].size, n))
      /\ Streamed(d, e, ProviderStream!Parts(d, i, d.items[i].size, n))
      /\ InOrder(d) /\ ~d.items[i].done => InOrder(e)
  BY RegrewStep
<1> QED BY <1>1, GoodIs

\* A delta is a fine step, and keeps items in order.
LEMMA DeltaIs ==
  ASSUME NEW d, Sound(d), NEW i, ProviderStream!Active(d, i)
  PROVE  LET r == ProviderStream!Good(ProviderStream!Extended(d, i, d.items[i].size + 1),
                    ProviderStream!Parts(d, i, d.items[i].size, d.items[i].size + 1))
         IN  Told(d, r) /\ Fine(d, r) /\ (InOrder(d) => InOrder(r.d))
<1>1. d \in Decoder /\ Len(d.items) <= MaxItems /\ i \in DOMAIN d.items /\ ~d.items[i].done
  BY DEF Sound, ProviderStream!Active
<1>2. d.items[i].size \in Nat
  BY <1>1, ItemIs
<1> DEFINE n == d.items[i].size + 1
<1>3. n \in Nat /\ d.items[i].size <= n
  BY <1>2
<1> HIDE DEF n
<1>4. Regrew(d, ProviderStream!Extended(d, i, n), i, n)
  BY <1>1, <1>3, ExtendedIs
<1> DEFINE r == ProviderStream!Good(ProviderStream!Extended(d, i, n), ProviderStream!Parts(d, i, d.items[i].size, n))
<1>5. Told(d, r) /\ Fine(d, r) /\ (InOrder(d) /\ ~d.items[i].done => InOrder(r.d))
  BY <1>1, <1>3, <1>4, RegrewFine
<1> HIDE DEF r
<1>6. Told(d, r) /\ Fine(d, r) /\ (InOrder(d) => InOrder(r.d))
  BY <1>1, <1>5
<1> QED BY <1>6 DEF r, n

\* The end of an item is a fine step.
LEMMA FinishItemIs ==
  ASSUME NEW d, Sound(d), NEW f, f.n \in Nat
  PROVE  Told(d, ProviderStream!FinishItem(d, f)) /\ Fine(d, ProviderStream!FinishItem(d, f))
<1> DEFINE i == f.i
           n == IF d.items[i].kind = "reasoning" THEN d.items[i].size ELSE f.n
           more == IF n = d.items[i].size THEN d ELSE ProviderStream!Extended(d, i, n)
           refused == ~ProviderStream!Active(d, i) \/ (d.items[i].kind = "call" /\ f.n # Whole)
           short == d.items[i].kind # "reasoning" /\ f.n < d.items[i].size
           b == [d EXCEPT !.output = @ \/ d.items[i].kind = "call" \/ f.n > 0]
           r == ProviderStream!Good([more EXCEPT !.items[i].done = TRUE], ProviderStream!Parts(d, i, d.items[i].size, n))
<1>0. d \in Decoder /\ Len(d.items) <= MaxItems
  BY DEF Sound
<1>1. ProviderStream!FinishItem(d, f) = IF refused THEN ProviderStream!Bad(d)
                                        ELSE IF short THEN ProviderStream!Bad(b) ELSE r
  BY DEF ProviderStream!FinishItem
<1>2. d.output => b.output
  BY <1>0 DEF Decoder
<1>3. CASE refused
  <2>1. ProviderStream!FinishItem(d, f) = ProviderStream!Bad(d)
    BY <1>1, <1>3
  <2> QED BY <2>1, BadIs
<1>4. CASE ~refused /\ short
  <2>1. ProviderStream!FinishItem(d, f) = ProviderStream!Bad(b)
    BY <1>1, <1>4
  <2> HIDE DEF b
  <2> QED BY <1>2, <2>1, BadIs
<1>5. CASE ~refused /\ ~short
  <2>1. ProviderStream!FinishItem(d, f) = r
    BY <1>1, <1>5
  <2>2. i \in DOMAIN d.items
    BY <1>5 DEF ProviderStream!Active
  <2>3. d.items[i].size \in Nat
    BY <1>0, <2>2, ItemIs
  <2>4. n \in Nat /\ d.items[i].size <= n
    BY <1>5, <2>3
  <2> HIDE DEF n
  <2>5. Regrew(d, more, i, n)
    <3>1. CASE n = d.items[i].size
      BY <1>0, <2>2, <3>1, SameIsRegrown
    <3>2. CASE n # d.items[i].size
      BY <1>0, <2>2, <2>4, <3>2, ExtendedIs
    <3> QED BY <3>1, <3>2
  <2> HIDE DEF more
  <2>6. Regrew(d, [more EXCEPT !.items[i].done = TRUE], i, n)
    BY <1>0, <2>2, <2>4, <2>5, DoneIs
  <2>7. Told(d, r) /\ Fine(d, r)
    BY <2>2, <2>4, <2>6, RegrewFine
  <2> QED BY <2>1, <2>7
<1> QED BY <1>3, <1>4, <1>5

\* The last snapshot is a fine step.
LEMMA CompletedIs ==
  ASSUME NEW d, Sound(d), NEW f
  PROVE  Told(d, ProviderStream!ResponsesCompleted(d, f)) /\ Fine(d, ProviderStream!ResponsesCompleted(d, f))
<1> DEFINE refused == ~f.same \/ ~ProviderStream!AllDone(d) \/ ProviderStream!ItemText(d) # d.text
           pre == <<ProviderStream!Plain("usage")>>
                  \o (IF ProviderStream!PrivateIn(d) THEN <<ProviderStream!Plain("data")>> ELSE <<>>)
           reason == IF ProviderStream!CallsIn(d) = {} THEN "stop" ELSE "tools"
           r == ProviderStream!Good([d EXCEPT !.ended = TRUE],
                    pre \o <<ProviderStream!Finish(reason), ProviderStream!Plain("end")>>)
<1>1. ProviderStream!ResponsesCompleted(d, f) = IF refused THEN ProviderStream!Bad(d) ELSE r
  BY DEF ProviderStream!ResponsesCompleted
<1>2. CASE refused
  <2>1. ProviderStream!ResponsesCompleted(d, f) = ProviderStream!Bad(d)
    BY <1>1, <1>2
  <2> QED BY <2>1, BadIs
<1>3. CASE ~refused
  <2>1. pre \in Seq([event : {"usage", "data"}]) /\ (~ProviderStream!PrivateIn(d) => Quiet(pre))
    <3>1. ProviderStream!PrivateIn(d) \in BOOLEAN
      BY DEF ProviderStream!PrivateIn
    <3> QED BY <3>1, PreludeIs
  <2>2. ProviderStream!PrivateIn(d) => d.output
    BY PrivateMarked DEF ProviderStream!PrivateIn, Sound
  <2>3. reason \in {"stop", "tools", "length"}
    OBVIOUS
  <2>4. ProviderStream!AllDone(d) /\ ProviderStream!ItemText(d) = d.text
    BY <1>3
  <2>5. Quiet(pre) \/ d.output
    BY <2>1, <2>2
  <2> HIDE DEF pre, reason
  <2>6. Told(d, r) /\ Fine(d, r)
    BY <2>1, <2>3, <2>4, <2>5, TailStep
  <2> QED BY <1>1, <1>3, <2>6
<1> QED BY <1>2, <1>3

\* Each step of the Responses decoder is fine.
LEMMA ResponsesIs ==
  ASSUME NEW d, Sound(d), NEW f \in ProviderStream!ResponsesFrames
  PROVE  Told(d, ProviderStream!ResponsesDecode(d, f)) /\ Fine(d, ProviderStream!ResponsesDecode(d, f))
<1> DEFINE r == ProviderStream!ResponsesDecode(d, f)
<1>0. d \in Decoder /\ Len(d.items) <= MaxItems /\ d.output \in BOOLEAN
  BY DecoderFields DEF Sound
<1>1. CASE f.t = "error" \/ (f.t \notin {"error", "created"} /\ ~d.started)
  <2>1. r = ProviderStream!Bad(d)
    BY <1>1 DEF ProviderStream!ResponsesDecode
  <2> HIDE DEF r
  <2>2. Told(d, r) /\ Fine(d, r)
    BY <2>1, BadIs
  <2> QED BY <2>2 DEF r
<1>2. CASE f.t = "created"
  <2> DEFINE e == [d EXCEPT !.started = TRUE]
  <2>1. r = IF d.started THEN ProviderStream!Bad(d) ELSE ProviderStream!Good(e, <<>>)
    BY <1>2 DEF ProviderStream!ResponsesDecode
  <2>2. SameReply(d, e)
    BY <1>0, SameReplies
  <2> HIDE DEF r, e
  <2>3. Told(d, ProviderStream!Good(e, <<>>)) /\ Fine(d, ProviderStream!Good(e, <<>>))
    BY <2>2, QuietStep
  <2>4. Told(d, r) /\ Fine(d, r)
    BY <2>1, <2>3, BadIs
  <2> QED BY <2>4 DEF r
<1>3. CASE f.t = "added" /\ d.started
  <2> DEFINE e == ProviderStream!Added(d, f)
             ev == IF f.kind = "call"
                   THEN <<ProviderStream!ToolDelta(Len(e.items), ProviderStream!Fragments(Len(e.items), 0, f.n))>>
                   ELSE ProviderStream!Parts(e, Len(e.items), 0, f.n)
             L == Len(d.items)
  <2>1. r = IF Len(d.items) = MaxItems THEN ProviderStream!Bad(d) ELSE ProviderStream!Good(e, ev)
    BY <1>3 DEF ProviderStream!ResponsesDecode
  <2>2. f.kind \in ProviderStream!Kinds /\ f.n \in Nat
    BY <1>3, ResponsesFrame
  <2>3. Grew(d, e, f.kind, f.n)
    BY <1>0, <2>2, AddedIs
  <2> HIDE DEF r, e
  <2>4. CASE L = MaxItems
    <3>1. Told(d, r) /\ Fine(d, r)
      BY <2>1, <2>4, BadIs
    <3> QED BY <3>1 DEF r
  <2>5. CASE L # MaxItems
    <3>1. Len(e.items) = L + 1 /\ L + 1 \in 1 .. MaxItems /\ e.items[L + 1].kind = f.kind
      <4> DEFINE items == d.items
                 x == [kind |-> f.kind, size |-> f.n, done |-> FALSE]
      <4>1. items \in Seq(StreamItem) /\ Len(items) <= MaxItems /\ Len(items) # MaxItems
        BY <1>0, <2>5, DecoderFields
      <4>2. x.kind = f.kind
        OBVIOUS
      <4>3. e.items = Append(items, x)
        BY <2>3 DEF Grew
      <4> HIDE DEF items, x
      <4>4. Len(e.items) = Len(items) + 1 /\ e.items[Len(items) + 1] = x /\ Len(items) \in Nat
        BY <4>1, <4>3
      <4>5. Len(items) + 1 \in 1 .. MaxItems
        BY <4>1, <4>4, StreamAssumption
      <4> QED BY <4>2, <4>4, <4>5 DEF items
    <3> DEFINE at == L + 1
    <3>2. Shows(ev, GrownText(at, f.kind, 0, f.n), IF f.kind = "call" THEN {at} ELSE {})
      <4> SUFFICES ASSUME NEW n \in Nat, n = f.n, NEW k \in ProviderStream!Kinds, k = f.kind
                   PROVE  Shows(ev, GrownText(at, k, 0, n), IF k = "call" THEN {at} ELSE {})
        BY <2>2
      <4>0. at \in 1 .. MaxItems /\ at \in Nat /\ Len(e.items) = at /\ e.items[at].kind = k
        BY <3>1
      <4>n. 0 \in Nat /\ 0 <= n
        OBVIOUS
      <4> HIDE DEF at
      <4>1. CASE k = "call"
        <5>1. ev = <<ProviderStream!ToolDelta(at, ProviderStream!Fragments(at, 0, n))>>
          BY <4>0, <4>1
        <5>2. ProviderStream!Fragments(at, 0, n) \in Seq(Fragment)
          BY <4>0, <4>n, FragmentsType
        <5>3. GrownText(at, k, 0, n) = <<>>
          BY <4>1 DEF GrownText
        <5> HIDE DEF ev
        <5> QED BY <4>0, <4>1, <5>1, <5>2, <5>3, ToolDeltaIs
      <4>2. CASE k # "call"
        <5>1. ev = ProviderStream!Parts(e, at, 0, n)
          BY <4>0, <4>2
        <5>2. Shows(ProviderStream!Parts(e, at, 0, n), GrownText(at, k, 0, n), GrownCalls(at, k, 0, n))
          BY <4>0, <4>n, PartsIs
        <5>3. GrownCalls(at, k, 0, n) = {}
          BY <4>2 DEF GrownCalls
        <5> HIDE DEF ev
        <5> QED BY <4>2, <5>1, <5>2, <5>3
      <4> QED BY <4>1, <4>2
    <3>3. f.kind = "message" /\ f.n = 0 => Quiet(ev)
      <4>1. f.kind = "message" /\ f.n = 0 => ev = <<>>
        BY DEF ProviderStream!Parts
      <4> QED BY <4>1, NoEvents
    <3> HIDE DEF ev
    <3>4. Decoded(d, e, ev) /\ Streamed(d, e, ev)
      BY <2>2, <2>3, <2>5, <3>2, <3>3, GrewStep
    <3>5. r = ProviderStream!Good(e, ev)
      BY <2>1, <2>5
    <3>6. Told(d, r) /\ Fine(d, r)
      BY <3>4, <3>5, GoodIs
    <3> QED BY <3>6 DEF r
  <2> QED BY <2>4, <2>5
<1>4. CASE f.t = "delta" /\ d.started
  <2> DEFINE refused == ~ProviderStream!Active(d, f.i) \/ d.items[f.i].kind # f.kind
             b == [d EXCEPT !.output = @ \/ f.kind # "reasoning"]
             g == ProviderStream!Good(ProviderStream!Extended(d, f.i, d.items[f.i].size + 1),
                    ProviderStream!Parts(d, f.i, d.items[f.i].size, d.items[f.i].size + 1))
  <2>1. r = IF refused THEN ProviderStream!Bad(b) ELSE g
    BY <1>4 DEF ProviderStream!ResponsesDecode
  <2>2. d.output => b.output
    BY <1>0 DEF Decoder
  <2>3. ~refused => Told(d, g) /\ Fine(d, g)
    BY DeltaIs
  <2> HIDE DEF r, b, g
  <2>4. Told(d, r) /\ Fine(d, r)
    BY <2>1, <2>2, <2>3, BadIs
  <2> QED BY <2>4 DEF r
<1>5. CASE f.t = "item_done" /\ d.started
  <2>1. r = ProviderStream!FinishItem(d, f)
    BY <1>5 DEF ProviderStream!ResponsesDecode
  <2>2. f.n \in Nat
    BY <1>5, ResponsesFrame
  <2> QED BY <2>1, <2>2, FinishItemIs
<1>6. CASE f.t = "completed" /\ d.started
  <2>1. r = ProviderStream!ResponsesCompleted(d, f)
    BY <1>6 DEF ProviderStream!ResponsesDecode
  <2> QED BY <2>1, CompletedIs
<1>7. CASE f.t = "incomplete" /\ d.started
  <2> DEFINE pre == <<ProviderStream!Plain("usage")>>
             t == <<ProviderStream!Finish("length"), ProviderStream!Plain("end")>>
             e == [d EXCEPT !.ended = TRUE]
  <2>1. r = ProviderStream!Good(e, <<ProviderStream!Plain("usage"), ProviderStream!Finish("length"), ProviderStream!Plain("end")>>)
    BY <1>7 DEF ProviderStream!ResponsesDecode
  <2>2. <<ProviderStream!Plain("usage"), ProviderStream!Finish("length"), ProviderStream!Plain("end")>> = pre \o t
    OBVIOUS
  <2>3. pre \in Seq([event : {"usage", "data"}]) /\ Quiet(pre)
    <3>1. pre = pre \o <<>>
      OBVIOUS
    <3>2. FALSE \in BOOLEAN
      OBVIOUS
    <3>3. pre = pre \o (IF FALSE THEN <<ProviderStream!Plain("data")>> ELSE <<>>)
      BY <3>1
    <3> QED BY <3>2, <3>3, PreludeIs
  <2>4. "length" \in {"stop", "tools", "length"}
    OBVIOUS
  <2> HIDE DEF pre
  <2> DEFINE g == ProviderStream!Good(e, pre \o t)
  <2>5. Told(d, g) /\ Fine(d, g)
    BY <2>3, <2>4, TailStep
  <2> QED BY <2>1, <2>2, <2>5
<1>8. f.t \in {"created", "incomplete", "error", "added", "delta", "item_done", "completed"}
  BY ResponsesFrame
<1> QED BY <1>1, <1>2, <1>3, <1>4, <1>5, <1>6, <1>7, <1>8

\* The start of a block is a fine step, and keeps items in order.
LEMMA BlockStartIs ==
  ASSUME NEW d, Sound(d), Len(d.items) # MaxItems, ProviderStream!AllDone(d),
         NEW f \in ProviderStream!MessagesFrames, f.t = "block_start", NEW w \in BOOLEAN
  PROVE  LET e == ProviderStream!Added(d, IF f.kind = "call" THEN [f EXCEPT !.n = 0] ELSE f)
             r == ProviderStream!Good([e EXCEPT !.whole = w],
                    IF f.kind = "call" THEN <<ProviderStream!ToolDelta(Len(e.items), <<>>)>>
                    ELSE ProviderStream!Parts(e, Len(e.items), 0, f.n))
         IN  Told(d, r) /\ Fine(d, r) /\ (InOrder(d) => InOrder(r.d))
<1> DEFINE g == IF f.kind = "call" THEN [f EXCEPT !.n = 0] ELSE f
           e == ProviderStream!Added(d, g)
           h == [e EXCEPT !.whole = w]
           ev == IF f.kind = "call" THEN <<ProviderStream!ToolDelta(Len(e.items), <<>>)>>
                 ELSE ProviderStream!Parts(e, Len(e.items), 0, f.n)
           L == Len(d.items)
           kind == f.kind
           n == IF f.kind = "call" THEN 0 ELSE f.n
           at == L + 1
<1>0. d \in Decoder /\ Len(d.items) <= MaxItems
  BY DEF Sound
<1>1. kind \in ProviderStream!Kinds /\ n \in Nat /\ f.n \in Nat
  BY MessagesFrame
<1>2. g.kind = kind /\ g.n = n
  <2>1. f \in [t : {"block_start"}, kind : ProviderStream!Kinds, n : 0 .. 1]
    BY DEF ProviderStream!MessagesFrames
  <2>2. [f EXCEPT !.n = 0].kind = f.kind /\ [f EXCEPT !.n = 0].n = 0
    BY <2>1
  <2> QED BY <2>2
<1> HIDE DEF g
<1>3. Grew(d, e, kind, n)
  <2>1. Grew(d, e, g.kind, g.n)
    BY <1>0, <1>1, <1>2, AddedIs
  <2> HIDE DEF e
  <2> QED BY <1>2, <2>1
<1> HIDE DEF e, n
<1>4. Grew(d, h, kind, n) /\ h.items = e.items
  <2>1. h \in Decoder /\ h.items = e.items /\ h.output = e.output /\ h.text = e.text /\ h.private = e.private
    <3>1. e \in Decoder
      BY <1>3 DEF Grew
    <3> HIDE DEF e
    <3> QED BY <3>1 DEF Decoder
  <2> HIDE DEF h
  <2> QED BY <1>3, <2>1 DEF Grew
<1>5. Len(e.items) = at /\ at \in 1 .. MaxItems /\ e.items[at].kind = kind
  <2> DEFINE items == d.items
             x == [kind |-> kind, size |-> n, done |-> FALSE]
  <2>1. items \in Seq(StreamItem) /\ Len(items) <= MaxItems /\ Len(items) # MaxItems
    BY <1>0, DecoderFields
  <2>2. x.kind = kind
    OBVIOUS
  <2>3. e.items = Append(items, x)
    BY <1>3 DEF Grew
  <2> HIDE DEF items, x
  <2>4. Len(e.items) = Len(items) + 1 /\ e.items[Len(items) + 1] = x /\ Len(items) \in Nat
    BY <2>1, <2>3
  <2>5. Len(items) + 1 \in 1 .. MaxItems
    BY <2>1, <2>4, StreamAssumption
  <2> QED BY <2>2, <2>4, <2>5 DEF items
<1>6. Shows(ev, GrownText(at, kind, 0, n), IF kind = "call" THEN {at} ELSE {})
  <2>0. at \in 1 .. MaxItems /\ Len(e.items) = at /\ e.items[at].kind = kind /\ 0 \in Nat /\ 0 <= n
    BY <1>1, <1>5
  <2> HIDE DEF at
  <2>1. CASE kind = "call"
    <3>1. ev = <<ProviderStream!ToolDelta(at, <<>>)>>
      BY <2>0, <2>1
    <3>2. <<>> \in Seq(Fragment) /\ GrownText(at, kind, 0, n) = <<>>
      BY <2>1 DEF GrownText
    <3> HIDE DEF ev, kind
    <3> QED BY <2>0, <2>1, <3>1, <3>2, ToolDeltaIs
  <2>2. CASE kind # "call"
    <3>1. ev = ProviderStream!Parts(e, at, 0, n)
      BY <2>0, <2>2 DEF n
    <3> HIDE DEF ev, kind
    <3>2. Shows(ProviderStream!Parts(e, at, 0, n), GrownText(at, kind, 0, n), GrownCalls(at, kind, 0, n))
      BY <1>1, <2>0, PartsIs
    <3>3. GrownCalls(at, kind, 0, n) = {}
      BY <2>2 DEF GrownCalls
    <3> QED BY <2>2, <3>1, <3>2, <3>3
  <2> QED BY <2>1, <2>2
<1>7. kind = "message" /\ n = 0 => Quiet(ev)
  <2>1. kind = "message" /\ n = 0 => ev = <<>>
    BY DEF ProviderStream!Parts, n
  <2> QED BY <2>1, NoEvents
<1> HIDE DEF ev, h, kind
<1>8. Decoded(d, h, ev) /\ Streamed(d, h, ev) /\ (InOrder(d) /\ ProviderStream!AllDone(d) => InOrder(h))
  BY <1>1, <1>4, <1>6, <1>7, GrewStep
<1> DEFINE r == ProviderStream!Good(h, ev)
<1>9. Told(d, r) /\ Fine(d, r) /\ (InOrder(d) => InOrder(r.d))
  BY <1>8, GoodIs
<1> HIDE DEF r
<1> QED BY <1>9 DEF r, h, ev, e, g

\* The end of a block is a fine step, and keeps items in order.
LEMMA BlockStopIs ==
  ASSUME NEW d, Sound(d), NEW i, ProviderStream!Active(d, i), NEW final,
         final = IF d.items[i].kind = "call" /\ d.items[i].size = 0 THEN Whole ELSE d.items[i].size,
         d.items[i].kind # "call" \/ final = Whole
  PROVE  LET r == ProviderStream!Good([d EXCEPT !.items[i].size = final, !.items[i].done = TRUE],
                    ProviderStream!Parts(d, i, d.items[i].size, final))
         IN  Told(d, r) /\ Fine(d, r) /\ (InOrder(d) => InOrder(r.d))
<1> DEFINE e == [d EXCEPT !.items[i].size = final, !.items[i].done = TRUE]
           kind == d.items[i].kind
           size == d.items[i].size
           y == [[d.items[i] EXCEPT !.size = final] EXCEPT !.done = TRUE]
           items == [d.items EXCEPT ![i] = y]
<1>1. d \in Decoder /\ Len(d.items) <= MaxItems /\ i \in DOMAIN d.items /\ ~d.items[i].done
  BY DEF Sound, ProviderStream!Active
<1>2. d.items \in Seq(StreamItem) /\ d.text \in Seq(Fragment)
  BY <1>1, DecoderFields
<1>3. d.items[i] \in StreamItem /\ size \in Nat /\ i \in Nat
  BY <1>1, ItemIs
<1>4. final \in Nat /\ size <= final
  BY <1>3, StreamAssumption
<1>5. y \in StreamItem /\ y.kind = kind /\ y.size = final
  BY <1>3, <1>4 DEF StreamItem
<1>6. e = [d EXCEPT !.items = items]
  BY <1>1, <1>2
<1> HIDE DEF e, y
<1>7. items \in Seq(StreamItem)
  <2>1. y \in StreamItem
    BY <1>5
  <2>2. d.items \in Seq(StreamItem) /\ i \in DOMAIN d.items
    BY <1>1, <1>2
  <2> QED BY <2>1, <2>2
<1> HIDE DEF items
<1>8. e \in Decoder /\ e.items = items /\ e.output = d.output /\ e.text = d.text /\ e.private = d.private
  BY <1>1, <1>6, <1>7 DEF Decoder
<1>9. final # size => d.output
  <2> SUFFICES ASSUME final # size PROVE d.output
    OBVIOUS
  <2>1. kind = "call"
    OBVIOUS
  <2> QED BY <1>1, <2>1 DEF Sound, Marked
<1>10. e.text = d.text \o GrownText(i, kind, size, final)
  <2>1. GrownText(i, kind, size, final) = <<>>
    <3>1. CASE kind = "message"
      <4>1. final = size
        BY <3>1
      <4> HIDE DEF size
      <4> QED BY <1>3, <4>1, FragmentsNone DEF GrownText
    <3>2. CASE kind # "message"
      BY <3>2 DEF GrownText
    <3> QED BY <3>1, <3>2
  <2> QED BY <1>2, <1>8, <2>1, ConcatEmptySeq
<1>11. Regrew(d, e, i, final)
  BY <1>5, <1>8, <1>9, <1>10 DEF Regrew, items
<1> DEFINE r == ProviderStream!Good(e, ProviderStream!Parts(d, i, d.items[i].size, final))
<1>12. Told(d, r) /\ Fine(d, r) /\ (InOrder(d) /\ ~d.items[i].done => InOrder(r.d))
  BY <1>1, <1>4, <1>11, RegrewFine
<1>13. Told(d, r) /\ Fine(d, r) /\ (InOrder(d) => InOrder(r.d))
  BY <1>1, <1>12
<1> QED BY <1>13 DEF e

\* A step of the messages decoder is fine, and keeps items in order.
FineOrder(d, r) == Told(d, r) /\ Fine(d, r) /\ (r.ok => InOrder(r.d))

\* Each step of the Messages decoder is fine, and keeps items in order.
LEMMA MessagesIs ==
  ASSUME NEW d, Sound(d), InOrder(d), NEW f \in ProviderStream!MessagesFrames
  PROVE  FineOrder(d, ProviderStream!MessagesDecode(d, f))
<1> DEFINE r == ProviderStream!MessagesDecode(d, f)
           bad == ProviderStream!Bad(d)
<1>0. d \in Decoder /\ Len(d.items) <= MaxItems /\ d.finish \in Reasons
  BY DecoderFields DEF Sound
<1>b. FineOrder(d, bad)
  BY BadIs DEF FineOrder
<1>1. CASE f.t = "error" \/ (f.t \notin {"error", "message_start"} /\ ~d.started)
  <2>1. r = bad
    BY <1>1 DEF ProviderStream!MessagesDecode
  <2> HIDE DEF r, bad
  <2>2. FineOrder(d, r)
    BY <1>b, <2>1
  <2> QED BY <2>2 DEF r
<1>2. CASE f.t = "message_start"
  <2> DEFINE e == [d EXCEPT !.started = TRUE]
             g == ProviderStream!Good(e, <<>>)
  <2>1. r = IF d.started THEN bad ELSE g
    BY <1>2 DEF ProviderStream!MessagesDecode
  <2>2. SameReply(d, e)
    BY <1>0, SameReplies
  <2> HIDE DEF e
  <2>3. FineOrder(d, g)
    BY <2>2, QuietStep DEF FineOrder
  <2> HIDE DEF r, bad, g
  <2>4. FineOrder(d, r)
    BY <1>b, <2>1, <2>3
  <2> QED BY <2>4 DEF r
<1>3. CASE f.t = "block_start" /\ d.started
  <2> DEFINE refused == d.finish # "none" \/ Len(d.items) = MaxItems \/ ~ProviderStream!AllDone(d)
             w == f.kind = "call" /\ f.n = 1
             e == ProviderStream!Added(d, IF f.kind = "call" THEN [f EXCEPT !.n = 0] ELSE f)
             g == ProviderStream!Good([e EXCEPT !.whole = w],
                    IF f.kind = "call" THEN <<ProviderStream!ToolDelta(Len(e.items), <<>>)>>
                    ELSE ProviderStream!Parts(e, Len(e.items), 0, f.n))
  <2>1. r = IF refused THEN bad ELSE g
    BY <1>3 DEF ProviderStream!MessagesDecode
  <2>2. ASSUME ~refused PROVE FineOrder(d, g)
    <3>1. w \in BOOLEAN
      OBVIOUS
    <3> HIDE DEF w
    <3>2. Told(d, g) /\ Fine(d, g) /\ (InOrder(d) => InOrder(g.d))
      BY <1>3, <2>2, <3>1, BlockStartIs
    <3> HIDE DEF g
    <3> QED BY <3>2 DEF FineOrder
  <2> HIDE DEF r, bad, g
  <2>3. FineOrder(d, r)
    BY <1>b, <2>1, <2>2
  <2> QED BY <2>3 DEF r
<1>4. CASE f.t = "delta" /\ d.started
  <2> DEFINE refused == ~ProviderStream!Active(d, f.i) \/ (d.items[f.i].kind = "call" /\ d.whole)
             g == ProviderStream!Good(ProviderStream!Extended(d, f.i, d.items[f.i].size + 1),
                    ProviderStream!Parts(d, f.i, d.items[f.i].size, d.items[f.i].size + 1))
  <2>1. r = IF refused THEN bad ELSE g
    BY <1>4 DEF ProviderStream!MessagesDecode
  <2>2. ASSUME ~refused PROVE FineOrder(d, g)
    <3>1. Told(d, g) /\ Fine(d, g) /\ (InOrder(d) => InOrder(g.d))
      BY <2>2, DeltaIs
    <3> HIDE DEF g
    <3> QED BY <3>1 DEF FineOrder
  <2> HIDE DEF r, bad, g
  <2>3. FineOrder(d, r)
    BY <1>b, <2>1, <2>2
  <2> QED BY <2>3 DEF r
<1>5. CASE f.t = "block_stop" /\ d.started
  <2> DEFINE i == f.i
             final == IF d.items[i].kind = "call" /\ d.items[i].size = 0 THEN Whole ELSE d.items[i].size
             partial == d.items[i].kind = "call" /\ final # Whole
             g == ProviderStream!Good([d EXCEPT !.items[i].size = final, !.items[i].done = TRUE],
                    ProviderStream!Parts(d, i, d.items[i].size, final))
  <2>1. r = IF ~ProviderStream!Active(d, i) THEN bad ELSE IF partial THEN bad ELSE g
    BY <1>5 DEF ProviderStream!MessagesDecode
  <2>2. ASSUME ProviderStream!Active(d, i), ~partial PROVE FineOrder(d, g)
    <3>1. final = (IF d.items[i].kind = "call" /\ d.items[i].size = 0 THEN Whole ELSE d.items[i].size)
      OBVIOUS
    <3>2. d.items[i].kind # "call" \/ final = Whole
      BY <2>2
    <3> HIDE DEF final
    <3>3. Told(d, g) /\ Fine(d, g) /\ (InOrder(d) => InOrder(g.d))
      BY <2>2, <3>1, <3>2, BlockStopIs
    <3> HIDE DEF g
    <3> QED BY <3>3 DEF FineOrder
  <2> HIDE DEF r, bad, g, partial
  <2>3. FineOrder(d, r)
    BY <1>b, <2>1, <2>2
  <2> QED BY <2>3 DEF r
<1>6. CASE f.t = "message_delta" /\ d.started
  <2> DEFINE e == [d EXCEPT !.finish = f.reason]
             g == ProviderStream!Good(e, <<ProviderStream!Plain("usage")>>)
             refused == ~ProviderStream!AllDone(d) \/ d.finish # "none"
  <2>1. r = IF refused THEN bad ELSE g
    BY <1>6 DEF ProviderStream!MessagesDecode
  <2>2. SameReply(d, e)
    <3>1. f.reason \in {"stop", "tools", "length"}
      BY <1>6, MessagesFrame
    <3> QED BY <1>0, <3>1, SameReplies
  <2> HIDE DEF e
  <2>3. FineOrder(d, g)
    BY <2>2, QuietStep DEF FineOrder
  <2> HIDE DEF r, bad, g
  <2>4. FineOrder(d, r)
    BY <1>b, <2>1, <2>3
  <2> QED BY <2>4 DEF r
<1>7. CASE f.t = "message_stop" /\ d.started
  <2> DEFINE refused == \/ d.finish = "none"
                        \/ ~ProviderStream!AllDone(d)
                        \/ d.finish # "length" /\ (d.finish = "tools") # (ProviderStream!CallsIn(d) # {})
             p == d.finish # "length" /\ ProviderStream!PrivateIn(d)
             pre == IF p THEN <<ProviderStream!Plain("data")>> ELSE <<>>
             e == [d EXCEPT !.ended = TRUE]
             g == ProviderStream!Good(e, pre \o <<ProviderStream!Finish(d.finish), ProviderStream!Plain("end")>>)
  <2>1. r = IF refused THEN bad ELSE g
    BY <1>7 DEF ProviderStream!MessagesDecode
  <2>2. ASSUME ~refused PROVE FineOrder(d, g)
    <3>1. p \in BOOLEAN /\ (p => d.output)
      <4>1. p => ProviderStream!PrivateIn(d)
        OBVIOUS
      <4>2. ProviderStream!PrivateIn(d) => d.output
        BY PrivateMarked DEF ProviderStream!PrivateIn, Sound
      <4> QED BY <4>1, <4>2
    <3>2. pre = <<>> \o pre
      OBVIOUS
    <3> HIDE DEF p
    <3>3. pre \in Seq([event : {"usage", "data"}]) /\ (~p => Quiet(pre))
      <4>1. pre = <<>> \o (IF p THEN <<ProviderStream!Plain("data")>> ELSE <<>>)
        BY <3>2
      <4> HIDE DEF pre
      <4> QED BY <3>1, <4>1, PreludeIs
    <3>4. d.finish \in {"stop", "tools", "length"} /\ ProviderStream!AllDone(d)
      BY <1>0, <2>2 DEF Reasons
    <3>5. ProviderStream!ItemText(d) = d.text
      BY DEF InOrder
    <3> HIDE DEF pre
    <3>6. Told(d, g) /\ Fine(d, g) /\ (InOrder(d) => InOrder(g.d))
      BY <3>1, <3>3, <3>4, <3>5, TailStep
    <3> HIDE DEF g
    <3> QED BY <3>6 DEF FineOrder
  <2> HIDE DEF r, bad, g
  <2>3. FineOrder(d, r)
    BY <1>b, <2>1, <2>2
  <2> QED BY <2>3 DEF r
<1>8. f.t \in {"message_start", "message_stop", "error", "block_start", "delta", "block_stop", "message_delta"}
  BY MessagesFrame
<1> QED BY <1>1, <1>2, <1>3, <1>4, <1>5, <1>6, <1>7, <1>8

\* Each good step of the Chat decoder gives a sound decoder, and never drops the mark.
LEMMA ChatIs ==
  ASSUME NEW d, Sound(d), NEW f \in ProviderStream!ChatFrames
  PROVE  /\ Told(d, ProviderStream!ChatDecode(d, f))
         /\ ProviderStream!ChatDecode(d, f).ok
            => Decoded(d, ProviderStream!ChatDecode(d, f).d, ProviderStream!ChatDecode(d, f).events)
<1> DEFINE r == ProviderStream!ChatDecode(d, f)
           Well(x) == Told(d, x) /\ (x.ok => Decoded(d, x.d, x.events))
<1>0. d \in Decoder /\ Len(d.items) <= MaxItems /\ d.text \in Seq(Fragment) /\ d.output \in BOOLEAN
  BY DecoderFields DEF Sound
<1>g. ASSUME NEW e, NEW ev, Decoded(d, e, ev) PROVE Well(ProviderStream!Good(e, ev))
  BY <1>g DEF ProviderStream!Good, Told, Decoded
<1>h. ASSUME NEW e \in Decoder, e.output, e.items = d.items, NEW x \in StreamEvent
      PROVE  Well(ProviderStream!Good(e, <<x>>))
  <2>1. Sound(e) /\ <<x>> \in Seq(StreamEvent)
    BY <1>0, <1>h DEF Sound, Marked
  <2>2. Decoded(d, e, <<x>>)
    BY <1>h, <2>1 DEF Decoded
  <2> QED BY <1>g, <2>2
<1>1. CASE f.t = "error"
  <2>1. r = ProviderStream!Bad(d)
    BY <1>1 DEF ProviderStream!ChatDecode
  <2>2. Well(ProviderStream!Bad(d))
    BY BadIs
  <2> QED BY <2>1, <2>2
<1>2. CASE f.t = "content"
  <2> DEFINE p == <<1, Len(d.text) + 1>>
             text == Append(d.text, p)
             e == [d EXCEPT !.output = TRUE, !.text = text]
             x == ProviderStream!Text(<<p>>)
  <2>1. r = ProviderStream!Good(e, <<x>>)
    BY <1>2 DEF ProviderStream!ChatDecode
  <2>2. p \in Fragment
    BY <1>0 DEF Fragment
  <2> HIDE DEF p
  <2>3. x \in StreamEvent
    BY <2>2 DEF StreamEvent, ProviderStream!Text
  <2>4. text \in Seq(Fragment)
    BY <1>0, <2>2
  <2> HIDE DEF text, x
  <2>5. e \in Decoder /\ e.output /\ e.items = d.items
    BY <1>0, <2>4 DEF Decoder
  <2> HIDE DEF e
  <2> QED BY <1>h, <2>1, <2>3, <2>5
<1>3. CASE f.t = "reasoning"
  <2> DEFINE e == [d EXCEPT !.output = TRUE, !.private = TRUE]
             x == ProviderStream!Plain("reasoning")
  <2>1. r = ProviderStream!Good(e, <<x>>)
    BY <1>3 DEF ProviderStream!ChatDecode
  <2>3. x \in StreamEvent
    BY DEF StreamEvent, ProviderStream!Plain
  <2>5. e \in Decoder /\ e.output /\ e.items = d.items
    BY <1>0 DEF Decoder
  <2> HIDE DEF e, x
  <2> QED BY <1>h, <2>1, <2>3, <2>5
<1>4. CASE f.t = "tool"
  <2> DEFINE e == [d EXCEPT !.output = TRUE]
             p == <<f.i, 1>>
             x == ProviderStream!ToolDelta(f.i, <<p>>)
  <2>1. r = ProviderStream!Good(e, <<x>>)
    BY <1>4 DEF ProviderStream!ChatDecode
  <2>2. f.i \in 1 .. MaxItems /\ p \in Fragment
    <3>1. f.i \in 1 .. MaxItems
      BY <1>4, ChatFrame
    <3> QED BY <3>1 DEF Fragment
  <2> HIDE DEF p
  <2>3. x \in StreamEvent
    BY <2>2 DEF StreamEvent, ProviderStream!ToolDelta
  <2>5. e \in Decoder /\ e.output /\ e.items = d.items
    BY <1>0 DEF Decoder
  <2> HIDE DEF e, x
  <2> QED BY <1>h, <2>1, <2>3, <2>5
<1>5. CASE f.t = "usage"
  <2> DEFINE ev == <<ProviderStream!Plain("usage")>>
  <2>1. r = ProviderStream!Good(d, ev)
    BY <1>5 DEF ProviderStream!ChatDecode
  <2>2. ev \in Seq(StreamEvent) /\ Quiet(ev)
    BY DEF StreamEvent, ProviderStream!Plain, Quiet
  <2> HIDE DEF ev
  <2>3. Decoded(d, d, ev)
    BY <2>2 DEF Decoded
  <2> QED BY <1>g, <2>1, <2>3
<1>6. CASE f.t = "finish"
  <2> DEFINE x == ProviderStream!Finish(f.reason)
             y == ProviderStream!Plain("data")
             ev == (IF d.private THEN <<y>> ELSE <<>>) \o <<x>>
  <2>1. r = ProviderStream!Good(d, ev)
    BY <1>6 DEF ProviderStream!ChatDecode
  <2>2. f.reason \in {"stop", "tools", "length"}
    BY <1>6, ChatFrame
  <2>3. x \in StreamEvent /\ x.event = "finish" /\ y \in StreamEvent
    BY <2>2 DEF StreamEvent, ProviderStream!Finish, ProviderStream!Plain
  <2> HIDE DEF x, y
  <2>4. CASE d.private
    <3>1. ev = <<y>> \o <<x>>
      BY <2>4
    <3>2. <<y>> \o <<x>> \in Seq(StreamEvent)
      <4>1. <<y>> \in Seq(StreamEvent) /\ <<x>> \in Seq(StreamEvent)
        BY <2>3
      <4> QED BY <4>1
    <3>3. d.output
      BY <2>4 DEF Sound, Marked
    <3> HIDE DEF ev
    <3>4. Decoded(d, d, ev)
      BY <3>1, <3>2, <3>3 DEF Decoded
    <3> QED BY <1>g, <2>1, <3>4
  <2>5. CASE ~d.private
    <3>1. ev = <<x>>
      BY <2>5
    <3>2. <<x>> \in Seq(StreamEvent) /\ Quiet(<<x>>)
      BY <2>3 DEF Quiet
    <3> HIDE DEF ev
    <3>4. Decoded(d, d, ev)
      BY <3>1, <3>2 DEF Decoded
    <3> QED BY <1>g, <2>1, <3>4
  <2> QED BY <2>4, <2>5
<1>7. CASE f.t = "done"
  <2> DEFINE e == [d EXCEPT !.ended = TRUE]
             ev == <<ProviderStream!Plain("end")>>
  <2>1. r = ProviderStream!Good(e, ev)
    BY <1>7 DEF ProviderStream!ChatDecode
  <2>2. ev \in Seq(StreamEvent) /\ Quiet(ev)
    BY DEF StreamEvent, ProviderStream!Plain, Quiet
  <2>3. SameReply(d, e)
    BY <1>0, SameReplies
  <2> HIDE DEF e, ev
  <2>4. Decoded(d, e, ev)
    BY <2>2, <2>3 DEF Decoded, SameReply, Sound, Marked
  <2> QED BY <1>g, <2>1, <2>4
<1>8. f.t \in {"content", "reasoning", "usage", "done", "error", "tool", "finish"}
  BY ChatFrame
<1> HIDE DEF r, Well
<1> QED BY <1>1, <1>2, <1>3, <1>4, <1>5, <1>6, <1>7, <1>8

-----------------------------------------------------------------------------
(* The reply stream: the invariant                                         *)

Collection ==
    [text : Seq(Fragment), calls : [1 .. MaxItems -> Seq(Fragment)], seen : SUBSET (1 .. MaxItems),
     private : BOOLEAN, finish : Reasons, ended : BOOLEAN]
Failures == {"none", "failed", "failed after output"}

StreamTypes ==
    /\ protocol \in {"chat", "responses", "messages"}
    /\ phase \in {"request", "deliver", "ingest", "over"}
    /\ Sound(decoder)
    /\ pending \in Seq(StreamEvent) /\ collected \in Collection
    /\ failure \in Failures /\ fence \in BOOLEAN
    /\ produced \in Nat /\ taken \in Nat
    /\ phase = "ingest" => failure = "none"
    /\ outcome # "none" => phase = "over"

\* Without the output mark nothing of the reply was shown, nor is about to be.
Hidden(p, c) == Quiet(p) /\ ~ProviderStream!HasOutput(c)
Unshown ==
    /\ ~decoder.output => Hidden(pending, collected)
    /\ failure = "failed" => Hidden(pending, collected)
    /\ phase = "ingest" /\ ~fence => ~ProviderStream!HasOutput(collected)

\* A finish that says the reply is whole, among the events p.
Closing(p) == \E i \in DOMAIN p : p[i].event = "finish" /\ p[i].reason # "length"

\* What a native decoder has decoded is what was collected and what is pending.
Accounts(d, p, c) ==
    /\ d.text = c.text \o TextOf(p)
    /\ ProviderStream!CallsIn(d) = c.seen \cup CallsOf(p)
Closes(d, p, c) ==
    /\ c.finish \in {"stop", "tools"} => Final(d)
    /\ Closing(p) => Final(d)
Carries ==
    /\ phase # "over" => produced = taken + Len(ProviderStream!WithoutEnd(pending))
    /\ phase # "over" /\ failure = "none" => Accounts(decoder, pending, collected)
    /\ Closes(decoder, pending, collected)
    /\ protocol = "messages" => InOrder(decoder)

StreamInv == StreamTypes /\ Unshown /\ (protocol # "chat" => Carries) /\ ReplyHonest

\* Without a reply or a failed stream there is nothing to be honest about.
LEMMA NoOutcome ==
  ASSUME outcome \notin {"reply", "failed", "failed after output"}
  PROVE  ReplyHonest
BY DEF ReplyHonest, ProviderStream!ReplyHonest, ProviderStream!ReplyIsFinal, ProviderStream!RetryFence,
       ProviderStream!FactsBeforeFailure

\* The invariant holds at first.
LEMMA StreamInit == AllInit => StreamInv
<1> SUFFICES ASSUME AllInit PROVE StreamInv
  OBVIOUS
<1>1. ProviderStream!Init
  BY DEF AllInit
<1>2. /\ protocol \in {"chat", "responses", "messages"} /\ phase = "request" /\ pending = <<>> /\ failure = "none"
      /\ fence = FALSE /\ collected = ProviderStream!EmptyReply /\ outcome = "none" /\ produced = 0 /\ taken = 0
      /\ decoder = [started |-> FALSE, items |-> <<>>, finish |-> "none", ended |-> FALSE, output |-> FALSE,
                    text |-> <<>>, whole |-> FALSE, private |-> FALSE]
  BY <1>1, StreamAssumption DEF ProviderStream!Init, ProviderStream!NoFailure
<1>3. /\ <<>> \in Seq(StreamItem) /\ <<>> \in Seq(Fragment) /\ <<>> \in Seq(StreamEvent)
      /\ Len(<<>>) = 0 /\ DOMAIN <<>> = {}
  OBVIOUS
<1>4. decoder \in Decoder /\ decoder.items = <<>> /\ decoder.text = <<>> /\ ~decoder.output /\ ~decoder.private
  BY <1>2, <1>3 DEF Decoder, Reasons
<1>5. Sound(decoder)
  <2>1. Len(decoder.items) <= MaxItems
    BY <1>3, <1>4, StreamAssumption
  <2> QED BY <1>3, <1>4, <2>1 DEF Sound, Marked
<1>6. collected \in Collection /\ collected.text = <<>> /\ collected.seen = {} /\ ~collected.private
      /\ collected.finish = "none"
  <2> DEFINE none == [i \in 1 .. MaxItems |-> <<>>]
  <2>1. none \in [1 .. MaxItems -> Seq(Fragment)]
    BY <1>3
  <2> HIDE DEF none
  <2>2. collected = [text |-> <<>>, calls |-> none, seen |-> {}, private |-> FALSE, finish |-> "none", ended |-> FALSE]
    BY <1>2 DEF ProviderStream!EmptyReply, none
  <2> QED BY <1>3, <2>1, <2>2 DEF Collection, Reasons
<1>7. Hidden(pending, collected)
  BY <1>2, <1>6, NoEvents DEF Hidden, ProviderStream!HasOutput
<1>8. ReplyHonest
  BY <1>2, NoOutcome
<1>9. Carries
  <2>1. ProviderStream!CallsIn(decoder) = {}
    BY <1>3, <1>4 DEF ProviderStream!CallsIn
  <2>2. Accounts(decoder, pending, collected)
    BY <1>2, <1>4, <1>6, <2>1, NoEvents, <1>3, ConcatEmptySeq DEF Accounts
  <2>3. Closes(decoder, pending, collected)
    BY <1>2, <1>3, <1>6 DEF Closes, Closing
  <2>4. InOrder(decoder)
    <3>1. ItemsText(<<>>) = <<>>
      BY <1>3, FlattenEmpty DEF ItemsText, Pieces
    <3> QED BY <1>3, <1>4, <3>1, ItemTextIs DEF InOrder
  <2>5. produced = taken + Len(ProviderStream!WithoutEnd(pending))
    BY <1>2, <1>3, NoEvents
  <2> QED BY <2>2, <2>3, <2>4, <2>5 DEF Carries
<1>10. StreamTypes
  BY <1>2, <1>3, <1>5, <1>6 DEF StreamTypes, Failures
<1>11. Unshown
  BY <1>2, <1>7 DEF Unshown
<1> QED BY <1>8, <1>9, <1>10, <1>11 DEF StreamInv

\* An answer other than a stream is neither a reply nor a failed stream.
LEMMA HttpIs ==
  ASSUME NEW status \in {400, 401, 402, 408, 409, 429, 500},
         NEW class \in {"unknown", "rate", "server", "context", "quota"}
  PROVE  ProviderStream!ClassifyHttp(status, class)
           \in {"authentication", "quota", "rate", "server", "context", "request"}
<1>1. CASE class = "unknown"
  BY <1>1 DEF ProviderStream!ClassifyHttp
<1>2. CASE class # "unknown" /\ status \in {401, 402, 403}
  BY <1>2 DEF ProviderStream!ClassifyHttp
<1>3. CASE class # "unknown" /\ status = 409
  BY <1>3 DEF ProviderStream!ClassifyHttp
<1>4. CASE class # "unknown" /\ status \in {400, 408, 429, 500}
  BY <1>4 DEF ProviderStream!ClassifyHttp
<1> QED BY <1>1, <1>2, <1>3, <1>4

\* The answer to the request keeps the invariant.
LEMMA ResponseStep == StreamInv /\ ProviderStream!Response => StreamInv'
<1> SUFFICES ASSUME StreamInv, ProviderStream!Response PROVE StreamInv'
  OBVIOUS
<1>1. /\ phase = "request" /\ phase' \in {"deliver", "over"}
      /\ outcome' \notin {"reply", "failed", "failed after output"}
      /\ outcome' # "none" => phase' = "over"
      /\ UNCHANGED <<protocol, frames, decoder, pending, failure, fence, collected, produced, taken>>
  <2>0. phase = "request" /\ UNCHANGED <<protocol, frames, decoder, pending, failure, fence, collected, produced, taken>>
    BY DEF ProviderStream!Response
  <2>1. outcome = "none"
    BY <2>0 DEF StreamInv, StreamTypes
  <2> DEFINE Answered == /\ phase' \in {"deliver", "over"}
                         /\ outcome' \notin {"reply", "failed", "failed after output"}
                         /\ outcome' # "none" => phase' = "over"
  <2>2. ASSUME phase' = "deliver", outcome' = outcome PROVE Answered
    BY <2>1, <2>2
  <2>3. ASSUME NEW status \in {400, 401, 402, 408, 409, 429, 500},
               NEW class \in {"unknown", "rate", "server", "context", "quota"},
               outcome' = ProviderStream!ClassifyHttp(status, class), phase' = "over"
        PROVE  Answered
    <3>1. ProviderStream!ClassifyHttp(status, class)
            \in {"authentication", "quota", "rate", "server", "context", "request"}
      BY HttpIs
    <3>2. outcome' \in {"authentication", "quota", "rate", "server", "context", "request"}
      BY <2>3, <3>1
    <3> QED BY <2>3, <3>2
  <2>4. ASSUME outcome' \in {"transport", "cancelled", "protocol"}, phase' = "over" PROVE Answered
    BY <2>4
  <2> HIDE DEF Answered
  <2>5. Answered
    BY <2>2, <2>3, <2>4 DEF ProviderStream!Response
  <2> QED BY <2>0, <2>5 DEF Answered
<1>2. ReplyHonest'
  BY <1>1 DEF ReplyHonest, ProviderStream!ReplyHonest, ProviderStream!ReplyIsFinal, ProviderStream!RetryFence,
       ProviderStream!FactsBeforeFailure
<1>3. StreamTypes'
  BY <1>1 DEF StreamInv, StreamTypes
<1>4. Unshown'
  BY <1>1 DEF StreamInv, Unshown
<1>5. protocol # "chat" => Carries'
  BY <1>1 DEF StreamInv, Carries
<1> QED BY <1>1, <1>2, <1>3, <1>4, <1>5 DEF StreamInv

\* The start of a chunk, or the news that no more come, keeps the invariant.
LEMMA ReceiveStep == StreamInv /\ ProviderStream!Receive => StreamInv'
<1> SUFFICES ASSUME StreamInv, ProviderStream!Receive PROVE StreamInv'
  OBVIOUS
<1>1. /\ phase = "deliver" /\ pending = <<>> /\ failure = "none"
      /\ \/ phase' = "ingest" /\ fence' = decoder.output /\ failure' = failure
         \/ /\ failure' = (IF decoder.output THEN "failed after output" ELSE "failed")
            /\ phase' = phase /\ fence' = fence
      /\ UNCHANGED <<protocol, frames, decoder, pending, collected, outcome, produced, taken>>
  BY DEF ProviderStream!Receive, ProviderStream!NoFailure, ProviderStream!Failure
<1>2. outcome = "none"
  BY <1>1 DEF StreamInv, StreamTypes
<1>3. ReplyHonest'
  BY <1>1, <1>2 DEF ReplyHonest, ProviderStream!ReplyHonest, ProviderStream!ReplyIsFinal, ProviderStream!RetryFence,
       ProviderStream!FactsBeforeFailure
<1>4. decoder.output \in BOOLEAN
  BY DecoderFields DEF StreamInv, StreamTypes, Sound
<1>5. StreamTypes'
  BY <1>1, <1>2, <1>4 DEF StreamInv, StreamTypes, Failures
<1>6. Unshown'
  BY <1>1, <1>4 DEF StreamInv, Unshown, Hidden
<1>7. protocol # "chat" => Carries'
  BY <1>1 DEF StreamInv, Carries
<1> QED BY <1>1, <1>3, <1>5, <1>6, <1>7 DEF StreamInv

\* The end of a chunk keeps the invariant.
LEMMA ChunkEndStep == StreamInv /\ ProviderStream!ChunkEnd => StreamInv'
<1> SUFFICES ASSUME StreamInv, ProviderStream!ChunkEnd PROVE StreamInv'
  OBVIOUS
<1>1. /\ phase = "ingest" /\ phase' = "deliver"
      /\ UNCHANGED <<protocol, frames, decoder, pending, failure, fence, collected, outcome, produced, taken>>
  BY DEF ProviderStream!ChunkEnd
<1>2. outcome = "none"
  BY <1>1 DEF StreamInv, StreamTypes
<1>3. ReplyHonest'
  BY <1>1, <1>2 DEF ReplyHonest, ProviderStream!ReplyHonest, ProviderStream!ReplyIsFinal, ProviderStream!RetryFence,
       ProviderStream!FactsBeforeFailure
<1>4. StreamTypes'
  BY <1>1, <1>2 DEF StreamInv, StreamTypes
<1>5. Unshown'
  BY <1>1 DEF StreamInv, Unshown
<1>6. protocol # "chat" => Carries'
  BY <1>1 DEF StreamInv, Carries
<1> QED BY <1>1, <1>3, <1>4, <1>5, <1>6 DEF StreamInv

-----------------------------------------------------------------------------
(* The reply stream: frames                                                *)

\* The adapter fails, its error marked out, with pending events that say no more than before.
Failing(out) ==
    /\ phase = "ingest" /\ phase' = "deliver"
    /\ failure' = ProviderStream!Failure(out)
    /\ pending' \in Seq(StreamEvent)
    /\ Quiet(pending) => Quiet(pending')
    /\ ~out => Hidden(pending', collected)
    /\ protocol # "chat" => pending' = ProviderStream!WithoutEnd(pending)
    /\ UNCHANGED <<protocol, decoder, fence, collected, outcome, produced, taken>>

\* A failing adapter keeps the invariant.
LEMMA FailingStep ==
  ASSUME StreamInv, NEW out \in BOOLEAN, Failing(out)
  PROVE  StreamInv'
<1>1. /\ phase = "ingest" /\ phase' = "deliver"
      /\ failure' \in {"failed", "failed after output"} /\ (failure' = "failed" => ~out)
      /\ UNCHANGED <<protocol, decoder, fence, collected, outcome, produced, taken>>
  BY DEF Failing, ProviderStream!Failure
<1>2. outcome = "none"
  BY <1>1 DEF StreamInv, StreamTypes
<1>3. ReplyHonest'
  BY <1>1, <1>2 DEF ReplyHonest, ProviderStream!ReplyHonest, ProviderStream!ReplyIsFinal, ProviderStream!RetryFence,
       ProviderStream!FactsBeforeFailure
<1>4. StreamTypes'
  <2>1. pending' \in Seq(StreamEvent)
    BY DEF Failing
  <2> QED BY <1>1, <1>2, <2>1 DEF StreamInv, StreamTypes, Failures
<1>5. Unshown'
  <2>1. ~decoder.output => Hidden(pending', collected)
    BY DEF Failing, StreamInv, Unshown, Hidden
  <2>2. failure' = "failed" => Hidden(pending', collected)
    BY <1>1 DEF Failing
  <2> QED BY <1>1, <2>1, <2>2 DEF Unshown
<1>6. ASSUME protocol # "chat" PROVE Carries'
  <2>1. pending \in Seq(StreamEvent) /\ Carries /\ pending' = ProviderStream!WithoutEnd(pending)
    BY <1>6 DEF StreamInv, StreamTypes, Failing
  <2>2. /\ ProviderStream!WithoutEnd(pending') = pending'
        /\ \A i \in DOMAIN pending' : \E j \in DOMAIN pending : pending[j] = pending'[i]
    BY <2>1, WithoutEndKeeps
  <2>3. Closing(pending') => Closing(pending)
    BY <2>2 DEF Closing
  <2>4. produced = taken + Len(pending')
    BY <1>1, <2>1 DEF Carries
  <2>5. Closes(decoder, pending', collected)
    BY <2>1, <2>3 DEF Carries, Closes
  <2> HIDE DEF Closing
  <2>6. protocol = "messages" => InOrder(decoder)
    BY <2>1 DEF Carries
  <2> QED BY <1>1, <2>2, <2>4, <2>5, <2>6 DEF Carries
<1> QED BY <1>1, <1>3, <1>4, <1>5, <1>6 DEF StreamInv

\* A line that is no frame keeps the invariant.
LEMMA MalformedStep == StreamInv /\ ProviderStream!Malformed => StreamInv'
<1> SUFFICES ASSUME StreamInv, ProviderStream!Malformed PROVE StreamInv'
  OBVIOUS
<1> DEFINE out == IF protocol = "chat" THEN fence ELSE decoder.output
<1>1. /\ phase = "ingest" /\ phase' = "deliver"
      /\ failure' = ProviderStream!Failure(out)
      /\ pending' = (IF protocol = "chat" THEN <<>> ELSE ProviderStream!WithoutEnd(pending))
      /\ UNCHANGED <<protocol, decoder, fence, collected, outcome, produced, taken>>
  BY DEF ProviderStream!Malformed, ProviderStream!Fail
<1>2. pending \in Seq(StreamEvent) /\ decoder.output \in BOOLEAN /\ fence \in BOOLEAN
  BY DecoderFields DEF StreamInv, StreamTypes, Sound
<1>3. out \in BOOLEAN
  BY <1>2
<1>4. pending' \in Seq(StreamEvent) /\ (Quiet(pending) => Quiet(pending'))
  <2>1. ProviderStream!WithoutEnd(pending) \in Seq(StreamEvent) /\ <<>> \in Seq(StreamEvent)
    BY <1>2, WithoutEndConcat
  <2>2. Quiet(pending) => Quiet(ProviderStream!WithoutEnd(pending))
    BY <1>2, WithoutEndQuiet
  <2>3. Quiet(<<>>)
    BY NoEvents
  <2> QED BY <1>1, <2>1, <2>2, <2>3
<1>5. ~out => Hidden(pending', collected)
  <2>1. CASE protocol = "chat"
    <3>1. ~out => ~ProviderStream!HasOutput(collected)
      BY <1>1, <2>1 DEF StreamInv, Unshown
    <3> QED BY <1>1, <2>1, <3>1, NoEvents DEF Hidden
  <2>2. CASE protocol # "chat"
    <3>1. ~out => Hidden(pending, collected)
      BY <2>2 DEF StreamInv, Unshown
    <3> QED BY <1>4, <3>1 DEF Hidden
  <2> QED BY <2>1, <2>2
<1>6. protocol # "chat" => pending' = ProviderStream!WithoutEnd(pending)
  BY <1>1
<1> HIDE DEF out
<1>7. Failing(out)
  BY <1>1, <1>4, <1>5, <1>6 DEF Failing
<1> QED BY <1>3, <1>7, FailingStep

\* What decoding a frame should give.
DecodesWell(r) ==
    /\ Told(decoder, r)
    /\ r.ok => Decoded(decoder, r.d, r.events)
    /\ r.ok /\ protocol # "chat" => Streamed(decoder, r.d, r.events)
    /\ r.ok /\ protocol = "messages" => InOrder(r.d)

\* Decoding a frame gives that, whatever the protocol.
LEMMA DecodeIs ==
  ASSUME StreamInv, NEW f \in ProviderStream!Frames(protocol)
  PROVE  DecodesWell(ProviderStream!Decode(decoder, f))
<1> DEFINE r == ProviderStream!Decode(decoder, f)
<1>1. Sound(decoder) /\ protocol \in {"chat", "responses", "messages"}
  BY DEF StreamInv, StreamTypes
<1>2. CASE protocol = "responses"
  <2>1. f \in ProviderStream!ResponsesFrames /\ r = ProviderStream!ResponsesDecode(decoder, f)
    BY <1>2 DEF ProviderStream!Frames, ProviderStream!Decode
  <2> HIDE DEF r
  <2>2. Told(decoder, r) /\ Fine(decoder, r)
    BY <1>1, <2>1, ResponsesIs
  <2>3. DecodesWell(r)
    BY <1>2, <2>2 DEF Fine, DecodesWell
  <2> QED BY <2>3 DEF r
<1>3. CASE protocol = "messages"
  <2>1. f \in ProviderStream!MessagesFrames /\ r = ProviderStream!MessagesDecode(decoder, f)
    BY <1>3 DEF ProviderStream!Frames, ProviderStream!Decode
  <2> HIDE DEF r
  <2>2. InOrder(decoder)
    BY <1>3 DEF StreamInv, Carries
  <2>3. FineOrder(decoder, r)
    BY <1>1, <2>1, <2>2, MessagesIs
  <2>4. DecodesWell(r)
    BY <1>3, <2>3 DEF Fine, FineOrder, DecodesWell
  <2> QED BY <2>4 DEF r
<1>4. CASE protocol = "chat"
  <2>1. f \in ProviderStream!ChatFrames /\ r = ProviderStream!ChatDecode(decoder, f)
    BY <1>4 DEF ProviderStream!Frames, ProviderStream!Decode
  <2> HIDE DEF r
  <2>2. Told(decoder, r) /\ (r.ok => Decoded(decoder, r.d, r.events))
    BY <1>1, <2>1, ChatIs
  <2>3. DecodesWell(r)
    BY <1>4, <2>2 DEF DecodesWell
  <2> QED BY <2>3 DEF r
<1> QED BY <1>1, <1>2, <1>3, <1>4

\* A frame that decodes keeps the invariant.
LEMMA DecodedStep ==
  ASSUME StreamInv, NEW r, DecodesWell(r), r.ok, phase = "ingest", ~decoder.ended,
         decoder' = r.d, pending' = pending \o r.events,
         produced' = produced + Len(ProviderStream!WithoutEnd(r.events)),
         UNCHANGED <<protocol, phase, failure, fence, collected, outcome, taken>>
  PROVE  StreamInv'
<1>1. /\ pending \in Seq(StreamEvent) /\ collected \in Collection /\ produced \in Nat /\ taken \in Nat
      /\ outcome = "none" /\ failure = "none" /\ Sound(decoder)
  BY DEF StreamInv, StreamTypes
<1> DEFINE e == r.d
           ev == r.events
<1>2. /\ Decoded(decoder, e, ev) /\ Sound(e) /\ ev \in Seq(StreamEvent) /\ (decoder.output => e.output)
      /\ e.output \/ Quiet(ev)
  BY DEF DecodesWell, Decoded
<1>3. decoder' = e /\ pending' = pending \o ev /\ produced' = produced + Len(ProviderStream!WithoutEnd(ev))
  OBVIOUS
<1>4. protocol # "chat" => Streamed(decoder, e, ev)
  BY DEF DecodesWell
<1>5. protocol = "messages" => InOrder(e)
  BY DEF DecodesWell
<1> HIDE DEF e, ev
<1>6. pending' \in Seq(StreamEvent)
  BY <1>1, <1>2, <1>3
<1>7. Quiet(pending') <=> Quiet(pending) /\ Quiet(ev)
  BY <1>1, <1>2, <1>3, CallsOfConcat
<1>8. ReplyHonest'
  BY <1>1 DEF ReplyHonest, ProviderStream!ReplyHonest, ProviderStream!ReplyIsFinal, ProviderStream!RetryFence,
       ProviderStream!FactsBeforeFailure
<1>9. ProviderStream!WithoutEnd(ev) \in Seq(StreamEvent) /\ ProviderStream!WithoutEnd(pending) \in Seq(StreamEvent)
      /\ ProviderStream!WithoutEnd(pending') = ProviderStream!WithoutEnd(pending) \o ProviderStream!WithoutEnd(ev)
  BY <1>1, <1>2, <1>3, WithoutEndConcat
<1>10. StreamTypes'
  <2>1. produced' \in Nat
    BY <1>1, <1>3, <1>9
  <2> QED BY <1>1, <1>2, <1>3, <1>6, <2>1 DEF StreamInv, StreamTypes
<1>11. Unshown'
  <2>1. ~e.output => Hidden(pending', collected)
    BY <1>2, <1>7 DEF StreamInv, Unshown, Hidden
  <2>2. phase = "ingest" /\ ~fence => ~ProviderStream!HasOutput(collected)
    BY DEF StreamInv, Unshown
  <2> QED BY <1>1, <1>3, <2>1, <2>2 DEF Unshown
<1>12. ASSUME protocol # "chat" PROVE Carries'
  <2>1. Carries /\ Streamed(decoder, e, ev)
    BY <1>4, <1>12 DEF StreamInv
  <2>2. ~Final(decoder)
    BY DEF Final
  <2>3. collected.finish \notin {"stop", "tools"} /\ ~Closing(pending)
    BY <2>1, <2>2 DEF Carries, Closes
  <2>4. Closing(ev) => Final(e)
    BY <2>1 DEF Closing, Streamed
  <2>5. Closing(pending') => Closing(ev)
    <3> SUFFICES ASSUME NEW i \in DOMAIN pending', pending'[i].event = "finish" /\ pending'[i].reason # "length"
                 PROVE  Closing(ev)
      BY DEF Closing
    <3>1. (\E j \in DOMAIN pending : pending[j] = pending'[i]) \/ (\E j \in DOMAIN ev : ev[j] = pending'[i])
      BY <1>1, <1>2, <1>3, ConcatElements
    <3> QED BY <2>3, <3>1 DEF Closing
  <2>6. Closes(e, pending', collected)
    BY <2>3, <2>4, <2>5 DEF Closes
  <2>7. Accounts(e, pending', collected)
    <3>1. Accounts(decoder, pending, collected)
      BY <1>1, <2>1 DEF Carries
    <3>2. TextOf(pending) \in Seq(Fragment) /\ TextOf(ev) \in Seq(Fragment) /\ TextOf(pending') = TextOf(pending) \o TextOf(ev)
      BY <1>1, <1>2, <1>3, TextOfConcat
    <3>3. CallsOf(pending') = CallsOf(pending) \cup CallsOf(ev)
      BY <1>1, <1>2, <1>3, CallsOfConcat
    <3>4. collected.text \in Seq(Fragment)
      BY <1>1 DEF Collection
    <3>6. e.text = collected.text \o TextOf(pending')
      <4>1. e.text = (collected.text \o TextOf(pending)) \o TextOf(ev)
        BY <2>1, <3>1 DEF Accounts, Streamed
      <4> DEFINE x == TextOf(pending)
                 y == TextOf(ev)
      <4>2. x \in Seq(Fragment) /\ y \in Seq(Fragment) /\ TextOf(pending') = x \o y
        BY <3>2
      <4> HIDE DEF x, y
      <4>3. (collected.text \o x) \o y = collected.text \o (x \o y)
        BY Zenon, <3>4, <4>2, FragmentsAssociate
      <4> QED BY <4>1, <4>2, <4>3 DEF x, y
    <3>7. ProviderStream!CallsIn(e) = collected.seen \cup CallsOf(pending')
      BY <2>1, <3>1, <3>3 DEF Accounts, Streamed
    <3> QED BY <3>6, <3>7 DEF Accounts
  <2>8. produced' = taken + Len(ProviderStream!WithoutEnd(pending'))
    <3> DEFINE a == ProviderStream!WithoutEnd(pending)
               b == ProviderStream!WithoutEnd(ev)
    <3>1. produced = taken + Len(a) /\ produced' = produced + Len(b)
      BY <1>3, <2>1 DEF Carries
    <3>2. ProviderStream!WithoutEnd(pending') = a \o b /\ a \in Seq(StreamEvent) /\ b \in Seq(StreamEvent)
      BY <1>9
    <3> HIDE DEF a, b
    <3>3. Len(a \o b) = Len(a) + Len(b) /\ Len(a) \in Nat /\ Len(b) \in Nat
      BY <3>2
    <3> QED BY <1>1, <3>1, <3>2, <3>3
  <2> QED BY <1>3, <1>5, <2>6, <2>7, <2>8 DEF Carries
<1> QED BY <1>8, <1>10, <1>11, <1>12 DEF StreamInv

\* One frame of a chunk keeps the invariant.
LEMMA IngestStep ==
  ASSUME StreamInv, NEW f \in ProviderStream!Frames(protocol), ProviderStream!Ingest(f)
  PROVE  StreamInv'
<1> DEFINE r == ProviderStream!Decode(decoder, f)
           out == IF decoder.ended THEN decoder.output ELSE r.d.output
           bad == decoder.ended \/ ~r.ok
<1>1. /\ phase = "ingest"
      /\ bad => /\ ProviderStream!Fail(out)
                /\ pending' = (IF protocol = "chat" THEN pending ELSE ProviderStream!WithoutEnd(pending))
                /\ UNCHANGED <<decoder, produced>>
      /\ ~bad => /\ decoder' = r.d /\ pending' = pending \o r.events
                 /\ produced' = produced + Len(ProviderStream!WithoutEnd(r.events))
                 /\ UNCHANGED <<phase, failure>>
      /\ UNCHANGED <<protocol, fence, collected, outcome, taken>>
  BY DEF ProviderStream!Ingest
<1>2. DecodesWell(r)
  BY DecodeIs
<1>3. pending \in Seq(StreamEvent)
  BY DEF StreamInv, StreamTypes
<1> HIDE DEF r
<1>4. CASE bad
  <2> DEFINE o == IF out THEN TRUE ELSE FALSE
  <2>1. failure' = ProviderStream!Failure(o) /\ phase' = "deliver"
    BY <1>1, <1>4 DEF ProviderStream!Fail, ProviderStream!Failure
  <2>2. o \in BOOLEAN
    OBVIOUS
  <2>3. decoder.output => out
    BY <1>2 DEF DecodesWell, Told
  <2>4. pending' = (IF protocol = "chat" THEN pending ELSE ProviderStream!WithoutEnd(pending))
    BY <1>1, <1>4
  <2>5. pending' \in Seq(StreamEvent) /\ (Quiet(pending) => Quiet(pending'))
    <3>1. ProviderStream!WithoutEnd(pending) \in Seq(StreamEvent)
      BY <1>3, WithoutEndConcat
    <3>2. Quiet(pending) => Quiet(ProviderStream!WithoutEnd(pending))
      BY <1>3, WithoutEndQuiet
    <3> QED BY <1>3, <2>4, <3>1, <3>2
  <2>6. ~o => Hidden(pending', collected)
    <3>1. ~o => Hidden(pending, collected)
      BY <2>3 DEF StreamInv, Unshown
    <3> QED BY <2>5, <3>1 DEF Hidden
  <2>7. protocol # "chat" => pending' = ProviderStream!WithoutEnd(pending)
    BY <2>4
  <2>8. UNCHANGED <<protocol, decoder, fence, collected, outcome, produced, taken>>
    BY <1>1, <1>4
  <2> HIDE DEF o
  <2>9. Failing(o)
    BY <1>1, <2>1, <2>5, <2>6, <2>7, <2>8 DEF Failing
  <2> QED BY <2>2, <2>9, FailingStep
<1>5. CASE ~bad
  BY <1>1, <1>2, <1>5, DecodedStep
<1> QED BY <1>4, <1>5

-----------------------------------------------------------------------------
(* The reply stream: delivery                                              *)

\* A sequence is its head followed by its tail.
LEMMA FirstAndRest ==
  ASSUME NEW X, NEW s \in Seq(X), s # <<>>
  PROVE  Head(s) \in X /\ Tail(s) \in Seq(X) /\ s = <<Head(s)>> \o Tail(s)
<1> DEFINE h == Head(s)
           t == Tail(s)
           u == <<h>> \o t
<1>1. /\ h \in X /\ t \in Seq(X) /\ h = s[1] /\ Len(s) \in Nat /\ Len(s) >= 1
      /\ Len(t) = Len(s) - 1 /\ \A i \in 1..(Len(s) - 1) : t[i] = s[i + 1]
  OBVIOUS
<1> HIDE DEF h, t
<1>2. <<h>> \in Seq(X) /\ Len(<<h>>) = 1 /\ <<h>>[1] = h
  BY <1>1
<1>3. /\ u \in Seq(X) /\ Len(u) = Len(s)
      /\ \A i \in 1..Len(s) : u[i] = IF i <= 1 THEN <<h>>[i] ELSE t[i - 1]
  <2>1. /\ u \in Seq(X) /\ Len(u) = Len(<<h>>) + Len(t)
        /\ \A i \in 1..(Len(<<h>>) + Len(t)) : u[i] = IF i <= Len(<<h>>) THEN <<h>>[i] ELSE t[i - Len(<<h>>)]
    BY <1>1, <1>2, ConcatProperties
  <2>2. Len(<<h>>) + Len(t) = Len(s)
    BY <1>1, <1>2
  <2> QED BY <1>2, <2>1, <2>2
<1> HIDE DEF u
<1>4. ASSUME NEW i \in 1..Len(s) PROVE u[i] = s[i]
  <2>1. CASE i = 1
    BY <1>1, <1>2, <1>3, <2>1
  <2>2. CASE i # 1
    <3>1. i - 1 \in 1..(Len(s) - 1) /\ i - 1 + 1 = i /\ ~(i <= 1)
      BY <1>1, <2>2
    <3>2. t[i - 1] = s[i - 1 + 1]
      BY <1>1, <3>1
    <3> QED BY <1>3, <3>1, <3>2
  <2> QED BY <2>1, <2>2
<1>5. s = u
  BY <1>3, <1>4
<1> QED BY <1>1, <1>5 DEF h, t, u

\* What follows the first event e of p is t.
Follows(p, e, t) ==
    /\ e \in StreamEvent /\ t \in Seq(StreamEvent)
    /\ TextOf(p) = TextOf(<<e>>) \o TextOf(t)
    /\ CallsOf(p) = CallsOf(<<e>>) \cup CallsOf(t)
    /\ Quiet(p) => Quiet(t) /\ e.event \in {"usage", "finish", "end"}
    /\ e.event = "finish" /\ e.reason # "length" => Closing(p)
    /\ Closing(t) => Closing(p)
    /\ Len(ProviderStream!WithoutEnd(p))
         = (IF e.event = "end" THEN 0 ELSE 1) + Len(ProviderStream!WithoutEnd(t))
    /\ Len(ProviderStream!WithoutEnd(t)) \in Nat

\* The tail follows the head.
LEMMA FollowsIs ==
  ASSUME NEW p \in Seq(StreamEvent), p # <<>>
  PROVE  Follows(p, Head(p), Tail(p))
<1> DEFINE e == Head(p)
           t == Tail(p)
<1>1. e \in StreamEvent /\ t \in Seq(StreamEvent) /\ p = <<e>> \o t
  BY FirstAndRest
<1>t. /\ 1 \in DOMAIN p /\ p[1] = e
      /\ \A i \in DOMAIN t : i + 1 \in DOMAIN p /\ p[i + 1] = t[i]
  <2> SUFFICES ASSUME NEW X, NEW s \in Seq(X), s # <<>>
               PROVE  /\ 1 \in DOMAIN s /\ s[1] = Head(s)
                      /\ \A i \in DOMAIN Tail(s) : i + 1 \in DOMAIN s /\ s[i + 1] = Tail(s)[i]
    OBVIOUS
  <2> QED OBVIOUS
<1> HIDE DEF e, t
<1>2. <<e>> \in Seq(StreamEvent) /\ DOMAIN <<e>> = {1} /\ <<e>>[1] = e
  BY <1>1
<1>3. TextOf(p) = TextOf(<<e>>) \o TextOf(t)
  BY <1>1, <1>2, TextOfConcat
<1>4. CallsOf(p) = CallsOf(<<e>>) \cup CallsOf(t) /\ (Quiet(p) <=> Quiet(<<e>>) /\ Quiet(t))
  BY <1>1, <1>2, CallsOfConcat
<1>5. Quiet(<<e>>) => e.event \in {"usage", "finish", "end"}
  BY <1>2 DEF Quiet
<1>6. e.event = "finish" /\ e.reason # "length" => Closing(p)
  BY <1>t DEF Closing
<1>7. Closing(t) => Closing(p)
  BY <1>t DEF Closing
<1>8. /\ Len(ProviderStream!WithoutEnd(p))
           = (IF e.event = "end" THEN 0 ELSE 1) + Len(ProviderStream!WithoutEnd(t))
      /\ Len(ProviderStream!WithoutEnd(t)) \in Nat
  <2> DEFINE a == ProviderStream!WithoutEnd(<<e>>)
             b == ProviderStream!WithoutEnd(t)
  <2>1. ProviderStream!WithoutEnd(p) = a \o b /\ a \in Seq(StreamEvent) /\ b \in Seq(StreamEvent)
    BY <1>1, <1>2, WithoutEndConcat
  <2>2. a = (IF e.event = "end" THEN <<>> ELSE <<e>>)
    BY <1>1, OneEvent
  <2> HIDE DEF a, b
  <2>3. Len(a) = (IF e.event = "end" THEN 0 ELSE 1)
    BY <2>2
  <2>4. Len(a \o b) = Len(a) + Len(b) /\ Len(b) \in Nat
    BY <2>1
  <2> QED BY <2>1, <2>3, <2>4 DEF b
<1>9. Follows(p, e, t)
  BY <1>1, <1>3, <1>4, <1>5, <1>6, <1>7, <1>8 DEF Follows
<1> QED BY <1>9 DEF e, t

\* What the collector has once it took event e.
Took(c, e, n) ==
    /\ n \in Collection
    /\ n.text = c.text \o TextOf(<<e>>)
    /\ n.seen = c.seen \cup CallsOf(<<e>>)
    /\ n.finish = (IF e.event = "finish" THEN e.reason ELSE c.finish)
    /\ e.event \in {"usage", "finish", "end"} => (ProviderStream!HasOutput(n) <=> ProviderStream!HasOutput(c))

\* Pushed takes an event.
LEMMA PushedIs ==
  ASSUME NEW c \in Collection, NEW e \in StreamEvent
  PROVE  Took(c, e, ProviderStream!Pushed(c, e))
<1> DEFINE n == ProviderStream!Pushed(c, e)
<1>1. /\ TextOf(<<e>>) = (IF e.event = "text" THEN e.parts ELSE <<>>)
      /\ CallsOf(<<e>>) = (IF e.event = "tool" THEN {e.index} ELSE {})
  BY OneEvent
<1>2. /\ c.text \in Seq(Fragment) /\ c.calls \in [1 .. MaxItems -> Seq(Fragment)] /\ c.seen \in SUBSET (1 .. MaxItems)
      /\ c.finish \in Reasons
  BY DEF Collection
<1>3. c.text \o <<>> = c.text
  BY <1>2, ConcatEmptySeq
<1>4. CASE e.event = "text"
  <2>1. e.parts \in Seq(Fragment)
    BY <1>4, EventFields
  <2> DEFINE text == c.text \o e.parts
  <2>2. text \in Seq(Fragment)
    BY <1>2, <2>1
  <2>3. n = [c EXCEPT !.text = text]
    BY <1>4 DEF ProviderStream!Pushed
  <2>4. text = c.text \o TextOf(<<e>>) /\ CallsOf(<<e>>) = {}
    BY <1>1, <1>4
  <2> HIDE DEF text, n
  <2>5. n \in Collection /\ n.text = text /\ n.seen = c.seen /\ n.finish = c.finish
    BY <2>2, <2>3 DEF Collection
  <2>6. Took(c, e, n)
    BY <1>4, <2>4, <2>5 DEF Took
  <2> QED BY <2>6 DEF n
<1>5. CASE e.event = "tool"
  <2>1. e.parts \in Seq(Fragment) /\ e.index \in 1 .. MaxItems
    BY <1>5, EventFields
  <2> DEFINE parts == c.calls[e.index] \o e.parts
             calledBy == [c.calls EXCEPT ![e.index] = parts]
             seenBy == c.seen \cup {e.index}
  <2>2. parts \in Seq(Fragment)
    <3>1. c.calls[e.index] \in Seq(Fragment)
      BY <1>2, <2>1
    <3>2. e.parts \in Seq(Fragment)
      BY <2>1
    <3> QED BY <3>1, <3>2
  <2>3. n = [c EXCEPT !.calls = calledBy, !.seen = seenBy]
    BY <1>5 DEF ProviderStream!Pushed
  <2> HIDE DEF parts
  <2>4. calledBy \in [1 .. MaxItems -> Seq(Fragment)] /\ seenBy \in SUBSET (1 .. MaxItems)
    BY <1>2, <2>1, <2>2
  <2>5. seenBy = c.seen \cup CallsOf(<<e>>) /\ TextOf(<<e>>) = <<>>
    BY <1>1, <1>5
  <2> HIDE DEF n, calledBy, seenBy
  <2>6. n \in Collection /\ n.text = c.text /\ n.seen = seenBy /\ n.finish = c.finish
    BY <2>3, <2>4 DEF Collection
  <2>7. Took(c, e, n)
    BY <1>3, <1>5, <2>5, <2>6 DEF Took
  <2> QED BY <2>7 DEF n
<1>6. CASE e.event \in {"reasoning", "data", "usage", "end", "finish"}
  <2>1. TextOf(<<e>>) = <<>> /\ CallsOf(<<e>>) = {}
    BY <1>1, <1>6
  <2>2. /\ n \in Collection /\ n.text = c.text /\ n.seen = c.seen
        /\ n.finish = (IF e.event = "finish" THEN e.reason ELSE c.finish)
        /\ e.event \in {"usage", "finish", "end"} => n.private = c.private
    <3>1. CASE e.event \in {"reasoning", "data"}
      <4>1. n = [c EXCEPT !.private = TRUE]
        BY <3>1 DEF ProviderStream!Pushed
      <4> HIDE DEF n
      <4> QED BY <3>1, <4>1 DEF Collection
    <3>2. CASE e.event = "usage"
      <4>1. n = c
        BY <3>2 DEF ProviderStream!Pushed
      <4> HIDE DEF n
      <4> QED BY <3>2, <4>1 DEF Collection
    <3>3. CASE e.event = "end"
      <4>1. n = [c EXCEPT !.ended = TRUE]
        BY <3>3 DEF ProviderStream!Pushed
      <4> HIDE DEF n
      <4> QED BY <3>3, <4>1 DEF Collection
    <3>4. CASE e.event = "finish"
      <4>1. n = [c EXCEPT !.finish = e.reason]
        BY <3>4 DEF ProviderStream!Pushed
      <4>2. e.reason \in Reasons
        BY <3>4, EventFields DEF Reasons
      <4> HIDE DEF n
      <4> QED BY <3>4, <4>1, <4>2 DEF Collection
    <3> QED BY <1>6, <3>1, <3>2, <3>3, <3>4
  <2> HIDE DEF n
  <2>3. Took(c, e, n)
    BY <1>3, <2>1, <2>2 DEF Took, ProviderStream!HasOutput
  <2> QED BY <2>3 DEF n
<1> QED BY <1>4, <1>5, <1>6, EventFields

\* Taking an event keeps the invariant.
LEMMA TakeStep ==
  ASSUME StreamInv, phase = "deliver", pending # <<>>,
         pending' = Tail(pending),
         taken' = taken + (IF Head(pending).event = "end" THEN 0 ELSE 1),
         \/ outcome' = "refused" /\ phase' = "over" /\ UNCHANGED collected
         \/ collected' = ProviderStream!Pushed(collected, Head(pending)) /\ UNCHANGED <<outcome, phase>>,
         UNCHANGED <<protocol, frames, decoder, failure, fence, produced>>
  PROVE  StreamInv'
<1> DEFINE e == Head(pending)
           t == Tail(pending)
<1>1. /\ pending \in Seq(StreamEvent) /\ collected \in Collection /\ produced \in Nat /\ taken \in Nat
      /\ outcome = "none"
  BY DEF StreamInv, StreamTypes
<1>2. Follows(pending, e, t)
  BY <1>1, FollowsIs
<1>3. /\ pending' = t /\ taken' = taken + (IF e.event = "end" THEN 0 ELSE 1)
      /\ \/ outcome' = "refused" /\ phase' = "over" /\ collected' = collected
         \/ collected' = ProviderStream!Pushed(collected, e) /\ outcome' = "none" /\ phase' = "deliver"
  BY <1>1
<1> HIDE DEF e, t
<1>4. e \in StreamEvent /\ t \in Seq(StreamEvent)
  BY <1>2 DEF Follows
<1>5. Took(collected, e, ProviderStream!Pushed(collected, e))
  BY <1>1, <1>4, PushedIs
<1>6. collected' = collected \/ Took(collected, e, collected')
  BY <1>3, <1>5
<1>7. ReplyHonest'
  BY <1>3 DEF ReplyHonest, ProviderStream!ReplyHonest, ProviderStream!ReplyIsFinal, ProviderStream!RetryFence,
       ProviderStream!FactsBeforeFailure
<1>8. StreamTypes'
  <2>1. collected' \in Collection
    BY <1>1, <1>6 DEF Took
  <2>2. taken' \in Nat
    BY <1>1, <1>3
  <2> QED BY <1>3, <1>4, <2>1, <2>2 DEF StreamInv, StreamTypes
<1>9. Unshown'
  <2>1. Hidden(pending, collected) => Hidden(pending', collected')
    <3> SUFFICES ASSUME Quiet(pending), ~ProviderStream!HasOutput(collected)
                 PROVE  Quiet(t) /\ ~ProviderStream!HasOutput(collected')
      BY <1>3 DEF Hidden
    <3>1. Quiet(t) /\ e.event \in {"usage", "finish", "end"}
      BY <1>2 DEF Follows
    <3> QED BY <1>6, <3>1 DEF Took
  <2> QED BY <1>3, <2>1 DEF StreamInv, Unshown
<1>10. ASSUME protocol # "chat" PROVE Carries'
  <2>1. Carries
    BY <1>10 DEF StreamInv
  <2>2. phase' # "over" => produced = taken' + Len(ProviderStream!WithoutEnd(pending'))
    <3>1. produced = taken + Len(ProviderStream!WithoutEnd(pending))
      BY <2>1 DEF Carries
    <3>2. /\ Len(ProviderStream!WithoutEnd(pending))
               = (IF e.event = "end" THEN 0 ELSE 1) + Len(ProviderStream!WithoutEnd(t))
          /\ Len(ProviderStream!WithoutEnd(t)) \in Nat
      BY <1>2 DEF Follows
    <3> DEFINE k == IF e.event = "end" THEN 0 ELSE 1
               w == Len(ProviderStream!WithoutEnd(t))
    <3>3. /\ produced = taken + (k + w) /\ taken' = taken + k /\ taken \in Nat
          /\ k \in Nat /\ w \in Nat /\ Len(ProviderStream!WithoutEnd(pending')) = w
      <4>1. k \in Nat
        OBVIOUS
      <4>2. taken' = taken + k /\ pending' = t /\ taken \in Nat
        BY <1>1, <1>3
      <4> QED BY <3>1, <3>2, <4>1, <4>2
    <3> HIDE DEF k, w
    <3>4. produced = taken' + w
      BY <3>3
    <3> QED BY <3>3, <3>4
  <2>3. phase' # "over" /\ failure = "none" => Accounts(decoder, pending', collected')
    <3> SUFFICES ASSUME phase' # "over", failure = "none" PROVE Accounts(decoder, t, collected')
      BY <1>3
    <3>1. Accounts(decoder, pending, collected)
      BY <2>1 DEF Carries
    <3>2. Took(collected, e, collected')
      BY <1>3, <1>5
    <3>3. <<e>> \in Seq(StreamEvent)
      BY <1>4
    <3> DEFINE x == TextOf(<<e>>)
               y == TextOf(t)
    <3>4. x \in Seq(Fragment) /\ y \in Seq(Fragment)
      BY <1>4, <3>3, TextOfConcat
    <3>5. TextOf(pending) = x \o y /\ CallsOf(pending) = CallsOf(<<e>>) \cup CallsOf(t)
      BY <1>2 DEF Follows
    <3>6. collected'.text = collected.text \o x /\ collected'.seen = collected.seen \cup CallsOf(<<e>>)
      BY <3>2 DEF Took
    <3>7. collected.text \in Seq(Fragment)
      BY <1>1 DEF Collection
    <3> HIDE DEF x, y
    <3>9. (collected.text \o x) \o y = collected.text \o (x \o y)
      BY Zenon, <3>4, <3>7, FragmentsAssociate
    <3>10. decoder.text = collected'.text \o y
      BY <3>1, <3>5, <3>6, <3>9 DEF Accounts
    <3>11. ProviderStream!CallsIn(decoder) = collected'.seen \cup CallsOf(t)
      BY <3>1, <3>5, <3>6 DEF Accounts
    <3> QED BY <3>10, <3>11 DEF Accounts, y
  <2>4. Closes(decoder, pending', collected')
    <3>1. Closes(decoder, pending, collected)
      BY <2>1 DEF Carries
    <3>2. Closing(t) => Final(decoder)
      BY <1>2, <3>1 DEF Follows, Closes
    <3>3. collected'.finish \in {"stop", "tools"} => Final(decoder)
      <4>1. collected'.finish = collected.finish \/ (e.event = "finish" /\ collected'.finish = e.reason)
        BY <1>6 DEF Took
      <4>2. e.event = "finish" /\ e.reason # "length" => Final(decoder)
        BY <1>2, <3>1 DEF Follows, Closes
      <4> QED BY <3>1, <4>1, <4>2 DEF Closes
    <3> QED BY <1>3, <3>2, <3>3 DEF Closes
  <2>5. protocol = "messages" => InOrder(decoder)
    BY <2>1 DEF Carries
  <2> QED BY <2>2, <2>3, <2>4, <2>5 DEF Carries
<1> QED BY <1>7, <1>8, <1>9, <1>10 DEF StreamInv

\* The end of an attempt keeps the invariant when its outcome is honest.
LEMMA OverStep ==
  ASSUME StreamInv, phase = "deliver", phase' = "over", pending = <<>>,
         UNCHANGED <<protocol, decoder, failure, fence, produced, pending, collected, taken>>,
         ReplyHonest'
  PROVE  StreamInv'
<1>1. StreamTypes'
  BY DEF StreamInv, StreamTypes
<1>2. Unshown'
  BY DEF StreamInv, Unshown
<1>3. protocol # "chat" => Carries'
  BY DEF StreamInv, Carries
<1> QED BY <1>1, <1>2, <1>3 DEF StreamInv

\* Delivery keeps the invariant.
LEMMA DeliverStep == StreamInv /\ ProviderStream!Deliver => StreamInv'
<1> SUFFICES ASSUME StreamInv, ProviderStream!Deliver PROVE StreamInv'
  OBVIOUS
<1>1. phase = "deliver" /\ UNCHANGED <<protocol, frames, decoder, failure, fence, produced>>
  BY DEF ProviderStream!Deliver
<1>2. failure \in {"none", "failed", "failed after output"} /\ collected \in Collection /\ produced \in Nat /\ taken \in Nat
  BY DEF StreamInv, StreamTypes, Failures
<1>3. ASSUME pending # <<>>,
             pending' = Tail(pending),
             taken' = taken + (IF Head(pending).event = "end" THEN 0 ELSE 1),
             IF ProviderStream!Refused(collected, Head(pending))
             THEN outcome' = "refused" /\ phase' = "over" /\ UNCHANGED collected
             ELSE collected' = ProviderStream!Pushed(collected, Head(pending)) /\ UNCHANGED <<outcome, phase>>
      PROVE  StreamInv'
  BY <1>1, <1>3, TakeStep
<1>4. pending = <<>> /\ protocol # "chat" => produced = taken
  <2> SUFFICES ASSUME pending = <<>>, protocol # "chat" PROVE produced = taken
    OBVIOUS
  <2>1. produced = taken + Len(ProviderStream!WithoutEnd(pending))
    BY <1>1 DEF StreamInv, Carries
  <2>2. ProviderStream!WithoutEnd(pending) = <<>> /\ Len(<<>>) = 0
    BY NoEvents
  <2>3. produced = taken + 0
    BY <2>1, <2>2
  <2>4. taken + 0 = taken
    <3> SUFFICES ASSUME NEW n \in Nat PROVE n + 0 = n
      BY <1>2
    <3> QED OBVIOUS
  <2> QED BY <2>3, <2>4
<1>5. ASSUME pending = <<>>, failure # "none", outcome' = failure, phase' = "over",
             UNCHANGED <<pending, collected, taken>>
      PROVE  StreamInv'
  <2>1. failure = "failed" => ~ProviderStream!HasOutput(collected)
    BY DEF StreamInv, Unshown, Hidden
  <2>2. ReplyHonest'
    BY <1>1, <1>2, <1>4, <1>5, <2>1 DEF ReplyHonest, ProviderStream!ReplyHonest, ProviderStream!ReplyIsFinal,
         ProviderStream!RetryFence, ProviderStream!FactsBeforeFailure
  <2> QED BY <1>1, <1>5, <2>2, OverStep
<1>6. ASSUME pending = <<>>, failure = "none", decoder.ended,
             outcome' = (IF ProviderStream!Acceptable(collected) THEN "reply" ELSE "refused"), phase' = "over",
             UNCHANGED <<pending, collected, taken>>
      PROVE  StreamInv'
  <2>1. CASE ~ProviderStream!Acceptable(collected)
    <3>1. outcome' = "refused"
      BY <1>6, <2>1
    <3>2. ReplyHonest'
      BY <3>1 DEF ReplyHonest, ProviderStream!ReplyHonest, ProviderStream!ReplyIsFinal,
         ProviderStream!RetryFence, ProviderStream!FactsBeforeFailure
    <3> QED BY <1>1, <1>6, <3>2, OverStep
  <2>2. CASE ProviderStream!Acceptable(collected)
    <3>1. outcome' = "reply"
      BY <1>6, <2>2
    <3>2. collected.finish \in {"stop", "tools"} /\ \A i \in collected.seen : Len(collected.calls[i]) = Whole
      BY <2>2 DEF ProviderStream!Acceptable
    <3>3. ASSUME protocol # "chat"
          PROVE  /\ ProviderStream!AllDone(decoder)
                 /\ collected.text = ProviderStream!ItemText(decoder)
                 /\ collected.seen = ProviderStream!CallsIn(decoder)
      <4>1. Carries
        BY <3>3 DEF StreamInv
      <4>2. Final(decoder)
        BY <3>2, <4>1 DEF Carries, Closes
      <4>3. /\ decoder.text = collected.text \o TextOf(pending)
            /\ ProviderStream!CallsIn(decoder) = collected.seen \cup CallsOf(pending)
        BY <1>1, <1>6, <4>1 DEF Carries, Accounts
      <4>4. TextOf(pending) = <<>> /\ CallsOf(pending) = {}
        BY <1>6, NoEvents
      <4>5. collected.text \o <<>> = collected.text
        <5>1. collected.text \in Seq(Fragment)
          BY <1>2 DEF Collection
        <5> QED BY <5>1, ConcatEmptySeq
      <4> QED BY <4>2, <4>3, <4>4, <4>5 DEF Final
    <3>4. ProviderStream!ReplyIsFinal'
      <4>1. /\ (ProviderStream!AllDone(decoder))' = ProviderStream!AllDone(decoder)
            /\ (ProviderStream!ItemText(decoder))' = ProviderStream!ItemText(decoder)
            /\ (ProviderStream!CallsIn(decoder))' = ProviderStream!CallsIn(decoder)
        BY <1>1 DEF ProviderStream!AllDone, ProviderStream!ItemText, ProviderStream!CallsIn
      <4> QED BY <1>1, <1>6, <3>2, <3>3, <4>1 DEF ProviderStream!ReplyIsFinal, ProviderStream!NoFailure
    <3>5. ReplyHonest'
      BY <3>1, <3>4 DEF ReplyHonest, ProviderStream!ReplyHonest, ProviderStream!RetryFence,
         ProviderStream!FactsBeforeFailure
    <3> QED BY <1>1, <1>6, <3>5, OverStep
  <2> QED BY <2>1, <2>2
<1> QED BY <1>3, <1>5, <1>6 DEF ProviderStream!Deliver, ProviderStream!NoFailure

\* Every step of the attempt keeps the invariant.
LEMMA AttemptStep == StreamInv /\ ProviderStream!Next => StreamInv'
BY ResponseStep, ReceiveStep, MalformedStep, ChunkEndStep, DeliverStep, IngestStep DEF ProviderStream!Next

\* Every step of the server keeps the invariant.
LEMMA StreamStep == StreamInv /\ [AllNext]_allVars => StreamInv'
<1> SUFFICES ASSUME StreamInv, [AllNext]_allVars PROVE StreamInv'
  OBVIOUS
<1>1. ASSUME UNCHANGED streamVars PROVE StreamInv'
  <2>1. UNCHANGED <<protocol, phase, frames, decoder, pending, failure, fence, collected, outcome, produced, taken>>
    BY <1>1 DEF streamVars
  <2>2. StreamTypes'
    BY <2>1 DEF StreamInv, StreamTypes
  <2>3. Unshown'
    BY <2>1 DEF StreamInv, Unshown
  <2>4. protocol # "chat" => Carries'
    BY <2>1 DEF StreamInv, Carries
  <2>5. ReplyHonest'
    BY <2>1 DEF StreamInv, ReplyHonest, ProviderStream!ReplyHonest, ProviderStream!ReplyIsFinal,
         ProviderStream!RetryFence, ProviderStream!FactsBeforeFailure, ProviderStream!AllDone,
         ProviderStream!ItemText, ProviderStream!CallsIn, ProviderStream!HasOutput
  <2> QED BY <2>1, <2>2, <2>3, <2>4, <2>5 DEF StreamInv
<1>2. UNCHANGED streamVars \/ ProviderStream!Next
  BY Zenon DEF AllNext, OfHost, OfServices, Rest, allVars, serviceVars
<1> QED BY <1>1, <1>2, AttemptStep

\* In every behaviour of the server a reply is the whole of what the provider finally said, and a
\* failed attempt says truly whether any of it was shown (providers/src decoders and native.rs,
\* runtime/src/model.rs Collected).
THEOREM ReplyHonestHolds == AllSpec => []ReplyHonest
<1>1. StreamInv => ReplyHonest
  BY DEF StreamInv
<1> QED
  BY <1>1, StreamInit, StreamStep, PTL DEF AllSpec
===============================================================================
