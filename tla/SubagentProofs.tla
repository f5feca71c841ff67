--------------------------- MODULE SubagentProofs ---------------------------
(***************************************************************************)
(* Theorems about Subagent: children are supervised, and a wait that       *)
(* sleeps has a wake-up coming, for any number of sessions, activations    *)
(* and permits and any depth.                                              *)
(*                                                                         *)
(* Askers carries the race of finish and shutdown with an admission on its *)
(* way: a run that asks is registered or stopped, so that, once finish has *)
(* taken the registration away or shutdown has stopped it, Admit refuses;  *)
(* and since both collect with the admission lock free, what they find in  *)
(* `active` is everything there will be (Collected).  Activity says why    *)
(* `active` is enough: an admission found no activation on its session and *)
(* holds the lock until the child is entered.  A turn saved as running is  *)
(* an activation that watches or the admission that saved it, so that a    *)
(* wait which reads `running` sleeps for somebody who will tell it.        *)
(***************************************************************************)
EXTENDS Subagent, FiniteSetTheorems, TLAPS

\* The states of a run, and those of an admission that has not been given up.
RunRecords == [pc : {"none", "driving", "finishing", "settling", "reported"}, owner : 0..MaxRuns,
               child : Children \union {0}, depth : Nat, registered : BOOLEAN, stop : BOOLEAN,
               cancelled : BOOLEAN, kids : SUBSET Runs, status : {"none", "completed", "failed"},
               monitor : {"none", "watching", "released", "removed", "done"}]
Admissions == [pc : {"create", "prepare", "check", "start", "refused"}, by : Runs, child : Children]
\* The turn is saved, and the child not started yet.
Saved == {"check", "start", "refused"}
\* A monitor that has not taken its entry out of `active`.
Holding == {"watching", "released"}

-----------------------------------------------------------------------------
(* The inductive invariant                                                 *)

Types ==
    /\ run \in [Runs -> RunRecords]
    /\ doc \in [Children -> [status : {"absent", "idle", "running", "ended"}, owner : Children \union {0},
                             depth : Nat, refused : BOOLEAN]]
    /\ active \in [Children -> 0..MaxRuns] /\ permits \in 0..MaxParallel
    /\ asked \in {None} \union [by : Runs, child : Children]
    /\ adm \in {Free} \union Admissions
    /\ closing \in [pc : {"no", "closed", "stopped", "collected", "done"}, kids : SUBSET Runs]
    /\ waiter \in [pc : {"idle", "view", "look", "asleep", "left", "returned"}, by : 0..MaxRuns,
                   child : Children \union {0}, woken : BOOLEAN,
                   status : {"none", "absent", "idle", "running", "ended"}]

\* A run that was started has an owner started before it, a child session and a monitor; the root's
\* run has none of them; and a monitor has seen its run end before it lets go.
Started ==
    /\ \A q \in Runs : run[q].pc = "none" => run[q].owner = 0 /\ run[q].monitor = "none"
    /\ run[RootRun].pc # "none" /\ run[RootRun].monitor = "none" /\ run[RootRun].owner = 0
    /\ \A q \in Runs : /\ run[q].owner < q
                       /\ (run[q].pc # "none" /\ q # RootRun) =>
                           /\ run[q].child \in Children /\ run[q].monitor # "none" /\ run[q].owner # 0
                           /\ doc[run[q].child].status # "absent"
                       /\ run[q].monitor \in {"released", "removed", "done"} => run[q].pc = "reported"

\* Whoever has a permit.
Watching == {q \in Runs : run[q].monitor = "watching"}
Permits == permits = Cardinality(Watching) + (IF adm = Free THEN 0 ELSE 1)

\* A session has one activation that holds it, the one `active` names; an admission has found none.
Activity ==
    /\ \A q \in Runs : run[q].monitor \in Holding => active[run[q].child] = q
    /\ \A c \in Children : active[c] # 0 =>
        run[active[c]].child = c /\ run[active[c]].monitor \notin {"none", "removed", "done"}
    /\ adm # Free => \A q \in Runs : run[q].monitor \in Holding => run[q].child # adm.child
    /\ adm.pc \in {"prepare"} \union Saved => doc[adm.child].status # "absent"
    /\ \A c \in Children : doc[c].status = "running" =>
        \/ \E q \in Runs : run[q].child = c /\ run[q].monitor = "watching" /\ run[q].pc # "reported"
        \/ (adm.pc \in Saved /\ adm.child = c)

\* A run that asks is registered or stopped: once it collects, it cannot be admitted again.
Askers ==
    /\ \A r \in Runs : asked.by = r \/ adm.by = r =>
        run[r].pc # "none" /\ (run[r].stop \/ (run[r].registered /\ run[r].pc = "driving"))
    /\ \A r \in Runs : run[r].registered => run[r].pc = "driving"
    /\ \A r \in Runs : (run[r].pc = "settling" \/ (run[r].pc = "reported" /\ run[r].status = "completed")) => adm.by # r
    /\ closing.pc \in {"stopped", "collected", "done"} =>
        \A r \in Runs : asked.by = r \/ adm.by = r => run[r].stop
    /\ closing.pc \in {"collected", "done"} => adm = Free

\* What a run collected is all it started, unless it ended before.
Collected ==
    /\ \A r \in Runs : (run[r].pc = "settling" /\ run[r].status = "completed") =>
        \A q \in Runs : run[q].owner = r =>
            run[q].pc = "reported" /\ (run[q].monitor \in Holding => q \in run[r].kids)
    /\ CompletedLeavesNone
    /\ closing.pc \in {"collected", "done"} =>
        \A q \in Runs : run[q].monitor \in Holding => closing.pc = "collected" /\ q \in closing.kids

\* Whoever sleeps, or is about to, is woken by somebody.
Expected(c) ==
    \/ \E q \in Runs : run[q].child = c /\ run[q].monitor \notin {"none", "done"}
    \/ (adm.pc \in Saved /\ adm.child = c)
    \/ doc[c].refused
Wakeups ==
    /\ waiter.pc \in {"view", "look", "asleep"} => waiter.child \in Children
    /\ (waiter.pc = "look" /\ waiter.status = "running" /\ ~waiter.woken) => Expected(waiter.child)
    /\ (waiter.pc = "asleep" /\ ~waiter.woken) => Expected(waiter.child)

SubagentInv == Types /\ Started /\ Permits /\ Activity /\ Askers /\ Collected /\ Wakeups
-----------------------------------------------------------------------------
(* What steps leave as it was.                                             *)

\* A step that starts and ends no run, and takes and gives no permit, session or entry.
LEMMA CoreKept ==
    ASSUME SubagentInv,
           \A q \in Runs : /\ run'[q].owner = run[q].owner /\ run'[q].child = run[q].child
                           /\ run'[q].monitor = run[q].monitor
                           /\ run'[q].pc = "none" <=> run[q].pc = "none"
                           /\ run'[q].pc = "reported" <=> run[q].pc = "reported",
           doc' = doc, active' = active, permits' = permits, adm' = adm
    PROVE  Started' /\ Permits' /\ Activity'
<1> USE BoundAssumption
<1>0. RootRun \in Runs
  BY DEF RootRun, Runs
<1>1. Started'
  BY <1>0 DEF SubagentInv, Started
<1>2. Permits'
  <2>1. Watching' = Watching
    BY DEF Watching
  <2> QED BY <2>1 DEF SubagentInv, Permits
<1>3. \A c \in Children : active[c] # 0 => active[c] \in Runs
  BY DEF SubagentInv, Types, Runs
<1>4. Activity'
  BY <1>3 DEF SubagentInv, Activity
<1> QED BY <1>1, <1>2, <1>4

\* A step that changes no run's phase or verdict, starts none, and holds nothing new.
LEMMA CollectedKept ==
    ASSUME SubagentInv,
           \A q \in Runs : /\ run'[q].pc = run[q].pc /\ run'[q].status = run[q].status
                           /\ run'[q].owner = run[q].owner /\ run'[q].kids = run[q].kids
                           /\ run'[q].monitor \in Holding => run[q].monitor \in Holding,
           closing'.pc \in {"collected", "done"} => closing' = closing
    PROVE  Collected'
<1>1. \A r \in Runs : (run'[r].pc = "settling" /\ run'[r].status = "completed") =>
        \A q \in Runs : run'[q].owner = r =>
            run'[q].pc = "reported" /\ (run'[q].monitor \in Holding => q \in run'[r].kids)
  BY DEF SubagentInv, Collected
<1>2. CompletedLeavesNone'
  BY DEF SubagentInv, Collected, CompletedLeavesNone, Holding
<1>3. closing'.pc \in {"collected", "done"} =>
        \A q \in Runs : run'[q].monitor \in Holding => closing'.pc = "collected" /\ q \in closing'.kids
  BY DEF SubagentInv, Collected
<1> QED BY <1>1, <1>2, <1>3 DEF Collected

\* A step that admits nobody and takes no registration away.
LEMMA AskersKept ==
    ASSUME SubagentInv,
           \A r \in Runs : /\ run'[r].pc = run[r].pc /\ run'[r].status = run[r].status
                           /\ run'[r].registered = run[r].registered /\ (run[r].stop => run'[r].stop),
           asked' \in {asked, None}, adm'.by \in {adm.by, 0}, adm = Free => adm' = Free,
           closing'.pc = closing.pc
    PROVE  Askers'
<1>1. \A r \in Runs : (asked'.by = r => asked.by = r) /\ (adm'.by = r => adm.by = r)
  BY DEF None, Runs
<1> QED BY <1>1 DEF SubagentInv, Askers

\* A step that settles no child, refuses none and starts none.
LEMMA WakeupsKept ==
    ASSUME SubagentInv, waiter' \in {waiter, Wake},
           \A q \in Runs : /\ run'[q].child = run[q].child
                           /\ run[q].monitor \notin {"none", "done"} => run'[q].monitor \notin {"none", "done"},
           (adm.pc \in Saved /\ waiter' = waiter) => adm'.pc \in Saved /\ adm'.child = adm.child,
           \A c \in Children : doc[c].refused => doc'[c].refused
    PROVE  Wakeups'
<1>0. waiter \in [pc : {"idle", "view", "look", "asleep", "left", "returned"}, by : 0..MaxRuns,
                   child : Children \union {0}, woken : BOOLEAN,
                   status : {"none", "absent", "idle", "running", "ended"}]
  BY DEF SubagentInv, Types
<1>1. CASE waiter' = Wake
  <2>1. /\ Wake.pc = waiter.pc /\ Wake.child = waiter.child /\ Wake.status = waiter.status
        /\ waiter.pc # "idle" => Wake.woken
    BY <1>0 DEF Wake
  <2> QED BY <1>1, <2>1 DEF SubagentInv, Wakeups
<1>2. CASE waiter' = waiter
  <2>1. ASSUME NEW c \in Children, Expected(c) PROVE Expected(c)'
    BY <2>1, <1>2 DEF Expected
  <2> QED BY <1>2, <2>1 DEF SubagentInv, Wakeups
<1> QED BY <1>1, <1>2

\* Runs are finitely many.
LEMMA RunsFinite ==
    ASSUME NEW S \in SUBSET Runs
    PROVE  IsFiniteSet(S) /\ Cardinality(S) \in Nat
<1>1. IsFiniteSet(Runs)
  BY BoundAssumption, FS_Interval DEF Runs
<1> QED BY <1>1, FS_Subset, FS_CardinalityType

\* Cancelling changes nothing else of a run.
LEMMA CancelledKeeps ==
    ASSUME Types, NEW rs
    PROVE  /\ Cancelled(rs) \in [Runs -> RunRecords]
           /\ \A q \in Runs : LET k == Cancelled(rs)[q] IN
                /\ k.pc = run[q].pc /\ k.owner = run[q].owner /\ k.child = run[q].child /\ k.depth = run[q].depth
                /\ k.registered = run[q].registered /\ k.stop = run[q].stop /\ k.kids = run[q].kids
                /\ k.status = run[q].status /\ k.monitor = run[q].monitor
<1>1. ASSUME NEW q \in Runs
      PROVE  Cancelled(rs)[q] \in {run[q], [run[q] EXCEPT !.cancelled = TRUE]}
  BY DEF Cancelled
<1>2. ASSUME NEW q \in Runs
      PROVE  LET k == Cancelled(rs)[q] IN
                /\ k \in RunRecords
                /\ k.pc = run[q].pc /\ k.owner = run[q].owner /\ k.child = run[q].child /\ k.depth = run[q].depth
                /\ k.registered = run[q].registered /\ k.stop = run[q].stop /\ k.kids = run[q].kids
                /\ k.status = run[q].status /\ k.monitor = run[q].monitor
  <2>1. run[q] \in RunRecords
    BY DEF Types
  <2> QED BY ZenonT(40), <1>1, <2>1 DEF RunRecords
<1>3. Cancelled(rs) = [q \in Runs |-> Cancelled(rs)[q]]
  BY DEF Cancelled
<1> HIDE DEF Cancelled
<1> QED BY <1>2, <1>3

\* A wait's own step changes only the wait.
LEMMA OnlyWaiter ==
    ASSUME SubagentInv, UNCHANGED <<run, doc, active, permits, asked, adm, closing>>,
           waiter' \in [pc : {"idle", "view", "look", "asleep", "left", "returned"}, by : 0..MaxRuns,
                        child : Children \union {0}, woken : BOOLEAN,
                        status : {"none", "absent", "idle", "running", "ended"}],
           Wakeups'
    PROVE  SubagentInv'
<1>1. Types'
  BY DEF SubagentInv, Types
<1>2. Started' /\ Permits' /\ Activity'
  BY CoreKept
<1>3. Askers' /\ Collected'
  BY AskersKept, CollectedKept
<1> QED BY <1>1, <1>2, <1>3 DEF SubagentInv

\* Whoever is told looks again.
LEMMA WokenKept ==
    ASSUME SubagentInv, waiter' = Wake
    PROVE  Wakeups'
<1>0. waiter \in [pc : {"idle", "view", "look", "asleep", "left", "returned"}, by : 0..MaxRuns,
                   child : Children \union {0}, woken : BOOLEAN,
                   status : {"none", "absent", "idle", "running", "ended"}]
  BY DEF SubagentInv, Types
<1>1. /\ Wake.pc = waiter.pc /\ Wake.child = waiter.child /\ Wake.status = waiter.status
      /\ waiter.pc # "idle" => Wake.woken
  BY <1>0 DEF Wake
<1> QED BY <1>1 DEF SubagentInv, Wakeups

\* The wait's record after the service has changed.
LEMMA WokenTyped ==
    ASSUME Types
    PROVE  Wake \in [pc : {"idle", "view", "look", "asleep", "left", "returned"}, by : 0..MaxRuns,
                     child : Children \union {0}, woken : BOOLEAN,
                     status : {"none", "absent", "idle", "running", "ended"}]
<1> DEFINE b == waiter.pc # "idle"
<1>1. b \in BOOLEAN
  BY DEF b
<1>2. Wake = [waiter EXCEPT !.woken = b]
  BY DEF Wake
<1> HIDE DEF b
<1> QED BY <1>1, <1>2 DEF Types

-----------------------------------------------------------------------------
(* The wait.                                                               *)

\* wait passes its checks and subscribes.
LEMMA StepWaitBegin == ASSUME SubagentInv, NEW r \in Runs, NEW c \in Children, WaitBegin(r, c) PROVE SubagentInv'
<1>1. UNCHANGED <<run, doc, active, permits, asked, adm, closing>>
  BY DEF WaitBegin
<1>2. waiter' = [pc |-> "view", by |-> r, child |-> c, woken |-> FALSE, status |-> "none"]
  BY DEF WaitBegin
<1>3. r \in 0..MaxRuns
  BY BoundAssumption DEF Runs
<1>4. Wakeups'
  BY <1>2 DEF Wakeups
<1> QED BY <1>1, <1>2, <1>3, <1>4, OnlyWaiter

\* wait reads the saved session: a running one has somebody who will change it.
LEMMA StepWaitViews == ASSUME SubagentInv, WaitViews PROVE SubagentInv'
<1>1. UNCHANGED <<run, doc, active, permits, asked, adm, closing>>
  BY DEF WaitViews
<1>0. Types
  BY DEF SubagentInv
<1>2. waiter.child \in Children
  BY DEF SubagentInv, Wakeups, WaitViews
<1>3. doc[waiter.child].status \in {"absent", "idle", "running", "ended"}
  BY <1>0, <1>2 DEF Types
<1> DEFINE s == doc[waiter.child].status
<1>4. s = "running" => Expected(waiter.child)
  <2>1. s = "running" => \/ \E q \in Runs : run[q].child = waiter.child /\ run[q].monitor = "watching"
                         \/ (adm.pc \in Saved /\ adm.child = waiter.child)
    BY <1>2 DEF SubagentInv, Activity
  <2> QED BY <2>1 DEF Expected
<1>5. waiter' = [waiter EXCEPT !.pc = "look", !.status = s]
  BY DEF WaitViews
<1>6a. waiter'.child = waiter.child /\ waiter'.pc = "look" /\ waiter'.status = s
  BY <1>5, <1>0 DEF Types
<1>6b. Expected(waiter.child) => Expected(waiter.child)'
  BY <1>1, <1>6a DEF Expected
<1> HIDE DEF s
<1>7. waiter' \in [pc : {"idle", "view", "look", "asleep", "left", "returned"}, by : 0..MaxRuns,
                   child : Children \union {0}, woken : BOOLEAN,
                   status : {"none", "absent", "idle", "running", "ended"}]
  <2>1. s \in {"absent", "idle", "running", "ended"}
    BY <1>3 DEF s
  <2> QED BY <1>5, <1>0, <2>1 DEF Types
<1>8. Wakeups'
  BY <1>2, <1>4, <1>6a, <1>6b DEF Wakeups
<1> QED BY <1>1, <1>7, <1>8, OnlyWaiter

\* wait reads `active` and sleeps: the activation it saw has still to settle.
LEMMA StepWaitLooks == ASSUME SubagentInv, WaitLooks PROVE SubagentInv'
<1>1. UNCHANGED <<run, doc, active, permits, asked, adm, closing>>
  BY DEF WaitLooks
<1>0. Types
  BY DEF SubagentInv
<1>2. waiter.child \in Children
  BY DEF SubagentInv, Wakeups, WaitLooks
<1> DEFINE p == IF Settling(waiter.child) \/ waiter.status = "running" THEN "asleep" ELSE "returned"
<1>3. waiter' = [waiter EXCEPT !.pc = p]
  BY DEF WaitLooks
<1>4. p \in {"asleep", "returned"}
  OBVIOUS
<1>5. p = "asleep" => waiter.woken \/ Expected(waiter.child)
  <2>1. CASE waiter.status = "running"
    BY <2>1 DEF SubagentInv, Wakeups, WaitLooks
  <2>2. CASE Settling(waiter.child)
    <3>1. active[waiter.child] \in Runs
      BY <2>2, <1>0, <1>2 DEF Settling, Types, Runs
    <3>2. run[active[waiter.child]].child = waiter.child /\ run[active[waiter.child]].monitor \notin {"none", "done"}
      BY <2>2, <1>2 DEF Settling, SubagentInv, Activity
    <3> QED BY <3>1, <3>2 DEF Expected
  <2> QED BY <2>1, <2>2
<1> HIDE DEF p
<1>6. waiter'.child = waiter.child /\ waiter'.pc = p /\ waiter'.woken = waiter.woken
  BY <1>3, <1>0 DEF Types
<1>7. Expected(waiter.child) => Expected(waiter.child)'
  BY <1>1, <1>6 DEF Expected
<1>8. waiter' \in [pc : {"idle", "view", "look", "asleep", "left", "returned"}, by : 0..MaxRuns,
                   child : Children \union {0}, woken : BOOLEAN,
                   status : {"none", "absent", "idle", "running", "ended"}]
  BY <1>3, <1>0, <1>4 DEF Types
<1>9. Wakeups'
  BY <1>2, <1>4, <1>5, <1>6, <1>7 DEF Wakeups
<1> QED BY <1>1, <1>8, <1>9, OnlyWaiter

\* wait is woken, and goes round again.
LEMMA StepWaitWakes == ASSUME SubagentInv, WaitWakes PROVE SubagentInv'
<1>1. UNCHANGED <<run, doc, active, permits, asked, adm, closing>>
  BY DEF WaitWakes
<1>0. Types
  BY DEF SubagentInv
<1>2. waiter.child \in Children
  BY DEF SubagentInv, Wakeups, WaitWakes
<1>3. waiter'.child = waiter.child /\ waiter'.pc = "view"
  BY <1>0 DEF Types, WaitWakes
<1>4. Wakeups'
  BY <1>2, <1>3 DEF Wakeups
<1>5. waiter' \in [pc : {"idle", "view", "look", "asleep", "left", "returned"}, by : 0..MaxRuns,
                   child : Children \union {0}, woken : BOOLEAN,
                   status : {"none", "absent", "idle", "running", "ended"}]
  BY <1>0 DEF Types, WaitWakes
<1> QED BY <1>1, <1>4, <1>5, OnlyWaiter

\* wait times out or is stopped.
LEMMA StepWaitLeaves == ASSUME SubagentInv, WaitLeaves PROVE SubagentInv'
<1>1. UNCHANGED <<run, doc, active, permits, asked, adm, closing>>
  BY DEF WaitLeaves
<1>0. Types
  BY DEF SubagentInv
<1>3. waiter'.pc = "left"
  BY <1>0 DEF Types, WaitLeaves
<1>4. Wakeups'
  BY <1>3 DEF Wakeups
<1>5. waiter' \in [pc : {"idle", "view", "look", "asleep", "left", "returned"}, by : 0..MaxRuns,
                   child : Children \union {0}, woken : BOOLEAN,
                   status : {"none", "absent", "idle", "running", "ended"}]
  BY <1>0 DEF Types, WaitLeaves
<1> QED BY <1>1, <1>4, <1>5, OnlyWaiter

-----------------------------------------------------------------------------
(* Registration, cancellation and requests.                                *)

\* capture registers the run that drives.
LEMMA StepCapture == ASSUME SubagentInv, NEW r \in Runs, Capture(r) PROVE SubagentInv'
<1>1. UNCHANGED <<doc, active, permits, asked, adm, closing, waiter>>
  BY DEF Capture
<1>2. run' = [run EXCEPT ![r].registered = TRUE] /\ run[r].pc = "driving"
  BY DEF Capture
<1>3. run \in [Runs -> RunRecords]
  BY DEF SubagentInv, Types
<1>4. \A q \in Runs : /\ run'[q].owner = run[q].owner /\ run'[q].child = run[q].child
                      /\ run'[q].monitor = run[q].monitor /\ run'[q].pc = run[q].pc
                      /\ run'[q].status = run[q].status /\ run'[q].kids = run[q].kids
                      /\ run'[q].stop = run[q].stop
                      /\ run'[q].registered = IF q = r THEN TRUE ELSE run[q].registered
  BY <1>2, <1>3 DEF RunRecords
<1>5. run' \in [Runs -> RunRecords]
  BY ZenonT(40), <1>2, <1>3 DEF RunRecords
<1>6. Types'
  BY <1>1, <1>5 DEF SubagentInv, Types
<1>7. Started' /\ Permits' /\ Activity'
  BY <1>1, <1>4, CoreKept
<1>8. Collected' /\ Wakeups'
  BY <1>1, <1>4, CollectedKept, WakeupsKept
<1>9. Askers'
  BY <1>1, <1>2, <1>4 DEF SubagentInv, Askers
<1> QED BY <1>6, <1>7, <1>8, <1>9 DEF SubagentInv

\* Cancelling runs disturbs nothing.
LEMMA OnlyCancelled ==
    ASSUME SubagentInv, NEW rs, run' = Cancelled(rs),
           UNCHANGED <<doc, active, permits, asked, adm, closing, waiter>>
    PROVE  SubagentInv'
<1>0. Types
  BY DEF SubagentInv
<1>1. /\ run' \in [Runs -> RunRecords]
      /\ \A q \in Runs : /\ run'[q].owner = run[q].owner /\ run'[q].child = run[q].child
                         /\ run'[q].monitor = run[q].monitor /\ run'[q].pc = run[q].pc
                         /\ run'[q].status = run[q].status /\ run'[q].kids = run[q].kids
                         /\ run'[q].stop = run[q].stop /\ run'[q].registered = run[q].registered
  BY <1>0, CancelledKeeps
<1>6. Types'
  BY <1>1, <1>0 DEF Types
<1>7. Started' /\ Permits' /\ Activity'
  BY <1>1, CoreKept
<1>8. Collected' /\ Wakeups' /\ Askers'
  BY <1>1, CollectedKept, WakeupsKept, AskersKept
<1> QED BY <1>6, <1>7, <1>8 DEF SubagentInv

\* A run is cancelled from outside.
LEMMA StepCancelRun == ASSUME SubagentInv, NEW r \in Runs, CancelRun(r) PROVE SubagentInv'
<1>1. run' = Cancelled({r}) /\ UNCHANGED <<doc, active, permits, asked, adm, closing, waiter>>
  BY DEF CancelRun
<1> QED BY <1>1, OnlyCancelled

\* A monitor passes the parent's stop on.
LEMMA StepMonitorStops == ASSUME SubagentInv, NEW q \in Runs, MonitorStops(q) PROVE SubagentInv'
<1>1. run' = Cancelled({q}) /\ UNCHANGED <<doc, active, permits, asked, adm, closing, waiter>>
  BY DEF MonitorStops
<1> QED BY <1>1, OnlyCancelled

\* A registered run asks for a child.
LEMMA StepAsk == ASSUME SubagentInv, NEW r \in Runs, NEW c \in Children, Ask(r, c) PROVE SubagentInv'
<1>1. UNCHANGED <<run, doc, active, permits, adm, closing, waiter>>
  BY DEF Ask
<1>2. asked' = [by |-> r, child |-> c] /\ Reachable(r)
  BY DEF Ask
<1>6. Types'
  BY <1>1, <1>2 DEF SubagentInv, Types
<1>7. Started' /\ Permits' /\ Activity'
  BY <1>1, CoreKept
<1>8. Collected' /\ Wakeups'
  BY <1>1, CollectedKept, WakeupsKept
<1>9. Askers'
  BY <1>1, <1>2 DEF SubagentInv, Askers, Reachable
<1> QED BY <1>6, <1>7, <1>8, <1>9 DEF SubagentInv

-----------------------------------------------------------------------------
(* Admission.                                                              *)

\* A child that was never created has no activation.
LEMMA AbsentFree ==
    ASSUME SubagentInv, NEW c \in Children, doc[c].status = "absent" \/ active[c] = 0,
           NEW q \in Runs, run[q].monitor \in Holding
    PROVE  run[q].child # c
<1>1. run[q].pc # "none" /\ q # RootRun
  BY DEF SubagentInv, Started, Holding
<1>2. run[q].child \in Children /\ doc[run[q].child].status # "absent"
  BY <1>1 DEF SubagentInv, Started
<1>3. active[run[q].child] = q /\ q # 0
  BY DEF SubagentInv, Activity, Runs
<1> QED BY <1>2, <1>3

\* Admit gives a permit to a run that is not stopped, for a child nobody holds; or nothing.
LEMMA StepAdmit == ASSUME SubagentInv, Admit PROVE SubagentInv'
<1>0. Types
  BY DEF SubagentInv
<1> DEFINE r == asked.by
           c == asked.child
           ok == /\ ParentOk(r) /\ permits < MaxParallel
                 /\ SpawnFits(r, c) \/ FollowupFits(r, c)
           p == IF doc[c].status = "absent" THEN "create" ELSE "prepare"
<1>1. UNCHANGED <<run, doc, active, closing, waiter>> /\ asked' = None /\ adm = Free
  BY DEF Admit
<1>2. r \in Runs /\ c \in Children /\ asked = [by |-> r, child |-> c]
  BY <1>0 DEF Admit, Types
<1>3. CASE ~ok
  <2>1. permits' = permits /\ adm' = adm
    BY <1>3 DEF Admit
  <2>2. Types'
    BY <2>1, <1>1, <1>0 DEF Types
  <2>3. Started' /\ Permits' /\ Activity'
    BY <1>1, <2>1, CoreKept
  <2>4. Collected' /\ Wakeups' /\ Askers'
    BY <1>1, <2>1, CollectedKept, WakeupsKept, AskersKept
  <2> QED BY <2>2, <2>3, <2>4 DEF SubagentInv
<1>4. CASE ok
  <2>1. permits' = permits + 1 /\ adm' = [pc |-> p, by |-> r, child |-> c]
    BY <1>4 DEF Admit
  <2>2. p \in {"create", "prepare"} /\ (p = "prepare" => doc[c].status # "absent")
    OBVIOUS
  <2>3. ~run[r].stop /\ permits < MaxParallel /\ (doc[c].status = "absent" \/ active[c] = 0)
    BY <1>4 DEF ParentOk, SpawnFits, FollowupFits
  <2>4. run[r].registered /\ run[r].pc = "driving"
    BY <2>3, <1>2 DEF SubagentInv, Askers
  <2>5. closing.pc \notin {"stopped", "collected", "done"}
    BY <2>3, <1>2 DEF SubagentInv, Askers
  <2> HIDE DEF p, ok, r, c
  <2>6. adm'.pc = p /\ adm'.by = r /\ adm'.child = c /\ adm'.pc \notin Saved /\ adm'.pc \notin {"free"}
    BY <2>1, <2>2 DEF Saved
  <2>6a. adm' # Free /\ adm.pc \notin Saved
    BY <2>6, <1>1 DEF Free, Saved
  <2>7. Types'
    <3>1. permits' \in 0..MaxParallel
      BY <2>1, <2>3, <1>0, BoundAssumption DEF Types
    <3>2. adm' \in Admissions
      BY <2>1, <2>2, <1>2 DEF Admissions
    <3> QED BY <3>1, <3>2, <1>1, <1>0 DEF Types
  <2>8. Started'
    BY <1>1 DEF SubagentInv, Started
  <2>9. Permits'
    <3>1. Watching' = Watching
      BY <1>1 DEF Watching
    <3>2. permits = Cardinality(Watching)
      BY <1>1, RunsFinite DEF SubagentInv, Permits, Watching
    <3> QED BY <3>1, <3>2, <2>6a, <2>1, RunsFinite DEF Permits
  <2>10. Activity'
    <3>1. \A q \in Runs : run'[q].monitor \in Holding => run'[q].child # adm'.child
      BY <2>3, <2>6, <1>1, <1>2, AbsentFree
    <3>2. adm'.pc \in {"prepare"} \union Saved => doc'[adm'.child].status # "absent"
      BY <2>2, <2>6, <1>1
    <3>3. \A d \in Children : doc'[d].status = "running" =>
            \E q \in Runs : run'[q].child = d /\ run'[q].monitor = "watching" /\ run'[q].pc # "reported"
      BY <2>6a, <1>1 DEF SubagentInv, Activity
    <3>4. /\ \A q \in Runs : run'[q].monitor \in Holding => active'[run'[q].child] = q
          /\ \A d \in Children : active'[d] # 0 =>
              run'[active'[d]].child = d /\ run'[active'[d]].monitor \notin {"none", "removed", "done"}
      BY <1>1 DEF SubagentInv, Activity
    <3> QED BY <3>1, <3>2, <3>3, <3>4 DEF Activity
  <2>11. Askers'
    <3>1. \A x \in Runs : asked'.by # x
      BY <1>1 DEF None, Runs
    <3> QED BY <3>1, <2>4, <2>5, <2>6, <1>1 DEF SubagentInv, Askers
  <2>12. Collected'
    BY <1>1, CollectedKept
  <2>13. Wakeups'
    BY <2>6a, <1>1, WakeupsKept
  <2> QED BY <2>7, <2>8, <2>9, <2>10, <2>11, <2>12, <2>13 DEF SubagentInv
<1> QED BY <1>3, <1>4

\* Giving up before the turn is saved returns the permit and the lock.
LEMMA GivenUp ==
    ASSUME SubagentInv, adm # Free, adm.pc \notin Saved, GiveUp,
           UNCHANGED <<run, doc, active, asked, closing, waiter>>
    PROVE  SubagentInv'
<1>0. Types
  BY DEF SubagentInv
<1>1. adm' = Free /\ permits' = permits - 1
  BY DEF GiveUp
<1>2. adm'.pc = "free" /\ adm'.by = 0
  BY <1>1 DEF Free
<1>3. Permits' /\ permits' \in 0..MaxParallel
  <2>1. Watching' = Watching /\ Watching \in SUBSET Runs
    BY DEF Watching
  <2>2. permits = Cardinality(Watching) + 1
    BY DEF SubagentInv, Permits
  <2>3. Cardinality(Watching) \in Nat
    BY <2>1, RunsFinite
  <2>4. permits' = Cardinality(Watching')
    BY <1>1, <2>1, <2>2, <2>3
  <2> QED BY <2>1, <2>2, <2>3, <2>4, <1>1, <1>0, BoundAssumption DEF Permits, Types
<1>4. Types'
  BY <1>0, <1>1, <1>3 DEF Types
<1>5. Started'
  BY DEF SubagentInv, Started
<1>6. Activity'
  BY <1>1, <1>2 DEF SubagentInv, Activity, Saved
<1>7. Askers' /\ Collected' /\ Wakeups'
  BY <1>1, <1>2, AskersKept, CollectedKept, WakeupsKept
<1> QED BY <1>3, <1>4, <1>5, <1>6, <1>7 DEF SubagentInv

\* An admission refused before the turn is saved.
LEMMA StepAdmissionFails == ASSUME SubagentInv, AdmissionFails PROVE SubagentInv'
<1>1. adm # Free /\ adm.pc \notin Saved
  BY DEF AdmissionFails, Free, Saved
<1> QED BY <1>1, GivenUp DEF AdmissionFails

\* The admission's record, once there is one.
LEMMA Admitted ==
    ASSUME SubagentInv, adm.pc # "free"
    PROVE  adm \in Admissions /\ adm # Free /\ adm.by \in Runs /\ adm.child \in Children
  BY DEF SubagentInv, Types, Admissions, Free

\* The permit and its session stay with the admission while it goes on.
LEMMA AdmissionGoesOn ==
    ASSUME SubagentInv, adm.pc # "free", NEW p \in {"prepare", "check", "start", "refused"},
           adm' = [adm EXCEPT !.pc = p],
           adm.pc \in Saved => p \in Saved,
           UNCHANGED <<run, active, permits, asked, closing, waiter>>,
           \A c \in Children \ {adm.child} : doc'[c] = doc[c],
           doc'[adm.child].status # "absent",
           doc'[adm.child].refused = doc[adm.child].refused,
           doc'[adm.child].status = "running" => p \in Saved,
           doc' \in [Children -> [status : {"absent", "idle", "running", "ended"}, owner : Children \union {0},
                             depth : Nat, refused : BOOLEAN]]
    PROVE  SubagentInv'
<1>0. Types
  BY DEF SubagentInv
<1>1. adm \in Admissions /\ adm # Free /\ adm.by \in Runs /\ adm.child \in Children
  BY Admitted
<1>2. /\ adm'.pc = p /\ adm'.by = adm.by /\ adm'.child = adm.child
      /\ adm' \in Admissions /\ adm' # Free
  BY <1>1 DEF Admissions, Free
<1>3. Types'
  BY <1>0, <1>2 DEF Types
<1>4. Started'
  <2>1. \A q \in Runs : (run[q].pc # "none" /\ q # RootRun) => doc'[run[q].child].status # "absent"
    BY DEF SubagentInv, Started
  <2> QED BY <2>1 DEF SubagentInv, Started
<1>5. Permits'
  BY <1>1, <1>2 DEF SubagentInv, Permits, Watching
<1>6. Activity'
  <2>1. \A c \in Children : doc'[c].status = "running" =>
          \/ \E q \in Runs : run[q].child = c /\ run[q].monitor = "watching" /\ run[q].pc # "reported"
          \/ (p \in Saved /\ adm.child = c)
    BY DEF SubagentInv, Activity
  <2>2. adm'.pc \in {"prepare"} \union Saved => doc'[adm'.child].status # "absent"
    BY <1>2
  <2>3. \A q \in Runs : run'[q].monitor \in Holding => run'[q].child # adm'.child
    BY <1>1, <1>2 DEF SubagentInv, Activity
  <2>4. /\ \A q \in Runs : run'[q].monitor \in Holding => active'[run'[q].child] = q
        /\ \A d \in Children : active'[d] # 0 =>
            run'[active'[d]].child = d /\ run'[active'[d]].monitor \notin {"none", "removed", "done"}
    BY DEF SubagentInv, Activity
  <2> QED BY <2>1, <2>2, <2>3, <2>4, <1>2 DEF Activity
<1>7. Askers' /\ Collected'
  BY <1>1, <1>2, AskersKept, CollectedKept
<1>8. Wakeups'
  BY <1>1, <1>2, WakeupsKept
<1> QED BY <1>3, <1>4, <1>5, <1>6, <1>7, <1>8 DEF SubagentInv

\* The session is created, with its owner.
LEMMA StepCreateChild == ASSUME SubagentInv, CreateChild PROVE SubagentInv'
<1>0. Types /\ adm.pc = "create" /\ adm.pc # "free"
  BY DEF SubagentInv, CreateChild
<1>1. adm \in Admissions /\ adm # Free /\ adm.by \in Runs /\ adm.child \in Children
  BY <1>0, Admitted
<1> DEFINE o == run[adm.by].child
           d == run[adm.by].depth + 1
<1>2. o \in Children \union {0} /\ d \in Nat
  BY <1>0, <1>1 DEF Types, RunRecords
<1>3. doc' = [doc EXCEPT ![adm.child].status = "idle", ![adm.child].owner = o, ![adm.child].depth = d]
  BY DEF CreateChild
<1> HIDE DEF o, d
<1>4. /\ \A c \in Children \ {adm.child} : doc'[c] = doc[c]
      /\ doc'[adm.child].status = "idle" /\ doc'[adm.child].refused = doc[adm.child].refused
      /\ doc' \in [Children -> [status : {"absent", "idle", "running", "ended"}, owner : Children \union {0},
                                depth : Nat, refused : BOOLEAN]]
  BY <1>0, <1>1, <1>2, <1>3 DEF Types
<1>5. adm' = [adm EXCEPT !.pc = "prepare"] /\ adm.pc \notin Saved
      /\ UNCHANGED <<run, active, permits, asked, closing, waiter>>
  BY <1>0 DEF CreateChild, Saved
<1> QED BY <1>0, <1>4, <1>5, AdmissionGoesOn

\* The turn is saved, or the admission given up.
LEMMA StepPrepareChild == ASSUME SubagentInv, PrepareChild PROVE SubagentInv'
<1>0. Types /\ adm.pc = "prepare" /\ adm.pc # "free"
  BY DEF SubagentInv, PrepareChild
<1>1. adm \in Admissions /\ adm # Free /\ adm.by \in Runs /\ adm.child \in Children
  BY <1>0, Admitted
<1>2. CASE ParentOk(adm.by) /\ doc[adm.child].status # "running"
  <2>1. doc' = [doc EXCEPT ![adm.child].status = "running"] /\ adm' = [adm EXCEPT !.pc = "check"]
        /\ UNCHANGED <<run, active, permits, asked, closing, waiter>>
    BY <1>2 DEF PrepareChild
  <2>2. /\ \A c \in Children \ {adm.child} : doc'[c] = doc[c]
        /\ doc'[adm.child].status = "running" /\ doc'[adm.child].refused = doc[adm.child].refused
        /\ doc' \in [Children -> [status : {"absent", "idle", "running", "ended"}, owner : Children \union {0},
                                  depth : Nat, refused : BOOLEAN]]
    BY <1>0, <1>1, <2>1 DEF Types
  <2>3. "check" \in Saved
    BY DEF Saved
  <2> QED BY <1>0, <2>1, <2>2, <2>3, AdmissionGoesOn
<1>3. CASE ~(ParentOk(adm.by) /\ doc[adm.child].status # "running")
  <2>1. GiveUp /\ UNCHANGED <<run, doc, active, asked, closing, waiter>> /\ adm.pc \notin Saved
    BY <1>0, <1>3 DEF PrepareChild, Saved
  <2> QED BY <1>1, <2>1, GivenUp
<1> QED BY <1>2, <1>3

\* A later check of the admission, with the turn saved.
LEMMA StillSaved ==
    ASSUME SubagentInv, adm.pc \in Saved, NEW p \in {"start", "refused"}, adm' = [adm EXCEPT !.pc = p],
           UNCHANGED <<run, doc, active, permits, asked, closing, waiter>>
    PROVE  SubagentInv'
<1>0. Types /\ adm.pc # "free"
  BY DEF SubagentInv, Saved
<1>1. adm \in Admissions /\ adm # Free /\ adm.by \in Runs /\ adm.child \in Children
  BY <1>0, Admitted
<1>2. doc[adm.child].status # "absent"
  BY DEF SubagentInv, Activity
<1>3. p \in Saved
  BY DEF Saved
<1> QED BY <1>0, <1>1, <1>2, <1>3, AdmissionGoesOn DEF Types

\* The parent is checked again after the save.
LEMMA StepCheckParent == ASSUME SubagentInv, CheckParent PROVE SubagentInv'
<1>1. PICK p \in {"start", "refused"} : adm' = [adm EXCEPT !.pc = p]
  BY DEF CheckParent
<1>2. adm.pc \in Saved /\ UNCHANGED <<run, doc, active, permits, asked, closing, waiter>>
  BY DEF CheckParent, Saved
<1> QED BY <1>1, <1>2, StillSaved

\* The runtime refuses the run.
LEMMA StepStartFails == ASSUME SubagentInv, StartFails PROVE SubagentInv'
<1>1. adm' = [adm EXCEPT !.pc = "refused"] /\ adm.pc \in Saved
      /\ UNCHANGED <<run, doc, active, permits, asked, closing, waiter>>
  BY DEF StartFails, Saved
<1> QED BY <1>1, StillSaved

\* The saved turn ends as refused, and the permit is returned.
LEMMA StepFailStart == ASSUME SubagentInv, FailStart PROVE SubagentInv'
<1>0. Types /\ adm.pc = "refused" /\ adm.pc # "free"
  BY DEF SubagentInv, FailStart
<1>1. adm \in Admissions /\ adm # Free /\ adm.by \in Runs /\ adm.child \in Children
  BY <1>0, Admitted
<1>2. adm' = Free /\ permits' = permits - 1 /\ UNCHANGED <<run, active, asked, closing, waiter>>
  BY DEF FailStart, GiveUp
<1>3. doc' = [doc EXCEPT ![adm.child].status = "ended", ![adm.child].refused = TRUE]
  BY DEF FailStart
<1>4. /\ \A c \in Children \ {adm.child} : doc'[c] = doc[c]
      /\ doc'[adm.child].status = "ended" /\ doc'[adm.child].refused
      /\ doc' \in [Children -> [status : {"absent", "idle", "running", "ended"}, owner : Children \union {0},
                                depth : Nat, refused : BOOLEAN]]
  BY <1>0, <1>1, <1>3 DEF Types
<1>5. adm'.pc = "free" /\ adm'.by = 0
  BY <1>2 DEF Free
<1>6. Permits' /\ permits' \in 0..MaxParallel
  <2>1. Watching' = Watching /\ Watching \in SUBSET Runs
    BY <1>2 DEF Watching
  <2>2. permits = Cardinality(Watching) + 1
    BY <1>1 DEF SubagentInv, Permits
  <2>3. Cardinality(Watching) \in Nat
    BY <2>1, RunsFinite
  <2>4. permits' = Cardinality(Watching')
    BY <1>2, <2>1, <2>2, <2>3
  <2> QED BY <2>1, <2>2, <2>3, <2>4, <1>2, <1>0, BoundAssumption DEF Permits, Types
<1>7. Types'
  BY <1>0, <1>2, <1>4, <1>6 DEF Types
<1>8. Started'
  <2>1. \A q \in Runs : (run[q].pc # "none" /\ q # RootRun) => doc'[run[q].child].status # "absent"
    BY <1>4 DEF SubagentInv, Started
  <2> QED BY <2>1, <1>2 DEF SubagentInv, Started
<1>9. Activity'
  <2>1. \A c \in Children : doc'[c].status = "running" =>
          \E q \in Runs : run[q].child = c /\ run[q].monitor = "watching" /\ run[q].pc # "reported"
    BY <1>4 DEF SubagentInv, Activity
  <2>2. /\ \A q \in Runs : run[q].monitor \in Holding => active[run[q].child] = q
        /\ \A d \in Children : active[d] # 0 =>
            run[active[d]].child = d /\ run[active[d]].monitor \notin {"none", "removed", "done"}
    BY DEF SubagentInv, Activity
  <2>3. adm'.pc \notin {"prepare"} \union Saved
    BY <1>5 DEF Saved
  <2> QED BY <2>1, <2>2, <2>3, <1>2 DEF Activity
<1>10. Askers' /\ Collected'
  BY <1>2, <1>5, AskersKept, CollectedKept
<1>11. Wakeups'
  <2>1. ASSUME NEW c \in Children, Expected(c) PROVE Expected(c)'
    <3>1. CASE c = adm.child
      BY <3>1, <1>4 DEF Expected
    <3>2. CASE c # adm.child
      BY <3>2, <2>1, <1>2, <1>4 DEF Expected
    <3> QED BY <3>1, <3>2
  <2> QED BY <1>2, <2>1 DEF SubagentInv, Wakeups
<1> QED BY <1>6, <1>7, <1>8, <1>9, <1>10, <1>11 DEF SubagentInv

\* The child starts: the permit passes to its monitor, and `active` names it.
LEMMA StepStartChild == ASSUME SubagentInv, NEW n \in Runs, StartChild(n) PROVE SubagentInv'
<1>0. Types /\ adm.pc = "start" /\ adm.pc # "free" /\ adm.pc \in Saved
  BY DEF SubagentInv, StartChild, Saved
<1>1. adm \in Admissions /\ adm # Free /\ adm.by \in Runs /\ adm.child \in Children
  BY <1>0, Admitted
<1>2. /\ run[n].pc = "none" /\ n > adm.by /\ adm' = Free /\ waiter' = Wake
      /\ active' = [active EXCEPT ![adm.child] = n]
      /\ doc' = [doc EXCEPT ![adm.child].refused = FALSE]
      /\ UNCHANGED <<permits, asked, closing>>
  BY DEF StartChild
<1>3. run[adm.by].pc # "none" /\ adm.by # 0 /\ n # 0 /\ n # RootRun /\ n # adm.by /\ adm.by < n
  <2>1. run[adm.by].pc # "none"
    BY <1>1 DEF SubagentInv, Askers
  <2>2. run[RootRun].pc # "none"
    BY DEF SubagentInv, Started
  <2> QED BY <2>1, <2>2, <1>1, <1>2 DEF Runs
<1> DEFINE new == [Unstarted EXCEPT !.pc = "driving", !.owner = adm.by, !.child = adm.child,
                                    !.depth = doc[adm.child].depth,
                                    !.cancelled = run[adm.by].cancelled, !.monitor = "watching"]
<1>4. run' = [run EXCEPT ![n] = new]
  BY DEF StartChild
<1>5. /\ new \in RunRecords /\ new.pc = "driving" /\ new.owner = adm.by /\ new.child = adm.child
      /\ new.registered = FALSE /\ new.stop = FALSE /\ new.kids = {} /\ new.monitor = "watching"
  <2>1. doc[adm.child].depth \in Nat /\ run[adm.by].cancelled \in BOOLEAN
    BY <1>0, <1>1 DEF Types, RunRecords
  <2>2. adm.by \in 0..MaxRuns
    BY <1>1, BoundAssumption DEF Runs
  <2> QED BY <2>1, <2>2, <1>1 DEF Unstarted, RunRecords
<1> HIDE DEF new
<1>6. run \in [Runs -> RunRecords]
  BY <1>0 DEF Types
<1>7. run' \in [Runs -> RunRecords] /\ run'[n] = new /\ \A q \in Runs \ {n} : run'[q] = run[q]
  BY <1>4, <1>5, <1>6
<1>8. run[n].monitor = "none" /\ run[n].owner = 0
  BY <1>2, <1>3 DEF SubagentInv, Started
<1>9. /\ \A c \in Children : doc'[c].status = doc[c].status
      /\ doc' \in [Children -> [status : {"absent", "idle", "running", "ended"}, owner : Children \union {0},
                                depth : Nat, refused : BOOLEAN]]
  BY ZenonT(40), <1>0, <1>1, <1>2 DEF Types
<1>10. active' \in [Children -> 0..MaxRuns] /\ active'[adm.child] = n
       /\ \A c \in Children \ {adm.child} : active'[c] = active[c]
  <2>1. n \in 0..MaxRuns
    BY BoundAssumption DEF Runs
  <2>2. active \in [Children -> 0..MaxRuns]
    BY <1>0 DEF Types
  <2> QED BY <2>1, <2>2, <1>1, <1>2
<1>11. adm'.pc = "free" /\ adm'.by = 0
  BY <1>2 DEF Free
<1>12. Types'
  BY <1>0, <1>2, <1>7, <1>9, <1>10, WokenTyped DEF Types
<1>13. Started'
  <2>1. run'[RootRun] = run[RootRun] /\ RootRun \in Runs
    BY <1>3, <1>7, BoundAssumption DEF RootRun, Runs
  <2>2. doc[adm.child].status # "absent"
    BY <1>0 DEF SubagentInv, Activity
  <2>3. ASSUME NEW q \in Runs
        PROVE  /\ run'[q].pc = "none" => run'[q].owner = 0 /\ run'[q].monitor = "none"
               /\ run'[q].owner < q
               /\ (run'[q].pc # "none" /\ q # RootRun) =>
                   /\ run'[q].child \in Children /\ run'[q].monitor # "none" /\ run'[q].owner # 0
                   /\ doc'[run'[q].child].status # "absent"
               /\ run'[q].monitor \in {"released", "removed", "done"} => run'[q].pc = "reported"
    <3>1. CASE q = n
      BY <3>1, <2>2, <1>1, <1>3, <1>5, <1>7, <1>9
    <3>2. CASE q # n
      <4>1. run'[q] = run[q]
        BY <3>2, <1>7
      <4> QED BY <4>1, <1>9 DEF SubagentInv, Started
    <3> QED BY <3>1, <3>2
  <2> QED BY <2>1, <2>3 DEF SubagentInv, Started
<1>14. Permits'
  <2>1. Watching' = Watching \union {n} /\ n \notin Watching /\ Watching \in SUBSET Runs
    BY <1>5, <1>7, <1>8 DEF Watching
  <2>2. Cardinality(Watching') = Cardinality(Watching) + 1
    BY <2>1, RunsFinite, FS_AddElement
  <2>3. permits = Cardinality(Watching) + 1
    BY <1>1 DEF SubagentInv, Permits
  <2>4. Cardinality(Watching) \in Nat
    BY <2>1, RunsFinite
  <2> QED BY <2>2, <2>3, <2>4, <1>2 DEF Permits
<1>15. Activity'
  <2>1. ASSUME NEW q \in Runs, run'[q].monitor \in Holding PROVE active'[run'[q].child] = q
    <3>1. CASE q = n
      BY <3>1, <1>5, <1>7, <1>10
    <3>2. CASE q # n
      <4>1. run'[q] = run[q] /\ run[q].child # adm.child /\ active[run[q].child] = q
        BY <3>2, <2>1, <1>1, <1>7 DEF SubagentInv, Activity
      <4>2. run[q].child \in Children
        BY <4>1, <2>1 DEF SubagentInv, Started, Holding
      <4> QED BY <4>1, <4>2, <1>10
    <3> QED BY <3>1, <3>2
  <2>2. ASSUME NEW c \in Children, active'[c] # 0
        PROVE  run'[active'[c]].child = c /\ run'[active'[c]].monitor \notin {"none", "removed", "done"}
    <3>1. CASE c = adm.child
      BY <3>1, <1>5, <1>7, <1>10
    <3>2. CASE c # adm.child
      <4>1. active'[c] = active[c] /\ active[c] \in Runs
        BY <3>2, <2>2, <1>0, <1>10 DEF Types, Runs
      <4>2. run[active[c]].child = c /\ run[active[c]].monitor \notin {"none", "removed", "done"}
        BY <4>1, <2>2 DEF SubagentInv, Activity
      <4>3. active[c] # n
        BY <4>2, <1>8
      <4> QED BY <4>1, <4>2, <4>3, <1>7
    <3> QED BY <3>1, <3>2
  <2>3. ASSUME NEW c \in Children, doc'[c].status = "running"
        PROVE  \E q \in Runs : run'[q].child = c /\ run'[q].monitor = "watching" /\ run'[q].pc # "reported"
    <3>1. CASE c = adm.child
      BY <3>1, <1>5, <1>7
    <3>2. CASE c # adm.child
      <4>1. doc[c].status = "running"
        BY <2>3, <1>9
      <4>2. PICK q \in Runs : run[q].child = c /\ run[q].monitor = "watching" /\ run[q].pc # "reported"
        BY <3>2, <4>1 DEF SubagentInv, Activity
      <4>3. q # n
        BY <4>2, <1>8
      <4> QED BY <4>2, <4>3, <1>7
    <3> QED BY <3>1, <3>2
  <2>4. adm'.pc \notin {"prepare"} \union Saved
    BY <1>11 DEF Saved
  <2> QED BY <2>1, <2>2, <2>3, <2>4, <1>2 DEF Activity
<1>16. Askers'
  <2>1. \A r \in Runs : adm'.by # r
    BY <1>11 DEF Runs
  <2>2. asked.by # n
    BY <1>2 DEF SubagentInv, Askers
  <2>3. ASSUME NEW r \in Runs
        PROVE  /\ asked.by = r => run'[r].pc # "none" /\ (run'[r].stop \/ (run'[r].registered /\ run'[r].pc = "driving"))
               /\ run'[r].registered => run'[r].pc = "driving"
               /\ (closing.pc \in {"stopped", "collected", "done"} /\ asked.by = r) => run'[r].stop
    <3>1. CASE r = n
      BY <3>1, <2>2, <1>5, <1>7
    <3>2. CASE r # n
      <4>1. run'[r] = run[r]
        BY <3>2, <1>7
      <4> QED BY <4>1 DEF SubagentInv, Askers
    <3> QED BY <3>1, <3>2
  <2> QED BY <2>1, <2>3, <1>2 DEF Askers
<1>17. Collected'
  <2>1. /\ ~(run[adm.by].pc = "settling")
        /\ ~(run[adm.by].pc = "reported" /\ run[adm.by].status = "completed")
    BY <1>1 DEF SubagentInv, Askers
  <2>2. closing.pc \notin {"collected", "done"}
    BY <1>1 DEF SubagentInv, Askers
  <2>3. ASSUME NEW r \in Runs, run'[r].pc \in {"settling", "reported"}, NEW q \in Runs, run'[q].owner = r,
               run'[r].pc = "settling" \/ (run'[r].pc = "reported" /\ run'[r].status = "completed")
        PROVE  run'[r] = run[r] /\ run'[q] = run[q]
    <3>1. r # n
      BY <2>3, <1>5, <1>7
    <3>2. run'[r] = run[r]
      BY <3>1, <1>7
    <3>3. q # n
      BY <2>1, <2>3, <3>2, <1>5, <1>7
    <3> QED BY <3>2, <3>3, <1>7
  <2>4. CompletedLeavesNone'
    BY <2>3 DEF SubagentInv, Collected, CompletedLeavesNone
  <2>5. \A r \in Runs : (run'[r].pc = "settling" /\ run'[r].status = "completed") =>
        \A q \in Runs : run'[q].owner = r =>
            run'[q].pc = "reported" /\ (run'[q].monitor \in Holding => q \in run'[r].kids)
    BY <2>3 DEF SubagentInv, Collected
  <2> QED BY <2>2, <2>4, <2>5, <1>2 DEF Collected
<1>18. Wakeups'
  BY <1>2, WokenKept
<1> QED BY <1>12, <1>13, <1>14, <1>15, <1>16, <1>17, <1>18 DEF SubagentInv

-----------------------------------------------------------------------------
(* A run ends.                                                             *)

\* finish takes the registration away and sets the stop token.
LEMMA StepFinishBegin ==
    ASSUME SubagentInv, NEW r \in Runs, NEW s \in {"completed", "failed"}, FinishBegin(r, s)
    PROVE  SubagentInv'
<1>0. Types /\ run \in [Runs -> RunRecords]
  BY DEF SubagentInv, Types
<1>1. UNCHANGED <<doc, active, permits, asked, adm, closing, waiter>> /\ run[r].pc = "driving"
  BY DEF FinishBegin
<1> DEFINE t == run[r].stop \/ run[r].registered
<1>2. t \in BOOLEAN
  BY <1>0 DEF RunRecords
<1>3. run' = [run EXCEPT ![r].pc = "finishing", ![r].status = s, ![r].registered = FALSE, ![r].stop = t]
  BY DEF FinishBegin
<1>3a. t <=> (run[r].stop \/ run[r].registered)
  OBVIOUS
<1> HIDE DEF t
<1>4. /\ run' \in [Runs -> RunRecords] /\ \A q \in Runs \ {r} : run'[q] = run[q]
      /\ run'[r].pc = "finishing" /\ run'[r].status = s /\ run'[r].registered = FALSE /\ run'[r].stop = t
      /\ run'[r].owner = run[r].owner /\ run'[r].child = run[r].child
      /\ run'[r].monitor = run[r].monitor /\ run'[r].kids = run[r].kids
  <2> DEFINE new == [run[r] EXCEPT !.pc = "finishing", !.status = s, !.registered = FALSE, !.stop = t]
  <2>1. run' = [run EXCEPT ![r] = new]
    BY <1>0, <1>3
  <2>1a. run[r] \in RunRecords
    BY <1>0
  <2>2. /\ new \in RunRecords
        /\ new.pc = "finishing" /\ new.status = s /\ new.registered = FALSE /\ new.stop = t
        /\ new.owner = run[r].owner /\ new.child = run[r].child
        /\ new.monitor = run[r].monitor /\ new.kids = run[r].kids
    BY <2>1a, <1>2 DEF RunRecords
  <2> HIDE DEF new
  <2> QED BY <1>0, <2>1, <2>2
<1>5. \A q \in Runs : /\ run'[q].owner = run[q].owner /\ run'[q].child = run[q].child
                      /\ run'[q].monitor = run[q].monitor
                      /\ run'[q].pc = "none" <=> run[q].pc = "none"
                      /\ run'[q].pc = "reported" <=> run[q].pc = "reported"
  BY <1>1, <1>4
<1>6. Types'
  BY <1>0, <1>1, <1>4 DEF Types
<1>7. Started' /\ Permits' /\ Activity'
  BY <1>1, <1>5, CoreKept
<1>8. Askers'
  <2>1. ASSUME NEW x \in Runs
        PROVE  /\ asked.by = x \/ adm.by = x =>
                    run'[x].pc # "none" /\ (run'[x].stop \/ (run'[x].registered /\ run'[x].pc = "driving"))
               /\ run'[x].registered => run'[x].pc = "driving"
               /\ (run'[x].pc = "settling" \/ (run'[x].pc = "reported" /\ run'[x].status = "completed")) => adm.by # x
               /\ run[x].stop => run'[x].stop
    <3>1. CASE x = r
      BY <3>1, <1>3a, <1>4 DEF SubagentInv, Askers
    <3>2. CASE x # r
      <4>1. run'[x] = run[x]
        BY <3>2, <1>4
      <4> QED BY <4>1 DEF SubagentInv, Askers
    <3> QED BY <3>1, <3>2
  <2>2. closing.pc \in {"stopped", "collected", "done"} => \A x \in Runs : asked.by = x \/ adm.by = x => run'[x].stop
    BY <2>1 DEF SubagentInv, Askers
  <2>3. closing.pc \in {"collected", "done"} => adm = Free
    BY DEF SubagentInv, Askers
  <2> QED BY <2>1, <2>2, <2>3, <1>1 DEF Askers
<1>9. Collected'
  <2>1. ASSUME NEW x \in Runs, run'[x].pc \in {"settling", "reported"}
        PROVE  run'[x] = run[x]
    BY <2>1, <1>4
  <2>2. CompletedLeavesNone'
    BY <2>1, <1>5 DEF SubagentInv, Collected, CompletedLeavesNone
  <2>3. \A x \in Runs : (run'[x].pc = "settling" /\ run'[x].status = "completed") =>
        \A q \in Runs : run'[q].owner = x =>
            run'[q].pc = "reported" /\ (run'[q].monitor \in Holding => q \in run'[x].kids)
    BY <2>1, <1>5 DEF SubagentInv, Collected
  <2>4. closing'.pc \in {"collected", "done"} =>
          \A q \in Runs : run'[q].monitor \in Holding => closing'.pc = "collected" /\ q \in closing'.kids
    BY <1>1, <1>5 DEF SubagentInv, Collected
  <2> QED BY <2>2, <2>3, <2>4 DEF Collected
<1>10. Wakeups'
  BY <1>1, <1>5, WakeupsKept
<1> QED BY <1>6, <1>7, <1>8, <1>9, <1>10 DEF SubagentInv

\* finish collects, with no admission in progress: what it does not find has its outcome.
LEMMA StepFinishCollect == ASSUME SubagentInv, NEW r \in Runs, FinishCollect(r) PROVE SubagentInv'
<1>0. Types /\ run \in [Runs -> RunRecords]
  BY DEF SubagentInv, Types
<1> DEFINE kids == Activations(r)
           unfinished == {q \in kids : run[q].pc # "reported"}
           c == Cancelled(unfinished)
           s == IF unfinished = {} THEN run[r].status ELSE "failed"
<1>1. UNCHANGED <<doc, active, permits, asked, adm, closing, waiter>> /\ run[r].pc = "finishing" /\ adm = Free
  BY DEF FinishCollect
<1>2. run' = [c EXCEPT ![r].pc = "settling", ![r].kids = kids, ![r].status = s]
  BY DEF FinishCollect
<1>3. kids \subseteq Runs
  BY DEF Activations
<1>4. s \in {"none", "completed", "failed"} /\ (s = "completed" => unfinished = {})
  BY <1>0 DEF RunRecords
<1>5. /\ c \in [Runs -> RunRecords]
      /\ \A q \in Runs : /\ c[q].pc = run[q].pc /\ c[q].owner = run[q].owner /\ c[q].child = run[q].child
                         /\ c[q].registered = run[q].registered /\ c[q].stop = run[q].stop
                         /\ c[q].kids = run[q].kids
                         /\ c[q].status = run[q].status /\ c[q].monitor = run[q].monitor
  BY <1>0, CancelledKeeps
<1>6. \A q \in Runs : (run[q].owner = r /\ run[q].monitor \in Holding) => q \in kids
  BY DEF Activations, SubagentInv, Activity
<1>7. \A q \in Runs : q \in kids => (run[q].pc = "reported" \/ q \in unfinished)
  OBVIOUS
<1> HIDE DEF c, s, kids, unfinished
<1>8. /\ run' \in [Runs -> RunRecords] /\ \A q \in Runs \ {r} : run'[q] = c[q]
      /\ run'[r].pc = "settling" /\ run'[r].status = s /\ run'[r].kids = kids
      /\ run'[r].registered = run[r].registered /\ run'[r].stop = run[r].stop
      /\ run'[r].owner = run[r].owner /\ run'[r].child = run[r].child
      /\ run'[r].monitor = run[r].monitor
  <2> DEFINE new == [c[r] EXCEPT !.pc = "settling", !.kids = kids, !.status = s]
  <2>1. run' = [c EXCEPT ![r] = new]
    BY <1>2, <1>5
  <2>1a. c[r] \in RunRecords
    BY <1>5
  <2>2. /\ new \in RunRecords
        /\ new.pc = "settling" /\ new.status = s /\ new.kids = kids
        /\ new.registered = c[r].registered /\ new.stop = c[r].stop
        /\ new.owner = c[r].owner /\ new.child = c[r].child /\ new.monitor = c[r].monitor
    BY <2>1a, <1>3, <1>4 DEF RunRecords
  <2> HIDE DEF new
  <2> QED BY <1>5, <2>1, <2>2
<1>9. \A q \in Runs : /\ run'[q].owner = run[q].owner /\ run'[q].child = run[q].child
                      /\ run'[q].monitor = run[q].monitor
                      /\ run'[q].registered = run[q].registered /\ run'[q].stop = run[q].stop
                      /\ run'[q].pc = "none" <=> run[q].pc = "none"
                      /\ run'[q].pc = "reported" <=> run[q].pc = "reported"
                      /\ run'[q].pc = "driving" <=> run[q].pc = "driving"
                      /\ q # r => /\ run'[q].pc = run[q].pc /\ run'[q].status = run[q].status
                                  /\ run'[q].kids = run[q].kids
  BY <1>1, <1>5, <1>8
<1>10. Types'
  BY <1>0, <1>1, <1>8 DEF Types
<1>11. Started' /\ Permits' /\ Activity'
  BY <1>1, <1>9, CoreKept
<1>12. Askers'
  <2>1. \A x \in Runs : adm.by # x
    BY <1>1 DEF Free, Runs
  <2>2. \A x \in Runs : asked.by = x \/ adm.by = x =>
           run'[x].pc # "none" /\ (run'[x].stop \/ (run'[x].registered /\ run'[x].pc = "driving"))
    BY <1>9 DEF SubagentInv, Askers
  <2>3. \A x \in Runs : run'[x].registered => run'[x].pc = "driving"
    BY <1>9 DEF SubagentInv, Askers
  <2>4. closing.pc \in {"stopped", "collected", "done"} => \A x \in Runs : asked.by = x \/ adm.by = x => run'[x].stop
    BY <1>9 DEF SubagentInv, Askers
  <2> QED BY <2>1, <2>2, <2>3, <2>4, <1>1 DEF Askers
<1>13. Collected'
  <2>1. CompletedLeavesNone'
    BY <1>8, <1>9 DEF SubagentInv, Collected, CompletedLeavesNone
  <2>2. ASSUME NEW x \in Runs, run'[x].pc = "settling", run'[x].status = "completed",
               NEW q \in Runs, run'[q].owner = x
        PROVE  run'[q].pc = "reported" /\ (run'[q].monitor \in Holding => q \in run'[x].kids)
    <3>1. CASE x # r
      BY <2>2, <3>1, <1>9 DEF SubagentInv, Collected
    <3>2. CASE x = r
      <4>1. unfinished = {} /\ run[q].owner = r
        BY <2>2, <3>2, <1>4, <1>8, <1>9
      <4>2. CASE run[q].monitor \in Holding
        BY <4>1, <4>2, <3>2, <1>6, <1>7, <1>8, <1>9
      <4>3. CASE run[q].monitor \notin Holding
        <5>1. run[q].pc # "none" /\ q # RootRun
          BY <4>1 DEF SubagentInv, Started, Runs
        <5>2. run[q].monitor # "none" /\ run[q].monitor \in {"none", "watching", "released", "removed", "done"}
          BY <5>1, <1>0 DEF SubagentInv, Started, RunRecords
        <5>3. run[q].pc = "reported"
          BY <5>2, <4>3 DEF SubagentInv, Started, Holding
        <5> QED BY <5>3, <4>3, <1>9
      <4> QED BY <4>2, <4>3
    <3> QED BY <3>1, <3>2
  <2>3. closing'.pc \in {"collected", "done"} =>
          \A q \in Runs : run'[q].monitor \in Holding => closing'.pc = "collected" /\ q \in closing'.kids
    BY <1>1, <1>9 DEF SubagentInv, Collected
  <2> QED BY <2>1, <2>2, <2>3 DEF Collected
<1>14. Wakeups'
  BY <1>1, <1>9, WakeupsKept
<1> QED BY <1>10, <1>11, <1>12, <1>13, <1>14 DEF SubagentInv

\* The record of a run that reports.
LEMMA ReportedRecord ==
    ASSUME Types, NEW r \in Runs, NEW s \in {"none", "completed", "failed"},
           run' = [run EXCEPT ![r].pc = "reported", ![r].status = s]
    PROVE  /\ run' \in [Runs -> RunRecords] /\ \A q \in Runs \ {r} : run'[q] = run[q]
           /\ run'[r].pc = "reported" /\ run'[r].status = s
           /\ run'[r].owner = run[r].owner /\ run'[r].child = run[r].child
           /\ run'[r].monitor = run[r].monitor /\ run'[r].kids = run[r].kids
           /\ run'[r].registered = run[r].registered /\ run'[r].stop = run[r].stop
<1> DEFINE new == [run[r] EXCEPT !.pc = "reported", !.status = s]
<1>0. run \in [Runs -> RunRecords]
  BY DEF Types
<1>1. run' = [run EXCEPT ![r] = new]
  BY <1>0
<1>1a. run[r] \in RunRecords
  BY <1>0
<1>2. /\ new \in RunRecords /\ new.pc = "reported" /\ new.status = s
      /\ new.owner = run[r].owner /\ new.child = run[r].child
      /\ new.monitor = run[r].monitor /\ new.kids = run[r].kids
      /\ new.registered = run[r].registered /\ new.stop = run[r].stop
  BY <1>1a DEF RunRecords
<1> HIDE DEF new
<1> QED BY <1>0, <1>1, <1>2

\* The outcome is committed: a success has seen everything it collected settle.
LEMMA RunEnds ==
    ASSUME SubagentInv, NEW r \in Runs, NEW s \in {"none", "completed", "failed"},
           run[r].pc \in {"finishing", "settling"},
           run' \in [Runs -> RunRecords], \A q \in Runs \ {r} : run'[q] = run[q],
           run'[r].pc = "reported", run'[r].status = s,
           run'[r].owner = run[r].owner, run'[r].child = run[r].child,
           run'[r].monitor = run[r].monitor, run'[r].kids = run[r].kids,
           run'[r].registered = run[r].registered, run'[r].stop = run[r].stop,
           s = "completed" => /\ run[r].pc = "settling" /\ run[r].status = "completed"
                              /\ \A q \in run[r].kids : run[q].monitor = "done",
           Reported(r), UNCHANGED <<active, permits, asked, adm, closing, waiter>>
    PROVE  SubagentInv'
<1>0. Types /\ run \in [Runs -> RunRecords]
  BY DEF SubagentInv, Types
<1>1. /\ \A q \in Runs \ {r} : run'[q] = run[q]
      /\ run'[r].pc = "reported" /\ run'[r].status = s
  OBVIOUS
<1>2. \A q \in Runs : /\ run'[q].owner = run[q].owner /\ run'[q].child = run[q].child
                      /\ run'[q].monitor = run[q].monitor /\ run'[q].kids = run[q].kids
                      /\ run'[q].registered = run[q].registered /\ run'[q].stop = run[q].stop
                      /\ run'[q].pc = "none" <=> run[q].pc = "none"
                      /\ run[q].pc = "reported" => run'[q].pc = "reported"
                      /\ run'[q].pc = "driving" <=> run[q].pc = "driving"
  BY <1>0, <1>1
<1>3. /\ \A c \in Children : c # run[r].child => doc'[c] = doc[c]
      /\ \A c \in Children : c = run[r].child => doc'[c].status = "ended"
      /\ \A c \in Children : doc'[c].refused = doc[c].refused
      /\ \A c \in Children : doc[c].status # "absent" => doc'[c].status # "absent"
      /\ doc' \in [Children -> [status : {"absent", "idle", "running", "ended"}, owner : Children \union {0},
                                depth : Nat, refused : BOOLEAN]]
  BY <1>0 DEF Reported, Types
<1>4. Types'
  BY <1>0, <1>1, <1>3 DEF Types
<1>5. Started'
  <2>1. RootRun \in Runs
    BY BoundAssumption DEF RootRun, Runs
  <2> QED BY <2>1, <1>2, <1>3 DEF SubagentInv, Started
<1>6. Permits'
  <2>1. Watching' = Watching
    BY <1>2 DEF Watching
  <2> QED BY <2>1 DEF SubagentInv, Permits
<1>7. Activity'
  <2>1. /\ \A q \in Runs : run'[q].monitor \in Holding => active'[run'[q].child] = q
        /\ adm' # Free => \A q \in Runs : run'[q].monitor \in Holding => run'[q].child # adm'.child
    BY <1>2 DEF SubagentInv, Activity
  <2>2. ASSUME NEW c \in Children, active'[c] # 0
        PROVE  run'[active'[c]].child = c /\ run'[active'[c]].monitor \notin {"none", "removed", "done"}
    <3>1. active[c] \in Runs
      BY <2>2, <1>0 DEF Types, Runs
    <3> QED BY <3>1, <2>2, <1>2 DEF SubagentInv, Activity
  <2>3. adm'.pc \in {"prepare"} \union Saved => doc'[adm'.child].status # "absent"
    <3>1. adm.pc \in {"prepare"} \union Saved => adm.child \in Children
      BY Admitted DEF Saved
    <3> QED BY <3>1, <1>3 DEF SubagentInv, Activity
  <2>4. ASSUME NEW c \in Children, doc'[c].status = "running"
        PROVE  \/ \E q \in Runs : run'[q].child = c /\ run'[q].monitor = "watching" /\ run'[q].pc # "reported"
               \/ (adm.pc \in Saved /\ adm.child = c)
    <3>1. c # run[r].child /\ doc[c].status = "running"
      BY <2>4, <1>3
    <3>2. ASSUME NEW q \in Runs, run[q].child = c, run[q].monitor = "watching", run[q].pc # "reported"
          PROVE  run'[q].child = c /\ run'[q].monitor = "watching" /\ run'[q].pc # "reported"
      BY <3>1, <3>2, <1>1
    <3> QED BY <3>1, <3>2 DEF SubagentInv, Activity
  <2> QED BY <2>1, <2>2, <2>3, <2>4 DEF Activity
<1>8. Askers'
  <2>1. \A x \in Runs : asked.by = x \/ adm.by = x =>
           run'[x].pc # "none" /\ (run'[x].stop \/ (run'[x].registered /\ run'[x].pc = "driving"))
    BY <1>2 DEF SubagentInv, Askers
  <2>2. \A x \in Runs : run'[x].registered => run'[x].pc = "driving"
    BY <1>2 DEF SubagentInv, Askers
  <2>3. ASSUME NEW x \in Runs, run'[x].pc = "settling" \/ (run'[x].pc = "reported" /\ run'[x].status = "completed")
        PROVE  adm.by # x
    <3>1. CASE x = r
      BY <2>3, <3>1, <1>1 DEF SubagentInv, Askers
    <3>2. CASE x # r
      BY <2>3, <3>2, <1>1 DEF SubagentInv, Askers
    <3> QED BY <3>1, <3>2
  <2>4. closing.pc \in {"stopped", "collected", "done"} => \A x \in Runs : asked.by = x \/ adm.by = x => run'[x].stop
    BY <1>2 DEF SubagentInv, Askers
  <2>5. closing.pc \in {"collected", "done"} => adm = Free
    BY DEF SubagentInv, Askers
  <2> QED BY <2>1, <2>2, <2>3, <2>4, <2>5 DEF Askers
<1>9. Collected'
  <2>1. ASSUME NEW x \in Runs, run'[x].pc = "settling", run'[x].status = "completed",
               NEW q \in Runs, run'[q].owner = x
        PROVE  run'[q].pc = "reported" /\ (run'[q].monitor \in Holding => q \in run'[x].kids)
    <3>1. x # r /\ run[x].pc = "settling" /\ run[x].status = "completed"
      BY <2>1, <1>1
    <3> QED BY <3>1, <2>1, <1>2 DEF SubagentInv, Collected
  <2>2. ASSUME NEW x \in Runs, run'[x].pc = "reported", run'[x].status = "completed",
               NEW q \in Runs, run'[q].owner = x
        PROVE  run'[q].pc = "reported" /\ run'[q].monitor \notin {"watching", "released"}
    <3>1. CASE x = r
      <4>1. /\ run[r].pc = "settling" /\ run[r].status = "completed" /\ run[q].owner = r
            /\ \A k \in run[r].kids : run[k].monitor = "done"
        BY <3>1, <2>2, <1>1, <1>2
      <4>2. run[q].pc = "reported" /\ (run[q].monitor \in Holding => q \in run[r].kids)
        BY <4>1 DEF SubagentInv, Collected
      <4> QED BY <4>1, <4>2, <1>2 DEF Holding
    <3>2. CASE x # r
      <4>1. run[x].pc = "reported" /\ run[x].status = "completed"
        BY <3>2, <2>2, <1>1
      <4>2. run[q].pc = "reported" /\ run[q].monitor \notin {"watching", "released"}
        BY <4>1, <2>2, <1>2 DEF SubagentInv, Collected, CompletedLeavesNone
      <4> QED BY <4>2, <1>2
    <3> QED BY <3>1, <3>2
  <2>3. closing'.pc \in {"collected", "done"} =>
          \A q \in Runs : run'[q].monitor \in Holding => closing'.pc = "collected" /\ q \in closing'.kids
    BY <1>2 DEF SubagentInv, Collected
  <2> QED BY <2>1, <2>2, <2>3 DEF Collected, CompletedLeavesNone
<1>10. Wakeups'
  BY <1>2, <1>3, WakeupsKept
<1> QED BY <1>4, <1>5, <1>6, <1>7, <1>8, <1>9, <1>10 DEF SubagentInv

\* finish returns, and the run reports.
LEMMA StepFinishEnd ==
    ASSUME SubagentInv, NEW r \in Runs, NEW settled \in BOOLEAN, FinishEnd(r, settled)
    PROVE  SubagentInv'
<1> DEFINE s == IF settled THEN run[r].status ELSE "failed"
<1>1. s \in {"none", "completed", "failed"} /\ (s = "completed" => run[r].status = "completed")
  BY DEF SubagentInv, Types, RunRecords
<1>2. run' = [run EXCEPT ![r].pc = "reported", ![r].status = s]
  BY DEF FinishEnd
<1>3. /\ run[r].pc = "settling" /\ \A q \in run[r].kids : run[q].monitor = "done"
      /\ Reported(r) /\ UNCHANGED <<active, permits, asked, adm, closing, waiter>>
  BY DEF FinishEnd
<1> HIDE DEF s
<1>4. Types
  BY DEF SubagentInv
<1> QED BY <1>1, <1>2, <1>3, <1>4, ReportedRecord, RunEnds

\* The hook times out, and the run reports a failure.
LEMMA StepFinishTimeout == ASSUME SubagentInv, NEW r \in Runs, FinishTimeout(r) PROVE SubagentInv'
<1>1. /\ run' = [run EXCEPT ![r].pc = "reported", ![r].status = "failed"]
      /\ run[r].pc \in {"finishing", "settling"}
      /\ Reported(r) /\ UNCHANGED <<active, permits, asked, adm, closing, waiter>>
  BY DEF FinishTimeout
<1>2. Types
  BY DEF SubagentInv
<1> QED BY <1>1, <1>2, ReportedRecord, RunEnds

-----------------------------------------------------------------------------
(* The monitors.                                                           *)

\* The facts of a monitor's own step.
LEMMA MonitorMoves ==
    ASSUME Types, NEW q \in Runs, NEW m \in {"none", "watching", "released", "removed", "done"},
           run' = [run EXCEPT ![q].monitor = m]
    PROVE  /\ run' \in [Runs -> RunRecords] /\ \A x \in Runs \ {q} : run'[x] = run[x]
           /\ run'[q].monitor = m
           /\ \A x \in Runs : /\ run'[x].owner = run[x].owner /\ run'[x].child = run[x].child
                              /\ run'[x].pc = run[x].pc /\ run'[x].status = run[x].status
                              /\ run'[x].kids = run[x].kids
                              /\ run'[x].registered = run[x].registered /\ run'[x].stop = run[x].stop
<1>1. run \in [Runs -> RunRecords]
  BY DEF Types
<1> QED BY <1>1 DEF RunRecords

\* A monitor that moves on after its run has ended.
LEMMA MonitorStarted ==
    ASSUME SubagentInv, NEW q \in Runs, run[q].monitor \notin {"none"}, run[q].pc = "reported",
           NEW m \in {"released", "removed", "done"},
           run' = [run EXCEPT ![q].monitor = m], doc' = doc
    PROVE  Started'
<1>0. Types
  BY DEF SubagentInv
<1>1. /\ \A x \in Runs \ {q} : run'[x] = run[x]
      /\ run'[q].monitor = m
      /\ \A x \in Runs : /\ run'[x].owner = run[x].owner /\ run'[x].child = run[x].child /\ run'[x].pc = run[x].pc
  BY <1>0, MonitorMoves
<1>2. q # RootRun
  BY DEF SubagentInv, Started
<1>3. RootRun \in Runs
  BY BoundAssumption DEF RootRun, Runs
<1>4. ASSUME NEW x \in Runs
      PROVE  /\ run'[x].pc = "none" => run'[x].owner = 0 /\ run'[x].monitor = "none"
             /\ run'[x].owner < x
             /\ (run'[x].pc # "none" /\ x # RootRun) =>
                 /\ run'[x].child \in Children /\ run'[x].monitor # "none" /\ run'[x].owner # 0
                 /\ doc'[run'[x].child].status # "absent"
             /\ run'[x].monitor \in {"released", "removed", "done"} => run'[x].pc = "reported"
  <2>1. CASE x = q
    BY <2>1, <1>1 DEF SubagentInv, Started
  <2>2. CASE x # q
    <3>1. run'[x] = run[x]
      BY <2>2, <1>1
    <3> QED BY <3>1 DEF SubagentInv, Started
  <2> QED BY <2>1, <2>2
<1>5. run'[RootRun] = run[RootRun]
  BY <1>1, <1>2, <1>3
<1> QED BY <1>4, <1>5 DEF SubagentInv, Started

\* The permit is returned when the run has ended.
LEMMA StepMonitorEnds == ASSUME SubagentInv, NEW q \in Runs, MonitorEnds(q) PROVE SubagentInv'
<1>0. Types
  BY DEF SubagentInv
<1>1. /\ run[q].monitor = "watching" /\ run[q].pc = "reported"
      /\ permits' = permits - 1 /\ run' = [run EXCEPT ![q].monitor = "released"]
      /\ UNCHANGED <<doc, active, asked, adm, closing, waiter>>
  BY DEF MonitorEnds
<1>2. /\ run' \in [Runs -> RunRecords] /\ \A x \in Runs \ {q} : run'[x] = run[x]
      /\ run'[q].monitor = "released"
      /\ \A x \in Runs : /\ run'[x].owner = run[x].owner /\ run'[x].child = run[x].child
                         /\ run'[x].pc = run[x].pc /\ run'[x].status = run[x].status
                         /\ run'[x].kids = run[x].kids
                         /\ run'[x].registered = run[x].registered /\ run'[x].stop = run[x].stop
  BY <1>0, <1>1, MonitorMoves
<1>3. \A x \in Runs : /\ run'[x].monitor \in Holding <=> run[x].monitor \in Holding
                      /\ run'[x].monitor \in {"none", "removed", "done"} <=> run[x].monitor \in {"none", "removed", "done"}
                      /\ run'[x].monitor \in {"none", "done"} <=> run[x].monitor \in {"none", "done"}
  BY <1>1, <1>2 DEF Holding
<1>4. Permits' /\ permits' \in 0..MaxParallel
  <2>1. Watching' = Watching \ {q} /\ q \in Watching /\ Watching \in SUBSET Runs
    BY <1>1, <1>2 DEF Watching
  <2>2. Cardinality(Watching') = Cardinality(Watching) - 1 /\ Watching' \in SUBSET Runs
    BY <2>1, RunsFinite, FS_RemoveElement
  <2>3. Cardinality(Watching') \in Nat /\ Cardinality(Watching) \in Nat
    BY <2>1, <2>2, RunsFinite
  <2>4. CASE adm = Free
    <3>1. permits = Cardinality(Watching)
      BY <2>3, <2>4 DEF SubagentInv, Permits
    <3> QED BY <3>1, <2>2, <2>3, <2>4, <1>0, <1>1, BoundAssumption DEF Permits, Types
  <2>5. CASE adm # Free
    <3>1. permits = Cardinality(Watching) + 1
      BY <2>3, <2>5 DEF SubagentInv, Permits
    <3> QED BY <3>1, <2>2, <2>3, <2>5, <1>0, <1>1, BoundAssumption DEF Permits, Types
  <2> QED BY <2>4, <2>5
<1>5. Types'
  BY <1>0, <1>1, <1>2, <1>4 DEF Types
<1>6. Started'
  BY <1>1, MonitorStarted
<1>7. Activity'
  <2>1. /\ \A x \in Runs : run'[x].monitor \in Holding => active'[run'[x].child] = x
        /\ adm' # Free => \A x \in Runs : run'[x].monitor \in Holding => run'[x].child # adm'.child
        /\ adm'.pc \in {"prepare"} \union Saved => doc'[adm'.child].status # "absent"
    BY <1>1, <1>2, <1>3 DEF SubagentInv, Activity
  <2>2. ASSUME NEW c \in Children, active'[c] # 0
        PROVE  run'[active'[c]].child = c /\ run'[active'[c]].monitor \notin {"none", "removed", "done"}
    <3>1. active[c] \in Runs
      BY <2>2, <1>0, <1>1 DEF Types, Runs
    <3> QED BY <3>1, <2>2, <1>1, <1>2, <1>3 DEF SubagentInv, Activity
  <2>3. ASSUME NEW c \in Children, doc'[c].status = "running"
        PROVE  \/ \E x \in Runs : run'[x].child = c /\ run'[x].monitor = "watching" /\ run'[x].pc # "reported"
               \/ (adm.pc \in Saved /\ adm.child = c)
    <3>1. ASSUME NEW x \in Runs, run[x].child = c, run[x].monitor = "watching", run[x].pc # "reported"
          PROVE  run'[x].child = c /\ run'[x].monitor = "watching" /\ run'[x].pc # "reported"
      BY <3>1, <1>1, <1>2
    <3> QED BY <2>3, <3>1, <1>1 DEF SubagentInv, Activity
  <2> QED BY <2>1, <2>2, <2>3, <1>1 DEF Activity
<1>8. Askers' /\ Collected'
  BY <1>1, <1>2, <1>3, AskersKept, CollectedKept
<1>9. Wakeups'
  BY <1>1, <1>2, <1>3, WakeupsKept
<1> QED BY <1>4, <1>5, <1>6, <1>7, <1>8, <1>9 DEF SubagentInv

\* The entry leaves `active`.
LEMMA StepMonitorRemoves == ASSUME SubagentInv, NEW q \in Runs, MonitorRemoves(q) PROVE SubagentInv'
<1>0. Types
  BY DEF SubagentInv
<1>1. /\ run[q].monitor = "released" /\ run' = [run EXCEPT ![q].monitor = "removed"]
      /\ UNCHANGED <<doc, permits, asked, adm, closing, waiter>>
  BY DEF MonitorRemoves
<1>1a. run[q].pc = "reported" /\ run[q].pc # "none" /\ q # RootRun
  BY <1>1 DEF SubagentInv, Started
<1>1b. active[run[q].child] = q /\ run[q].child \in Children
  BY <1>1, <1>1a DEF SubagentInv, Started, Activity, Holding
<1>1c. active' = [active EXCEPT ![run[q].child] = 0]
  BY <1>1b DEF MonitorRemoves
<1>1d. active' \in [Children -> 0..MaxRuns] /\ active'[run[q].child] = 0
       /\ \A c \in Children \ {run[q].child} : active'[c] = active[c]
  <2>1. active \in [Children -> 0..MaxRuns] /\ 0 \in 0..MaxRuns
    BY <1>0, BoundAssumption DEF Types
  <2> QED BY <2>1, <1>1b, <1>1c
<1>2. /\ run' \in [Runs -> RunRecords] /\ \A x \in Runs \ {q} : run'[x] = run[x]
      /\ run'[q].monitor = "removed"
      /\ \A x \in Runs : /\ run'[x].owner = run[x].owner /\ run'[x].child = run[x].child
                         /\ run'[x].pc = run[x].pc /\ run'[x].status = run[x].status
                         /\ run'[x].kids = run[x].kids
                         /\ run'[x].registered = run[x].registered /\ run'[x].stop = run[x].stop
  BY <1>0, <1>1, MonitorMoves
<1>3. \A x \in Runs : /\ run'[x].monitor \in Holding => run[x].monitor \in Holding /\ x # q
                      /\ run'[x].monitor \in {"none", "done"} <=> run[x].monitor \in {"none", "done"}
  BY <1>1, <1>2 DEF Holding
<1>4. Permits'
  <2>1. Watching' = Watching
    BY <1>1, <1>2 DEF Watching
  <2> QED BY <2>1, <1>1 DEF SubagentInv, Permits
<1>5. Types'
  BY <1>0, <1>1, <1>1d, <1>2 DEF Types
<1>6. Started'
  BY <1>1, <1>1a, MonitorStarted
<1>7. Activity'
  <2>1. ASSUME NEW x \in Runs, run'[x].monitor \in Holding PROVE active'[run'[x].child] = x
    <3>1. active[run[x].child] = x /\ x # q
      BY <2>1, <1>3 DEF SubagentInv, Activity
    <3>2. run[x].child \in Children
      BY <2>1, <1>3 DEF SubagentInv, Started, Holding
    <3>3. run[x].child # run[q].child
      BY <3>1, <1>1b
    <3> QED BY <3>1, <3>2, <3>3, <1>1d, <1>2
  <2>2. ASSUME NEW c \in Children, active'[c] # 0
        PROVE  run'[active'[c]].child = c /\ run'[active'[c]].monitor \notin {"none", "removed", "done"}
    <3>1. c # run[q].child /\ active'[c] = active[c] /\ active[c] \in Runs
      BY <2>2, <1>0, <1>1d DEF Types, Runs
    <3>2. run[active[c]].child = c /\ run[active[c]].monitor \notin {"none", "removed", "done"}
      BY <3>1, <2>2 DEF SubagentInv, Activity
    <3>3. active[c] # q
      BY <3>1, <3>2
    <3> QED BY <3>1, <3>2, <3>3, <1>2
  <2>3. ASSUME NEW c \in Children, doc'[c].status = "running"
        PROVE  \/ \E x \in Runs : run'[x].child = c /\ run'[x].monitor = "watching" /\ run'[x].pc # "reported"
               \/ (adm.pc \in Saved /\ adm.child = c)
    <3>1. ASSUME NEW x \in Runs, run[x].child = c, run[x].monitor = "watching", run[x].pc # "reported"
          PROVE  run'[x].child = c /\ run'[x].monitor = "watching" /\ run'[x].pc # "reported"
      BY <3>1, <1>1, <1>2
    <3> QED BY <2>3, <3>1, <1>1 DEF SubagentInv, Activity
  <2>4. /\ adm' # Free => \A x \in Runs : run'[x].monitor \in Holding => run'[x].child # adm'.child
        /\ adm'.pc \in {"prepare"} \union Saved => doc'[adm'.child].status # "absent"
    BY <1>1, <1>2, <1>3 DEF SubagentInv, Activity
  <2> QED BY <2>1, <2>2, <2>3, <2>4, <1>1 DEF Activity
<1>8. Askers' /\ Collected'
  BY <1>1, <1>2, <1>3, AskersKept, CollectedKept
<1>9. Wakeups'
  BY <1>1, <1>2, <1>3, WakeupsKept
<1> QED BY <1>4, <1>5, <1>6, <1>7, <1>8, <1>9 DEF SubagentInv

\* The observers are told.
LEMMA StepMonitorTells == ASSUME SubagentInv, NEW q \in Runs, MonitorTells(q) PROVE SubagentInv'
<1>0. Types
  BY DEF SubagentInv
<1>1. /\ run[q].monitor = "removed" /\ run' = [run EXCEPT ![q].monitor = "done"] /\ waiter' = Wake
      /\ UNCHANGED <<doc, active, permits, asked, adm, closing>>
  BY DEF MonitorTells
<1>1a. run[q].pc = "reported"
  BY <1>1 DEF SubagentInv, Started
<1>2. /\ run' \in [Runs -> RunRecords] /\ \A x \in Runs \ {q} : run'[x] = run[x]
      /\ run'[q].monitor = "done"
      /\ \A x \in Runs : /\ run'[x].owner = run[x].owner /\ run'[x].child = run[x].child
                         /\ run'[x].pc = run[x].pc /\ run'[x].status = run[x].status
                         /\ run'[x].kids = run[x].kids
                         /\ run'[x].registered = run[x].registered /\ run'[x].stop = run[x].stop
  BY <1>0, <1>1, MonitorMoves
<1>3. \A x \in Runs : run'[x].monitor \in Holding => run[x].monitor \in Holding
  BY <1>1, <1>2 DEF Holding
<1>4. Permits'
  <2>1. Watching' = Watching
    BY <1>1, <1>2 DEF Watching
  <2> QED BY <2>1, <1>1 DEF SubagentInv, Permits
<1>5. Types'
  BY <1>0, <1>1, <1>2, WokenTyped DEF Types
<1>6. Started'
  BY <1>1, <1>1a, MonitorStarted
<1>7. Activity'
  <2>1. /\ \A x \in Runs : run'[x].monitor \in Holding => active'[run'[x].child] = x
        /\ adm' # Free => \A x \in Runs : run'[x].monitor \in Holding => run'[x].child # adm'.child
        /\ adm'.pc \in {"prepare"} \union Saved => doc'[adm'.child].status # "absent"
    BY <1>1, <1>2, <1>3 DEF SubagentInv, Activity
  <2>2. ASSUME NEW c \in Children, active'[c] # 0
        PROVE  run'[active'[c]].child = c /\ run'[active'[c]].monitor \notin {"none", "removed", "done"}
    <3>1. active[c] \in Runs /\ active' = active
      BY <2>2, <1>0, <1>1 DEF Types, Runs
    <3>2. run[active[c]].child = c /\ run[active[c]].monitor \notin {"none", "removed", "done"}
      BY <3>1, <2>2 DEF SubagentInv, Activity
    <3>3. active[c] # q
      BY <3>2, <1>1
    <3> QED BY <3>1, <3>2, <3>3, <1>2
  <2>3. ASSUME NEW c \in Children, doc'[c].status = "running"
        PROVE  \/ \E x \in Runs : run'[x].child = c /\ run'[x].monitor = "watching" /\ run'[x].pc # "reported"
               \/ (adm.pc \in Saved /\ adm.child = c)
    <3>1. ASSUME NEW x \in Runs, run[x].child = c, run[x].monitor = "watching", run[x].pc # "reported"
          PROVE  run'[x].child = c /\ run'[x].monitor = "watching" /\ run'[x].pc # "reported"
      BY <3>1, <1>1, <1>2
    <3> QED BY <2>3, <3>1, <1>1 DEF SubagentInv, Activity
  <2> QED BY <2>1, <2>2, <2>3, <1>1 DEF Activity
<1>8. Askers' /\ Collected'
  BY <1>1, <1>2, <1>3, AskersKept, CollectedKept
<1>9. Wakeups'
  BY <1>1, WokenKept
<1> QED BY <1>4, <1>5, <1>6, <1>7, <1>8, <1>9 DEF SubagentInv

-----------------------------------------------------------------------------
(* Shutdown.                                                               *)

\* The service is closed: nobody asks any more.
LEMMA StepShutdownBegin == ASSUME SubagentInv, ShutdownBegin PROVE SubagentInv'
<1>0. Types
  BY DEF SubagentInv
<1>1. closing.pc = "no" /\ closing' = [closing EXCEPT !.pc = "closed"]
      /\ UNCHANGED <<run, doc, active, permits, asked, adm, waiter>>
  BY DEF ShutdownBegin
<1>2. closing'.pc = "closed" /\ closing' \in [pc : {"no", "closed", "stopped", "collected", "done"}, kids : SUBSET Runs]
  BY <1>0, <1>1 DEF Types
<1>3. Types'
  BY <1>0, <1>1, <1>2 DEF Types
<1>4. Started' /\ Permits' /\ Activity'
  BY <1>1, CoreKept
<1>5. Askers'
  BY <1>1, <1>2 DEF SubagentInv, Askers
<1>6. Collected' /\ Wakeups'
  BY <1>1, <1>2, CollectedKept, WakeupsKept
<1> QED BY <1>3, <1>4, <1>5, <1>6 DEF SubagentInv

\* Every registered run is stopped: what asked before is refused from now on.
LEMMA StepShutdownStops == ASSUME SubagentInv, ShutdownStops PROVE SubagentInv'
<1>0. Types /\ run \in [Runs -> RunRecords]
  BY DEF SubagentInv, Types
<1>1. closing.pc = "closed" /\ closing' = [closing EXCEPT !.pc = "stopped"]
      /\ UNCHANGED <<doc, active, permits, asked, adm, waiter>>
  BY DEF ShutdownStops
<1>2. closing'.pc = "stopped" /\ closing' \in [pc : {"no", "closed", "stopped", "collected", "done"}, kids : SUBSET Runs]
  BY <1>0, <1>1 DEF Types
<1>3. \A q \in Runs : run'[q] = IF run[q].registered THEN [run[q] EXCEPT !.stop = TRUE] ELSE run[q]
  BY DEF ShutdownStops
<1>4. \A q \in Runs : /\ run'[q].owner = run[q].owner /\ run'[q].child = run[q].child
                      /\ run'[q].monitor = run[q].monitor /\ run'[q].pc = run[q].pc
                      /\ run'[q].status = run[q].status /\ run'[q].kids = run[q].kids
                      /\ run'[q].registered = run[q].registered
                      /\ (run[q].stop => run'[q].stop) /\ (run[q].registered => run'[q].stop)
                      /\ run'[q] \in RunRecords
  <2>1. ASSUME NEW q \in Runs
        PROVE  /\ run'[q].owner = run[q].owner /\ run'[q].child = run[q].child
               /\ run'[q].monitor = run[q].monitor /\ run'[q].pc = run[q].pc
               /\ run'[q].status = run[q].status /\ run'[q].kids = run[q].kids
               /\ run'[q].registered = run[q].registered
               /\ (run[q].stop => run'[q].stop) /\ (run[q].registered => run'[q].stop)
               /\ run'[q] \in RunRecords
    <3>1. run[q] \in RunRecords /\ run'[q] = IF run[q].registered THEN [run[q] EXCEPT !.stop = TRUE] ELSE run[q]
      BY <1>0, <1>3
    <3> QED BY <3>1 DEF RunRecords
  <2> QED BY <2>1
<1>5. run' \in [Runs -> RunRecords]
  BY <1>4 DEF ShutdownStops
<1>6. Types'
  BY <1>0, <1>1, <1>2, <1>5 DEF Types
<1>7. Started' /\ Permits' /\ Activity'
  BY <1>1, <1>4, CoreKept
<1>8. Askers'
  <2>1. \A x \in Runs : asked.by = x \/ adm.by = x => run'[x].pc # "none" /\ run'[x].stop
    BY <1>4 DEF SubagentInv, Askers
  <2>2. \A x \in Runs : run'[x].registered => run'[x].pc = "driving"
    BY <1>4 DEF SubagentInv, Askers
  <2>3. \A x \in Runs : (run'[x].pc = "settling" \/ (run'[x].pc = "reported" /\ run'[x].status = "completed")) => adm.by # x
    BY <1>4 DEF SubagentInv, Askers
  <2> QED BY <2>1, <2>2, <2>3, <1>1, <1>2 DEF Askers
<1>9. Collected' /\ Wakeups'
  BY <1>1, <1>2, <1>4, CollectedKept, WakeupsKept
<1> QED BY <1>6, <1>7, <1>8, <1>9 DEF SubagentInv

\* What `active` holds is collected, with no admission in progress.
LEMMA StepShutdownCollects == ASSUME SubagentInv, ShutdownCollects PROVE SubagentInv'
<1>0. Types
  BY DEF SubagentInv
<1> DEFINE kids == {q \in Runs : run[q].child \in Children /\ active[run[q].child] = q}
<1>1. closing.pc = "stopped" /\ closing' = [pc |-> "collected", kids |-> kids] /\ adm = Free
      /\ run' = Cancelled(kids) /\ UNCHANGED <<doc, active, permits, asked, adm, waiter>>
  BY DEF ShutdownCollects
<1>2. \A q \in Runs : run[q].monitor \in Holding => q \in kids
  <2>1. ASSUME NEW q \in Runs, run[q].monitor \in Holding PROVE q \in kids
    <3>1. active[run[q].child] = q
      BY <2>1 DEF SubagentInv, Activity
    <3>2. run[q].child \in Children
      BY <2>1 DEF SubagentInv, Started, Holding
    <3> QED BY <3>1, <3>2
  <2> QED BY <2>1
<1>3. kids \in SUBSET Runs
  OBVIOUS
<1> HIDE DEF kids
<1>4. /\ run' \in [Runs -> RunRecords]
      /\ \A q \in Runs : /\ run'[q].owner = run[q].owner /\ run'[q].child = run[q].child
                         /\ run'[q].monitor = run[q].monitor /\ run'[q].pc = run[q].pc
                         /\ run'[q].status = run[q].status /\ run'[q].kids = run[q].kids
                         /\ run'[q].stop = run[q].stop /\ run'[q].registered = run[q].registered
  BY <1>0, <1>1, CancelledKeeps
<1>5. Types'
  BY <1>0, <1>1, <1>3, <1>4 DEF Types
<1>6. Started' /\ Permits' /\ Activity'
  BY <1>1, <1>4, CoreKept
<1>7. Askers'
  BY <1>1, <1>4 DEF SubagentInv, Askers
<1>8. Collected'
  <2>1. /\ CompletedLeavesNone'
        /\ \A x \in Runs : (run'[x].pc = "settling" /\ run'[x].status = "completed") =>
            \A q \in Runs : run'[q].owner = x =>
                run'[q].pc = "reported" /\ (run'[q].monitor \in Holding => q \in run'[x].kids)
    BY <1>4 DEF SubagentInv, Collected, CompletedLeavesNone
  <2> QED BY <2>1, <1>1, <1>2, <1>4 DEF Collected
<1>9. Wakeups'
  BY <1>1, <1>4, WakeupsKept
<1> QED BY <1>5, <1>6, <1>7, <1>8, <1>9 DEF SubagentInv

\* shutdown returns when all it collected has settled.
LEMMA StepShutdownEnds == ASSUME SubagentInv, ShutdownEnds PROVE SubagentInv'
<1>0. Types /\ run \in [Runs -> RunRecords]
  BY DEF SubagentInv, Types
<1>1. closing.pc = "collected" /\ closing' = [closing EXCEPT !.pc = "done"]
      /\ (\A q \in closing.kids : run[q].monitor = "done")
      /\ UNCHANGED <<doc, active, permits, asked, adm, waiter>>
  BY DEF ShutdownEnds
<1>2. closing'.pc = "done" /\ closing' \in [pc : {"no", "closed", "stopped", "collected", "done"}, kids : SUBSET Runs]
  BY <1>0, <1>1 DEF Types
<1>3. \A q \in Runs : run'[q] = [run[q] EXCEPT !.registered = FALSE]
  BY DEF ShutdownEnds
<1>4. \A q \in Runs : /\ run'[q].owner = run[q].owner /\ run'[q].child = run[q].child
                      /\ run'[q].monitor = run[q].monitor /\ run'[q].pc = run[q].pc
                      /\ run'[q].status = run[q].status /\ run'[q].kids = run[q].kids
                      /\ run'[q].registered = FALSE /\ run'[q].stop = run[q].stop
                      /\ run'[q] \in RunRecords
  <2>1. ASSUME NEW q \in Runs
        PROVE  /\ run'[q].owner = run[q].owner /\ run'[q].child = run[q].child
               /\ run'[q].monitor = run[q].monitor /\ run'[q].pc = run[q].pc
               /\ run'[q].status = run[q].status /\ run'[q].kids = run[q].kids
               /\ run'[q].registered = FALSE /\ run'[q].stop = run[q].stop
               /\ run'[q] \in RunRecords
    <3>1. run[q] \in RunRecords /\ run'[q] = [run[q] EXCEPT !.registered = FALSE]
      BY <1>0, <1>3
    <3> QED BY <3>1 DEF RunRecords
  <2> QED BY <2>1
<1>5. run' \in [Runs -> RunRecords]
  BY <1>4 DEF ShutdownEnds
<1>6. Types'
  BY <1>0, <1>1, <1>2, <1>5 DEF Types
<1>7. Started' /\ Permits' /\ Activity'
  BY <1>1, <1>4, CoreKept
<1>8. Askers'
  BY <1>1, <1>4 DEF SubagentInv, Askers
<1>9. Collected'
  <2>1. /\ CompletedLeavesNone'
        /\ \A x \in Runs : (run'[x].pc = "settling" /\ run'[x].status = "completed") =>
            \A q \in Runs : run'[q].owner = x =>
                run'[q].pc = "reported" /\ (run'[q].monitor \in Holding => q \in run'[x].kids)
    BY <1>4 DEF SubagentInv, Collected, CompletedLeavesNone
  <2>2. \A q \in Runs : run[q].monitor \notin Holding
    BY <1>1 DEF SubagentInv, Collected, Holding
  <2> QED BY <2>1, <2>2, <1>4 DEF Collected
<1>10. Wakeups'
  BY <1>1, <1>4, WakeupsKept
<1> QED BY <1>6, <1>7, <1>8, <1>9, <1>10 DEF SubagentInv

-----------------------------------------------------------------------------
(* The theorems                                                            *)

\* Nothing has been started but the root's run.
LEMMA InitInv == Init => SubagentInv
<1> SUFFICES ASSUME Init PROVE SubagentInv
  OBVIOUS
<1>0. RootRun \in Runs /\ 0 \in 0..MaxRuns /\ Unstarted \in RunRecords
  BY BoundAssumption DEF RootRun, Runs, Unstarted, RunRecords
<1> DEFINE root == [Unstarted EXCEPT !.pc = "driving"]
<1>1. root \in RunRecords /\ root.pc = "driving" /\ root.owner = 0 /\ root.monitor = "none"
      /\ root.registered = FALSE /\ root.status = "none"
  BY <1>0 DEF Unstarted, RunRecords
<1>2. run = [r \in Runs |-> IF r = RootRun THEN root ELSE Unstarted]
  BY DEF Init
<1> HIDE DEF root
<1>3. /\ run \in [Runs -> RunRecords] /\ run[RootRun] = root
      /\ \A q \in Runs : /\ run[q].owner = 0 /\ run[q].monitor = "none" /\ run[q].registered = FALSE
                         /\ run[q].pc \in {"none", "driving"} /\ (q # RootRun => run[q].pc = "none")
  <2>1. /\ Unstarted.owner = 0 /\ Unstarted.monitor = "none" /\ Unstarted.registered = FALSE
        /\ Unstarted.pc = "none"
    BY DEF Unstarted
  <2> QED BY <2>1, <1>0, <1>1, <1>2
<1>4. Types
  BY <1>0, <1>3, BoundAssumption DEF Init, Types
<1>5. Started
  BY <1>0, <1>1, <1>3 DEF Started, Runs
<1>6. Permits
  <2>1. Watching = {}
    BY <1>3 DEF Watching
  <2> QED BY <2>1, FS_EmptySet DEF Init, Permits
<1>7. adm = Free /\ adm.pc = "free" /\ adm.by = 0 /\ asked.by = 0 /\ closing.pc = "no" /\ waiter.pc = "idle"
      /\ active = [c \in Children |-> 0] /\ \A c \in Children : doc[c].status = "absent"
  BY DEF Init, Free, None
<1>8. Activity
  BY <1>3, <1>7 DEF Activity, Holding, Saved
<1>9. Askers
  <2>1. \A x \in Runs : x # 0
    BY DEF Runs
  <2> QED BY <2>1, <1>3, <1>7 DEF Askers
<1>10. Collected
  BY <1>3, <1>7 DEF Collected, CompletedLeavesNone
<1>11. Wakeups
  BY <1>7 DEF Wakeups
<1> QED BY <1>4, <1>5, <1>6, <1>8, <1>9, <1>10, <1>11 DEF SubagentInv

\* Every step keeps the invariant.
LEMMA StepInv == ASSUME SubagentInv, [Next]_vars PROVE SubagentInv'
<1>1. CASE Admission
  BY <1>1, StepAdmit, StepAdmissionFails, StepCreateChild, StepPrepareChild, StepCheckParent, StepStartFails,
     StepFailStart, StepStartChild DEF Admission
<1>2. CASE Shutdown
  BY <1>2, StepShutdownBegin, StepShutdownStops, StepShutdownCollects, StepShutdownEnds DEF Shutdown
<1>3. CASE Wait \/ WaitLeaves
  BY <1>3, StepWaitViews, StepWaitLooks, StepWaitWakes, StepWaitLeaves DEF Wait
<1>4. ASSUME NEW r \in Runs, Capture(r) \/ CancelRun(r) \/ Finish(r) \/ FinishTimeout(r) \/ Monitor(r)
      PROVE  SubagentInv'
  <2>1. CASE Finish(r)
    <3>1. CASE \E s \in {"completed", "failed"} : FinishBegin(r, s)
      BY <3>1, StepFinishBegin
    <3>2. CASE FinishCollect(r)
      BY <3>2, StepFinishCollect
    <3>3. CASE \E settled \in BOOLEAN : FinishEnd(r, settled)
      BY <3>3, StepFinishEnd
    <3> QED BY <2>1, <3>1, <3>2, <3>3 DEF Finish
  <2>2. CASE Monitor(r)
    BY <2>2, StepMonitorStops, StepMonitorEnds, StepMonitorRemoves, StepMonitorTells DEF Monitor
  <2> QED BY <1>4, <2>1, <2>2, StepCapture, StepCancelRun, StepFinishTimeout
<1>5. ASSUME NEW r \in Runs, NEW c \in Children, Ask(r, c) \/ WaitBegin(r, c) PROVE SubagentInv'
  BY <1>5, StepAsk, StepWaitBegin
<1>6. CASE UNCHANGED vars
  <2>1. UNCHANGED <<run, doc, active, permits, asked, adm, closing, waiter>>
    BY <1>6 DEF vars
  <2>2. Types'
    BY <2>1 DEF SubagentInv, Types
  <2>3. Started' /\ Permits' /\ Activity' /\ Askers' /\ Collected' /\ Wakeups'
    BY <2>1, CoreKept, AskersKept, CollectedKept, WakeupsKept
  <2> QED BY <2>2, <2>3 DEF SubagentInv
<1> QED BY <1>1, <1>2, <1>3, <1>4, <1>5, <1>6 DEF Next

\* The inductive invariant holds.
LEMMA Inductive == Spec => []SubagentInv
<1>1. SubagentInv /\ [Next]_vars => SubagentInv'
  BY StepInv
<1> QED BY InitInv, <1>1, PTL DEF Spec

\* Children are supervised: every permit is held by an admission or by a monitor that has not seen its child
\* end, never more than max_parallel; a child session has one activation, the one `active` names; a run reported
\* as completed has left no child unfinished; and after shutdown nothing runs (packages/subagent/src/service.rs).
THEOREM SupervisedHolds == Spec => []Supervised
<1>1. ASSUME SubagentInv PROVE Supervised
  <2>1. TypeOK
    <3>1. run \in [Runs -> RunRecords] /\ active \in [Children -> 0..MaxRuns] /\ permits \in 0..MaxParallel
      BY <1>1 DEF SubagentInv, Types
    <3>2. adm.pc \in {"free", "create", "prepare", "check", "start", "refused"}
      BY <1>1 DEF SubagentInv, Types, Free, Admissions
    <3>3. \A c \in Children : doc[c].status \in {"absent", "idle", "running", "ended"}
      BY <1>1 DEF SubagentInv, Types
    <3>4. permits = Cardinality({q \in Runs : run[q].monitor = "watching"}) + (IF adm = Free THEN 0 ELSE 1)
      BY <1>1 DEF SubagentInv, Permits, Watching
    <3>5. \A r \in Runs :
            /\ run[r].pc \in {"none", "driving", "finishing", "settling", "reported"}
            /\ run[r].owner < r /\ run[r].kids \subseteq Runs
            /\ run[r].monitor \in {"none", "watching", "released", "removed", "done"}
      BY <1>1, <3>1 DEF SubagentInv, Started, RunRecords
    <3> QED BY <3>1, <3>2, <3>3, <3>4, <3>5 DEF TypeOK
  <2>2. CompletedLeavesNone
    BY <1>1 DEF SubagentInv, Collected
  <2>3. OneActivation
    BY <1>1 DEF SubagentInv, Activity, OneActivation, Holding
  <2>4. ShutdownComplete
    BY <1>1 DEF SubagentInv, Collected, Askers, ShutdownComplete, Holding, Free
  <2> QED BY <2>1, <2>2, <2>3, <2>4 DEF Supervised
<1> QED BY <1>1, Inductive, PTL

\* A wait that sleeps untold has an activation of its child that has still to settle, an admission of it in
\* progress, or a child whose start was refused (Service::wait against activate, its monitor and fail_start).
THEOREM NoLostWakeupHolds == Spec => []NoLostWakeup
<1>1. ASSUME SubagentInv PROVE NoLostWakeup
  BY <1>1 DEF SubagentInv, Wakeups, Expected, NoLostWakeup
<1> QED BY <1>1, Inductive, PTL
=============================================================================
