----------------------------- MODULE ToolsProofs -----------------------------
(***************************************************************************)
(* Theorems about what an agent works with, for any number of runs, calls, *)
(* editors, paths, directories and inputs.                                 *)
(*                                                                         *)
(* Planner.  The plan tool is the only call of its round, so from the      *)
(* moment its decision is taken to the checkpoint no other call of the run *)
(* changes the plan (PlanAlone, PlanMode), and the plans a run works with  *)
(* form a chain from the one it was seeded with (PlanChain).               *)
(*                                                                         *)
(* Edit.  A call that holds the mutex of its canonical path has in hand    *)
(* what the file holds, so that what it publishes replaces what it read,   *)
(* and its path is inside the roots each time it is checked (EditInv).     *)
(*                                                                         *)
(* Terminal.  What reached the shell is the inputs up to the last one      *)
(* reserved; what is kept of the output is its last bytes, and the text a  *)
(* page shows ends at its cursor (TerminalInv).                            *)
(*                                                                         *)
(* Rules.  In a round the model was shown the rules of a set of            *)
(* directories that contains those known before and grows in the cache     *)
(* only by directories the batch names (RulesShown); a call reads at least *)
(* those, which is why equal rules mean that its own directory's are the   *)
(* ones shown, and why a call that names nothing new is not refused.       *)
(*                                                                         *)
(* Read.  The pages read so far are the lines of the file from the first   *)
(* on, none left out and none repeated, and each of them is within the     *)
(* limit of bytes with its notice (PagesCover).                            *)
(***************************************************************************)
EXTENDS MCTools, SequenceTheorems, WellFoundedInduction, TLAPS

-----------------------------------------------------------------------------
(* Natural numbers                                                         *)

\* A nonempty set of naturals has a least element.
LEMMA LeastElement ==
  ASSUME NEW S, S \subseteq Nat, S # {}
  PROVE  \E x \in S : \A y \in S : x <= y
<1> DEFINE R == OpToRel(<, Nat)
<1>1. IsWellFoundedOn(R, Nat)
  BY NatLessThanWellFounded
<1> HIDE DEF R
<1>2. PICK x \in S : \A y \in S : ~ (<<y, x>> \in R)
  BY <1>1, WFMin, Zenon
<1>3. \A a, b \in Nat : a < b => <<a, b>> \in R
  BY DEF R, OpToRel
<1>4. \A y \in S : y \in Nat /\ x \in Nat
  OBVIOUS
<1>5. \A y \in S : ~(y < x)
  BY <1>2, <1>3, <1>4, Zenon
<1>6. \A y \in S : x <= y
  BY <1>4, <1>5, SMT
<1>7. QED
  BY <1>6

-----------------------------------------------------------------------------
(* The plan of a session                                                   *)

Modes == {"normal", "plan_only"}
Plans == [revision : Nat, mode : Modes, goal : Goals \cup {"none"}, steps : StepLists \cup {<<>>},
          reason : Reasons \cup {"none"}, proposal : Proposals \cup {"none"}]
CallRecords == [tool : Tools \cup {"none"}, pc : {"queued", "decided", "body", "settled", "done"}]

\* What every variable of the planner is.
PlanTypes ==
    /\ saved \in Plans \cup {NoPlan} /\ seed \in Plans \cup {NoPlan} /\ live \in Plans \cup {NoPlan}
    /\ enabled \in BOOLEAN /\ run \in {"none", "live", "ending", "failed"} /\ runs \in Nat
    /\ calls \in [1..Slots -> CallRecords]
    /\ confirmed \subseteq Plans /\ stored \subseteq Plans

\* Between runs nothing of one is left; a run without the planner has no plan and no plan tool.
PlanRun ==
    /\ run = "none" => seed = NoPlan /\ \A i \in 1..Slots : calls[i].pc = "done"
    /\ seed = NoPlan => live = NoPlan /\ \A i \in 1..Slots : calls[i].tool \notin PlanTools
    /\ live = NoPlan => confirmed = {}
    /\ seed # NoPlan /\ live = NoPlan => \A i \in 1..Slots : calls[i].pc = "done"

\* A plan tool is alone from its decision to the checkpoint of its result, and any other call that was
\* let through is still allowed.
PlanAlone ==
    /\ \A i, j \in 1..Slots : i < j /\ (Exclusive(calls[i].tool) \/ Exclusive(calls[j].tool)) =>
          calls[j].pc = "queued" \/ calls[i].pc = "done"
    /\ \A i \in 1..Slots : calls[i].pc \in {"decided", "body"} /\ calls[i].tool \notin PlanTools =>
          seed = NoPlan \/ Allowed(live, calls[i].tool)
    /\ \A i \in 1..Slots : calls[i].pc = "body" => calls[i].tool \notin PlanTools

\* A run keeps the mode it was given, and so does what it stores.
PlanMode ==
    /\ run # "none" => State.mode = IF seed = NoPlan THEN "normal" ELSE seed.mode
    /\ seed # NoPlan /\ live # NoPlan => live.mode = seed.mode
    /\ seed # NoPlan => \A p \in confirmed : p.mode = seed.mode

\* Of two plans with one revision there is one.
OnePlan(p, q) == p.revision = q.revision => p = q
\* The plans of a run form a chain from its seed to its live plan.
PlanChain ==
    seed # NoPlan =>
        /\ live # NoPlan => seed.revision <= live.revision /\ OnePlan(seed, live)
        /\ \A p \in confirmed : /\ seed.revision <= p.revision /\ p.revision <= live.revision
                                /\ OnePlan(p, seed) /\ OnePlan(p, live)
                                /\ \A q \in confirmed : OnePlan(p, q)
        /\ \A p \in stored : OnePlan(p, seed) /\ (p.revision > seed.revision => p \in confirmed)
\* The saved plan is the newest of the stored ones.
PlanStored ==
    /\ IF saved = NoPlan THEN stored = {} ELSE saved \in stored
    /\ \A p, q \in stored : OnePlan(p, q)
    /\ \A p \in stored : p.revision <= saved.revision

PlanInv == PlanTypes /\ PlanRun /\ PlanAlone /\ PlanMode /\ PlanChain /\ PlanStored

\* A plan differs from no plan.
LEMMA PlanIs == \A p \in Plans : p # NoPlan /\ p.revision \in Nat
  BY DEF Plans, NoPlan

\* The plan of a session without one is a plan.
LEMMA StateIs == ASSUME PlanTypes PROVE State \in Plans
  BY DEF PlanTypes, State, Blank, Plans, Modes

\* An advance is the plan with the next revision.
LEMMA AdvanceIs ==
    ASSUME NEW p \in Plans, NEW next \in Advance(p)
    PROVE  next = [p EXCEPT !.revision = @ + 1] /\ next \in Plans /\ next.revision = p.revision + 1 /\ next.mode = p.mode
<1>1. next = [p EXCEPT !.revision = @ + 1]
  BY DEF Advance
<1> QED BY <1>1 DEF Plans

\* A tool's change of the live plan keeps its mode, and is none or has the next revision.
LEMMA OutcomeIs ==
    ASSUME NEW t \in PlanTools, live \in Plans, NEW next \in Outcomes(t)
    PROVE  next \in Plans /\ next.mode = live.mode /\ (next = live \/ next.revision = live.revision + 1)
<1>1. CASE t = "plan_read"
  BY <1>1 DEF Outcomes
<1>2. CASE t = "plan_update"
  <2>1. PICK u \in Updates : next \in Update(live, u)
    BY <1>2 DEF Outcomes
  <2> DEFINE fresh == live.steps = <<>> \/ u.new
             q == [live EXCEPT !.goal = u.goal, !.steps = u.steps,
                               !.proposal = IF fresh THEN "none" ELSE @,
                               !.reason = IF u.reason # "none" \/ fresh THEN u.reason ELSE @]
  <2>2. next = live \/ next \in Advance(q)
    BY <2>1 DEF Update
  <2>3. q \in Plans /\ q.mode = live.mode /\ q.revision = live.revision
    BY DEF Updates, Plans
  <2> HIDE DEF q
  <2> QED BY <2>2, <2>3, AdvanceIs
<1>3. CASE t = "plan_submit"
  <2>1. PICK text \in Proposals : next \in Submit(live, text)
    BY <1>3 DEF Outcomes
  <2> DEFINE q == [live EXCEPT !.proposal = text]
  <2>2. next \in Advance(q)
    BY <2>1 DEF Submit
  <2>3. q \in Plans /\ q.mode = live.mode /\ q.revision = live.revision
    BY DEF Plans
  <2> HIDE DEF q
  <2> QED BY <2>2, <2>3, AdvanceIs
<1> QED BY <1>1, <1>2, <1>3 DEF PlanTools

\* A change of the host is none or has the next revision.
LEMMA ChangeIs ==
    ASSUME NEW p \in Plans,
           NEW next \in EnterPlanMode(p) \cup ResumeExecution(p) \cup Reset(p) \cup Normal(p)
    PROVE  next \in Plans /\ (next = p \/ next.revision = p.revision + 1)
<1> DEFINE a == [p EXCEPT !.mode = "plan_only", !.proposal = "none"]
           b == [p EXCEPT !.mode = "normal"]
           c == [Blank(p.mode) EXCEPT !.revision = p.revision]
<1>1. next = p \/ next \in Advance(a) \/ next \in Advance(b) \/ next \in Advance(c)
  BY DEF EnterPlanMode, ResumeExecution, Reset, Normal
<1>2. \A q \in {a, b, c} : q \in Plans /\ q.revision = p.revision
  BY DEF Plans, Modes, Blank
<1> HIDE DEF a, b, c
<1>3. ASSUME NEW q \in {a, b, c}, next \in Advance(q) PROVE next \in Plans /\ next.revision = p.revision + 1
  BY <1>2, <1>3, AdvanceIs
<1> QED BY <1>1, <1>3

\* The newest of the plans of a run, when they form a chain.
LEMMA RecoveredIs ==
    ASSUME PlanInv, seed # NoPlan
    PROVE  Recovered \in confirmed \cup {seed} /\ \A q \in confirmed : q.revision <= Recovered.revision
<1>1. seed \in Plans /\ confirmed \subseteq Plans
  BY DEF PlanInv, PlanTypes
<1>2. CASE confirmed = {}
  BY <1>2 DEF Recovered
<1>3. CASE confirmed # {}
  <2> DEFINE n == live.revision
             S == {n - p.revision : p \in confirmed}
  <2>1. live \in Plans /\ n \in Nat /\ \A p \in confirmed : p.revision \in Nat /\ p.revision <= n
    BY <1>3, PlanIs DEF PlanInv, PlanTypes, PlanRun, PlanChain
  <2> HIDE DEF n
  <2>2. S \subseteq Nat /\ S # {}
    BY <1>3, <2>1
  <2>3. PICK x \in S : \A y \in S : x <= y
    BY <2>2, LeastElement
  <2>4. PICK p \in confirmed : x = n - p.revision
    BY <2>3
  <2>5. \A q \in confirmed : q.revision <= p.revision
    <3> TAKE q \in confirmed
    <3>1. x <= n - q.revision
      BY <2>3
    <3> QED BY <2>1, <2>4, <3>1
  <2>6. \E r \in confirmed \cup {seed} : \A q \in confirmed : q.revision <= r.revision
    BY <2>5
  <2> QED BY <2>6 DEF Recovered
<1> QED BY <1>2, <1>3

\* The plans of a chain do not conflict.
LEMMA NoConflict == ASSUME PlanInv, seed # NoPlan PROVE ~Conflicts
<1>1. seed \in Plans /\ confirmed \subseteq Plans
  BY DEF PlanInv, PlanTypes
<1>2. \A p \in confirmed : seed.revision <= p.revision /\ OnePlan(p, seed) /\ \A q \in confirmed : OnePlan(p, q)
  BY DEF PlanInv, PlanChain
<1> QED BY <1>1, <1>2, PlanIs DEF Conflicts, OnePlan

\* It holds at the start.
LEMMA PlanInit == Init => PlanInv
<1> SUFFICES ASSUME Init PROVE PlanInv
  OBVIOUS
<1>1. PlanTypes
  BY DEF Init, PlanTypes, CallRecords, NoCall
<1>2. \A i \in 1..Slots : calls[i].pc = "done" /\ calls[i].tool = "none" /\ "none" \notin PlanTools
  BY DEF Init, NoCall, PlanTools
<1> QED BY <1>1, <1>2 DEF Init, PlanInv, PlanRun, PlanAlone, PlanMode, PlanChain, PlanStored

\* What the host changes between runs.
LEMMA ChangeStep == ASSUME PlanInv, Change PROVE PlanInv'
<1>1. PICK next \in EnterPlanMode(State) \cup ResumeExecution(State) \cup Reset(State) \cup Normal(State) :
        saved' = next /\ stored' = stored \cup {next}
  BY DEF Change
<1>2. State \in Plans /\ next \in Plans /\ (next = State \/ next.revision = State.revision + 1)
  BY StateIs, ChangeIs DEF PlanInv
<1>3. run = "none" /\ seed = NoPlan /\ UNCHANGED <<enabled, run, runs, seed, live, calls, confirmed>>
  BY DEF Change, PlanInv, PlanRun
<1>4. next # NoPlan /\ next.revision \in Nat /\ State.revision \in Nat
  BY <1>2, PlanIs
<1>5. \A p \in stored : p.revision \in Nat /\ p.revision <= State.revision /\ OnePlan(p, State)
  <2>1. CASE saved = NoPlan
    BY <2>1 DEF PlanInv, PlanStored
  <2>2. CASE saved # NoPlan
    <3>1. State = saved /\ saved \in stored
      BY <2>2 DEF State, PlanInv, PlanStored
    <3> QED BY <3>1, PlanIs DEF PlanInv, PlanStored, PlanTypes
  <2> QED BY <2>1, <2>2
<1>6. PlanTypes'
  BY <1>1, <1>2, <1>3 DEF PlanInv, PlanTypes
<1>7. PlanRun' /\ PlanAlone' /\ PlanMode' /\ PlanChain'
  BY <1>3 DEF PlanInv, PlanRun, PlanAlone, PlanMode, PlanChain
<1>8. \A p \in stored : OnePlan(p, next) /\ p.revision <= next.revision
  BY <1>2, <1>4, <1>5 DEF OnePlan
<1>9. PlanStored'
  BY <1>1, <1>4, <1>8 DEF PlanInv, PlanStored, OnePlan
<1> QED BY <1>6, <1>7, <1>9 DEF PlanInv

\* A run is started on the saved plan.
LEMMA StartStep == ASSUME PlanInv, Start PROVE PlanInv'
<1>1. State \in Plans
  BY StateIs DEF PlanInv
<1>2. /\ run = "none" /\ run' = "live" /\ runs' = runs + 1 /\ live' = NoPlan /\ confirmed' = {}
      /\ seed' = (IF enabled THEN State ELSE NoPlan) /\ (enabled \/ State.mode = "normal")
      /\ UNCHANGED <<saved, enabled, calls, stored>>
  BY DEF Start
<1>3. seed = NoPlan /\ \A i \in 1..Slots : calls[i].pc = "done" /\ calls[i].tool \notin PlanTools
  BY <1>2 DEF PlanInv, PlanRun
<1>4. PlanTypes'
  BY <1>1, <1>2 DEF PlanInv, PlanTypes
<1>5. State' = State
  BY <1>2 DEF State
<1>6. PlanRun' /\ PlanMode'
  BY <1>1, <1>2, <1>3, <1>5, PlanIs DEF PlanRun, PlanMode
<1>7. PlanAlone'
  BY <1>2, <1>3 DEF PlanAlone
<1>8. PlanStored'
  BY <1>2 DEF PlanInv, PlanStored
<1>9. PlanChain'
  <2> SUFFICES ASSUME seed' # NoPlan PROVE \A p \in stored : OnePlan(p, State) /\ ~(p.revision > State.revision)
    BY <1>2 DEF PlanChain
  <2>1. CASE saved = NoPlan
    BY <2>1 DEF PlanInv, PlanStored
  <2>2. CASE saved # NoPlan
    <3>1. State = saved /\ saved \in stored
      BY <2>2 DEF State, PlanInv, PlanStored
    <3> QED BY <3>1, PlanIs DEF PlanInv, PlanStored, PlanTypes
  <2> QED BY <2>1, <2>2
<1> QED BY <1>4, <1>6, <1>7, <1>8, <1>9 DEF PlanInv

\* A round of the model, with the calls of its reply.
LEMMA ReplyStep == ASSUME PlanInv, Reply PROVE PlanInv'
<1>1. /\ run = "live" /\ live' = (IF live = NoPlan THEN seed ELSE live)
      /\ calls' \in [1..Slots -> [tool : {t \in Tools : Offered(t)}, pc : {"queued"}]]
      /\ UNCHANGED <<saved, enabled, run, runs, seed, confirmed, stored>>
  BY DEF Reply
<1>2. \A i \in 1..Slots : calls'[i].pc = "queued" /\ calls'[i].tool \in Tools /\ Offered(calls'[i].tool)
  BY <1>1
<1>3. PlanTypes'
  <2>1. calls' \in [1..Slots -> CallRecords]
    BY <1>1 DEF CallRecords
  <2> QED BY <1>1, <2>1 DEF PlanInv, PlanTypes
<1>4. PlanRun'
  BY <1>1, <1>2 DEF PlanInv, PlanRun, Offered
<1>5. PlanAlone'
  BY <1>2 DEF PlanAlone
<1>6. PlanMode' /\ PlanStored'
  <2>1. State' = State
    BY <1>1 DEF State
  <2> QED BY <1>1, <2>1 DEF PlanInv, PlanMode, PlanStored
<1>7. PlanChain'
  <2>1. CASE live = NoPlan
    <3>1. confirmed = {} /\ live' = seed
      BY <1>1, <2>1 DEF PlanInv, PlanRun
    <3>2. seed # NoPlan => seed.revision \in Nat
      BY PlanIs DEF PlanInv, PlanTypes
    <3> QED BY <1>1, <3>1, <3>2 DEF PlanInv, PlanChain, OnePlan
  <2>2. CASE live # NoPlan
    BY <1>1, <2>2 DEF PlanInv, PlanChain
  <2> QED BY <2>1, <2>2
<1> QED BY <1>3, <1>4, <1>5, <1>6, <1>7 DEF PlanInv

\* A step of a call that leaves the plans alone: it keeps its tool, and does not leave "done".
LEMMA CallStep ==
    ASSUME PlanInv, NEW i \in 1..Slots, NEW where \in {"decided", "body", "settled", "done"}, At(i, where),
           calls[i].pc # "done",
           where = "decided" => seed = NoPlan \/ Allowed(live, calls[i].tool),
           where = "body" => calls[i].pc = "decided" /\ calls[i].tool \notin PlanTools,
           calls[i].pc # "queued" \/ \A j \in 1..(i - 1) :
               Exclusive(calls[i].tool) \/ Exclusive(calls[j].tool) => calls[j].pc = "done",
           UNCHANGED <<saved, enabled, run, runs, seed, live, confirmed, stored>>
    PROVE  PlanInv'
<1>1. calls' = [calls EXCEPT ![i].pc = where] /\ calls \in [1..Slots -> CallRecords] /\ Slots \in Nat
  BY BoundAssumption DEF At, PlanInv, PlanTypes
<1>2. /\ \A j \in 1..Slots : calls'[j].tool = calls[j].tool /\ (j # i => calls'[j] = calls[j])
      /\ calls'[i].pc = where
  BY <1>1 DEF CallRecords
<1>3. PlanTypes'
  <2>1. calls' \in [1..Slots -> CallRecords]
    BY <1>1 DEF CallRecords
  <2> QED BY <2>1 DEF PlanInv, PlanTypes
<1>4. PlanRun'
  <2>1. run # "none" /\ (seed # NoPlan => live # NoPlan)
    BY DEF PlanInv, PlanRun
  <2> QED BY <1>2, <2>1 DEF PlanInv, PlanRun
<1>5. PlanAlone'
  <2>1. ASSUME NEW j \in 1..Slots, NEW k \in 1..Slots, j < k, Exclusive(calls'[j].tool) \/ Exclusive(calls'[k].tool)
        PROVE  calls'[k].pc = "queued" \/ calls'[j].pc = "done"
    <3>1. calls[k].pc = "queued" \/ calls[j].pc = "done"
      BY <1>2, <2>1 DEF PlanInv, PlanAlone
    <3>2. CASE j = i
      BY <1>2, <2>1, <3>1, <3>2
    <3>3. CASE k = i
      <4>1. calls[j].pc = "done"
        <5>1. j \in 1..(i - 1)
          BY <1>1, <2>1, <3>3
        <5> QED BY <1>2, <2>1, <3>1, <3>3, <5>1
      <4> QED BY <1>2, <2>1, <3>3, <4>1
    <3>4. CASE j # i /\ k # i
      BY <1>2, <3>1, <3>4
    <3> QED BY <3>2, <3>3, <3>4
  <2>2. ASSUME NEW j \in 1..Slots, calls'[j].pc \in {"decided", "body"}, calls'[j].tool \notin PlanTools
        PROVE  seed' = NoPlan \/ Allowed(live', calls'[j].tool)
    BY <1>2, <2>2 DEF PlanInv, PlanAlone
  <2>3. ASSUME NEW j \in 1..Slots, calls'[j].pc = "body" PROVE calls'[j].tool \notin PlanTools
    BY <1>2, <2>3 DEF PlanInv, PlanAlone
  <2> QED BY <2>1, <2>2, <2>3, Zenon DEF PlanAlone, Exclusive
<1>6. PlanMode' /\ PlanChain' /\ PlanStored'
  <2>1. State' = State
    BY DEF State
  <2> QED BY <2>1 DEF PlanInv, PlanMode, PlanChain, PlanStored
<1> QED BY <1>3, <1>4, <1>5, <1>6 DEF PlanInv

\* The steps of a call that leave the plans alone.
LEMMA PolicyStep == ASSUME PlanInv, NEW i \in 1..Slots, Policy(i) PROVE PlanInv'
<1> DEFINE where == IF seed = NoPlan \/ Allowed(live, calls[i].tool) THEN "decided" ELSE "done"
<1>1. At(i, where) /\ calls[i].pc = "queued" /\ UNCHANGED <<saved, enabled, run, runs, seed, live, confirmed, stored>>
  BY DEF Policy
<1>2. where \in {"decided", "done"} /\ (where = "decided" => seed = NoPlan \/ Allowed(live, calls[i].tool))
  OBVIOUS
<1>3. \A j \in 1..(i - 1) : Exclusive(calls[i].tool) \/ Exclusive(calls[j].tool) => calls[j].pc = "done"
  BY DEF Policy
<1> HIDE DEF where
<1> QED BY <1>1, <1>2, <1>3, CallStep
\* A tool with a body, and a plan tool that is refused.
LEMMA BodyStep == ASSUME PlanInv, NEW i \in 1..Slots, Enter(i) \/ Leave(i) \/ ExecuteFails(i) PROVE PlanInv'
<1>1. CASE Enter(i)
  <2>1. At(i, "body") /\ calls[i].pc = "decided" /\ calls[i].tool \notin PlanTools
        /\ UNCHANGED <<saved, enabled, run, runs, seed, live, confirmed, stored>>
    BY <1>1 DEF Enter
  <2> QED BY <2>1, CallStep
<1>2. CASE Leave(i)
  <2>1. At(i, "settled") /\ calls[i].pc = "body" /\ UNCHANGED <<saved, enabled, run, runs, seed, live, confirmed, stored>>
    BY <1>2 DEF Leave
  <2> QED BY <2>1, CallStep
<1>3. CASE ExecuteFails(i)
  <2>1. At(i, "settled") /\ calls[i].pc = "decided"
        /\ UNCHANGED <<saved, enabled, run, runs, seed, live, confirmed, stored>>
    BY <1>3 DEF ExecuteFails
  <2> QED BY <2>1, CallStep
<1> QED BY <1>1, <1>2, <1>3

\* A plan tool's body: it is alone, so the plan changes under no other call.
LEMMA ExecuteStep == ASSUME PlanInv, NEW i \in 1..Slots, Execute(i) PROVE PlanInv'
<1>1. PICK next \in Outcomes(calls[i].tool) :
        /\ live' = next
        /\ \/ confirmed' = confirmed \cup {next} /\ run' = run
           \/ confirmed' = confirmed /\ run' = "ending"
  BY DEF Execute
<1>2. /\ run = "live" /\ calls[i].pc = "decided" /\ calls[i].tool \in PlanTools
      /\ calls' = [calls EXCEPT ![i].pc = "settled"] /\ UNCHANGED <<saved, enabled, runs, seed, stored>>
  BY DEF Execute, At
<1>3. calls \in [1..Slots -> CallRecords] /\ Slots \in Nat
  BY BoundAssumption DEF PlanInv, PlanTypes
<1>4. seed # NoPlan /\ live # NoPlan /\ seed \in Plans /\ live \in Plans
  BY <1>2 DEF PlanInv, PlanRun, PlanTypes
<1>5. next \in Plans /\ next.mode = live.mode /\ (next = live \/ next.revision = live.revision + 1) /\ next # NoPlan
  BY <1>1, <1>2, <1>4, OutcomeIs, PlanIs
<1>6. /\ \A j \in 1..Slots : calls'[j].tool = calls[j].tool /\ (j # i => calls'[j] = calls[j])
      /\ calls'[i].pc = "settled"
  BY <1>2, <1>3 DEF CallRecords
<1>7. PlanTypes'
  <2>1. calls' \in [1..Slots -> CallRecords]
    BY <1>2, <1>3 DEF CallRecords
  <2>2. confirmed' \subseteq Plans /\ run' \in {"none", "live", "ending", "failed"}
    BY <1>1, <1>2, <1>5 DEF PlanInv, PlanTypes
  <2> QED BY <1>1, <1>2, <1>5, <2>1, <2>2 DEF PlanInv, PlanTypes
<1>8. PlanRun'
  BY <1>1, <1>2, <1>4, <1>5 DEF PlanRun
<1>9. \A j \in 1..Slots : j # i => calls[j].pc \in {"queued", "done"}
  <2> SUFFICES ASSUME NEW j \in 1..Slots, j # i PROVE calls[j].pc \in {"queued", "done"}
    OBVIOUS
  <2>1. CASE j < i
    BY <1>2, <2>1 DEF PlanInv, PlanAlone, Exclusive
  <2>2. CASE i < j
    BY <1>2, <2>2 DEF PlanInv, PlanAlone, Exclusive
  <2> QED BY <1>3, <2>1, <2>2
<1>10. PlanAlone'
  <2>1. ASSUME NEW j \in 1..Slots, NEW k \in 1..Slots, j < k, Exclusive(calls'[j].tool) \/ Exclusive(calls'[k].tool)
        PROVE  calls'[k].pc = "queued" \/ calls'[j].pc = "done"
    <3>1. calls[k].pc = "queued" \/ calls[j].pc = "done"
      BY <1>6, <2>1 DEF PlanInv, PlanAlone
    <3> QED BY <1>2, <1>3, <1>6, <1>9, <2>1, <3>1
  <2>2. ASSUME NEW j \in 1..Slots PROVE calls'[j].pc \notin {"decided", "body"}
    BY <1>6, <1>9
  <2> QED BY <2>1, <2>2, Zenon DEF PlanAlone, Exclusive
<1>11. PlanMode'
  <2>1. State' = State
    BY <1>2 DEF State
  <2> QED BY <1>1, <1>2, <1>4, <1>5, <2>1 DEF PlanInv, PlanMode
<1>12. PlanStored'
  BY <1>2 DEF PlanInv, PlanStored
<1>13. PlanChain'
  <2>1. /\ seed.revision \in Nat /\ live.revision \in Nat /\ next.revision \in Nat
        /\ \A p \in confirmed : p.revision \in Nat
    BY <1>4, <1>5, PlanIs DEF PlanInv, PlanTypes
  <2>2. live.revision <= next.revision /\ seed.revision <= next.revision /\ OnePlan(seed, next)
    BY <1>4, <1>5, <2>1 DEF PlanInv, PlanChain, OnePlan
  <2>3. \A p \in confirmed : p.revision <= next.revision /\ OnePlan(p, next)
    BY <1>4, <1>5, <2>1 DEF PlanInv, PlanChain, OnePlan
  <2>4. \A p \in confirmed : seed.revision <= p.revision /\ OnePlan(p, seed) /\ \A q \in confirmed : OnePlan(p, q)
    BY <1>4 DEF PlanInv, PlanChain
  <2>5. confirmed' \in {confirmed, confirmed \cup {next}}
    BY <1>1
  <2>6. \A p \in confirmed' : /\ seed.revision <= p.revision /\ p.revision <= next.revision
                              /\ OnePlan(p, seed) /\ OnePlan(p, next)
                              /\ \A q \in confirmed' : OnePlan(p, q)
    BY <2>2, <2>3, <2>4, <2>5, <2>1 DEF OnePlan
  <2>7. \A p \in stored : OnePlan(p, seed) /\ (p.revision > seed.revision => p \in confirmed')
    BY <1>4, <2>5 DEF PlanInv, PlanChain
  <2> QED BY <1>1, <1>2, <2>2, <2>6, <2>7 DEF PlanChain
<1> QED BY <1>7, <1>8, <1>10, <1>11, <1>12, <1>13 DEF PlanInv

\* A checkpoint replaces the saved plan by the newest of the run.
LEMMA CommitPlanStep == ASSUME PlanInv, NEW ok \in BOOLEAN, Commit(ok) PROVE PlanInv'
<1>1. /\ run \in {"live", "ending"} /\ run' = (IF ok THEN run ELSE "failed")
      /\ calls' = [i \in 1..Slots |-> IF ok /\ calls[i].pc = "settled" THEN [calls[i] EXCEPT !.pc = "done"] ELSE calls[i]]
      /\ UNCHANGED <<enabled, runs, seed, live, confirmed>>
  BY DEF Commit
<1>2. \/ saved' = Written /\ stored' = stored \cup confirmed \cup ({Written} \ {NoPlan})
      \/ UNCHANGED <<saved, stored>>
  BY DEF Commit
<1>3. calls \in [1..Slots -> CallRecords]
  BY DEF PlanInv, PlanTypes
<1>4. \A i \in 1..Slots : /\ calls'[i].tool = calls[i].tool
                          /\ calls'[i] = calls[i] \/ (calls[i].pc = "settled" /\ calls'[i].pc = "done")
                          /\ calls'[i] \in CallRecords
  BY <1>1, <1>3 DEF CallRecords
<1>5. PlanRun'
  BY <1>1, <1>4 DEF PlanInv, PlanRun
<1>6. PlanAlone'
  <2>1. \A i \in 1..Slots : /\ calls'[i].pc \in {"decided", "body"} => calls[i].pc = calls'[i].pc
                            /\ calls[i].pc \in {"queued", "done"} => calls[i].pc = calls'[i].pc
    BY <1>4
  <2> QED BY <1>1, <1>4, <2>1 DEF PlanInv, PlanAlone, Exclusive
<1>7. confirmed \subseteq Plans /\ stored \subseteq Plans /\ saved \in Plans \cup {NoPlan} /\ seed \in Plans \cup {NoPlan}
  BY DEF PlanInv, PlanTypes
<1>8. CASE seed = NoPlan \/ UNCHANGED <<saved, stored>>
  <2>1. UNCHANGED <<saved, stored>>
    <3>1. ASSUME seed = NoPlan, saved' = saved, stored' = stored \cup confirmed \cup ({saved} \ {NoPlan})
          PROVE  stored' = stored
      BY <3>1 DEF PlanInv, PlanRun, PlanStored
    <3> QED BY <1>2, <1>8, <3>1 DEF Written
  <2>2. State' = State
    BY <2>1 DEF State
  <2>3. PlanTypes'
    BY <1>1, <1>3, <1>4, <2>1 DEF PlanInv, PlanTypes
  <2>4. PlanMode' /\ PlanChain' /\ PlanStored'
    BY <1>1, <2>1, <2>2 DEF PlanInv, PlanMode, PlanChain, PlanStored
  <2> QED BY <1>5, <1>6, <2>3, <2>4 DEF PlanInv
<1>9. CASE seed # NoPlan /\ saved' = Written /\ stored' = stored \cup confirmed \cup ({Written} \ {NoPlan})
  <2> DEFINE new == Recovered
  <2>1. new \in confirmed \cup {seed} /\ \A q \in confirmed : q.revision <= new.revision
    BY <1>9, RecoveredIs
  <2>2. saved' = new /\ new \in Plans /\ new # NoPlan /\ stored' = stored \cup confirmed \cup {new}
    BY <1>7, <1>9, <2>1, PlanIs DEF Written
  <2> HIDE DEF new
  <2>3. PlanTypes'
    BY <1>1, <1>3, <1>4, <1>7, <2>2 DEF PlanInv, PlanTypes
  <2>4. PlanMode'
    <3>1. State' = new /\ new.mode = seed.mode
      BY <1>9, <2>1, <2>2 DEF State, PlanInv, PlanMode
    <3> QED BY <1>1, <1>9, <3>1 DEF PlanInv, PlanMode
  <2>5. /\ seed \in Plans /\ \A p \in Plans : p.revision \in Nat
        /\ \A p \in confirmed : seed.revision <= p.revision /\ OnePlan(p, seed) /\ \A q \in confirmed : OnePlan(p, q)
        /\ \A p \in stored : OnePlan(p, seed) /\ (p.revision > seed.revision => p \in confirmed)
    BY <1>7, <1>9, PlanIs DEF PlanInv, PlanChain
  <2>6. \A p \in stored' : p.revision <= new.revision
    <3>1. seed.revision <= new.revision
      BY <2>1, <2>5
    <3> QED BY <1>7, <2>1, <2>2, <2>5, <3>1
  <2>7. PlanChain'
    <3>1. \A p \in stored' : OnePlan(p, seed) /\ (p.revision > seed.revision => p \in confirmed)
      BY <2>1, <2>2, <2>5 DEF OnePlan
    <3> QED BY <1>1, <1>9, <3>1 DEF PlanInv, PlanChain
  <2>8. PlanStored'
    <3>1. \A p \in stored : \A q \in confirmed \cup {seed} : OnePlan(p, q) /\ OnePlan(q, p)
      <4> SUFFICES ASSUME NEW p \in stored, NEW q \in confirmed \cup {seed}, p.revision = q.revision PROVE p = q
        BY DEF OnePlan
      <4>1. CASE p.revision > seed.revision
        BY <2>5, <4>1 DEF OnePlan
      <4>2. CASE ~(p.revision > seed.revision)
        <5>1. p.revision = seed.revision
          BY <1>7, <2>5, <4>2
        <5> QED BY <2>5, <5>1 DEF OnePlan
      <4> QED BY <4>1, <4>2
    <3>2. \A p, q \in stored' : OnePlan(p, q)
      <4>1. \A p, q \in confirmed \cup {seed} : OnePlan(p, q)
        BY <2>5 DEF OnePlan
      <4>2. \A p, q \in stored : OnePlan(p, q)
        BY DEF PlanInv, PlanStored
      <4> QED BY <2>1, <2>2, <3>1, <4>1, <4>2
    <3> QED BY <2>2, <2>6, <3>2 DEF PlanStored
  <2> QED BY <1>5, <1>6, <2>3, <2>4, <2>7, <2>8 DEF PlanInv
<1> QED BY <1>2, <1>8, <1>9

\* A run that ends, and a process that dies, leave the saved plan.
LEMMA OverStep == ASSUME PlanInv, End \/ Restart PROVE PlanInv'
<1>1. /\ run' = "none" /\ live' = NoPlan /\ confirmed' = {} /\ seed' = NoPlan
      /\ calls' = [i \in 1..Slots |-> NoCall] /\ enabled' \in BOOLEAN
      /\ UNCHANGED <<saved, runs, stored>>
  BY DEF End, Restart, Over, PlanInv, PlanTypes
<1>2. PlanTypes'
  <2>1. calls' \in [1..Slots -> CallRecords]
    BY <1>1 DEF CallRecords, NoCall
  <2> QED BY <1>1, <2>1 DEF PlanInv, PlanTypes
<1>3. \A i \in 1..Slots : calls'[i].pc = "done" /\ calls'[i].tool = "none" /\ "none" \notin PlanTools
  BY <1>1 DEF NoCall, PlanTools
<1>4. PlanRun' /\ PlanAlone' /\ PlanMode' /\ PlanChain'
  BY <1>1, <1>3 DEF PlanRun, PlanAlone, PlanMode, PlanChain
<1>5. PlanStored'
  BY <1>1 DEF PlanInv, PlanStored
<1> QED BY <1>2, <1>4, <1>5 DEF PlanInv

\* A step that changes nothing of the plans.
LEMMA PlanStutters == ASSUME PlanInv, UNCHANGED vars PROVE PlanInv'
<1>1. UNCHANGED <<saved, enabled, run, runs, seed, live, calls, confirmed, stored>>
  BY DEF vars
<1>2. PlanTypes' /\ PlanRun'
  BY <1>1 DEF PlanInv, PlanTypes, PlanRun
<1>3. PlanAlone'
  BY <1>1 DEF PlanInv, PlanAlone
<1>4. PlanMode' /\ PlanChain' /\ PlanStored'
  <2>1. State' = State
    BY <1>1 DEF State
  <2> QED BY <1>1, <2>1 DEF PlanInv, PlanMode, PlanChain, PlanStored
<1> QED BY <1>2, <1>3, <1>4 DEF PlanInv

\* The behaviours of the project's tools, as the planner sees them.
LEMMA PlannerStep == AllNext => [Next]_vars
  BY DEF AllNext, vars

\* The invariant is one.
LEMMA PlanInvariant == AllSpec => []PlanInv
<1>1. AllInit => PlanInv
  BY PlanInit DEF AllInit
<1>2. PlanInv /\ [AllNext]_allVars => PlanInv'
  <2> SUFFICES ASSUME PlanInv, [AllNext]_allVars PROVE PlanInv'
    OBVIOUS
  <2>1. Next \/ UNCHANGED vars
    BY PlannerStep DEF allVars
  <2>2. CASE Next
    BY <2>2, ChangeStep, StartStep, ReplyStep, OverStep, PolicyStep, BodyStep, ExecuteStep, CommitPlanStep DEF Next
  <2> QED BY <2>1, <2>2, PlanStutters
<1> QED BY <1>1, <1>2, PTL DEF AllSpec

\* The host decides what a run may do: a tool with side effects is in flight only under a mode the host
\* chose, none after a proposal; and a revision names one plan for ever, so recovering the plan from a
\* checkpoint finds no conflict (Planner::allowed, PlanSnapshot::update, recover_checkpoint).
THEOREM PlanHonestHolds == AllSpec => []PlanHonest
<1>1. ASSUME PlanInv PROVE PlanHonest
  <2> USE <1>1
  <2>1. HostDecides
    <3> SUFFICES ASSUME NEW i \in 1..Slots, calls[i].pc = "body"
                 PROVE  /\ calls[i].tool = "write" => State.mode = "normal"
                        /\ live # NoPlan => ~AwaitsHost(live)
      BY DEF HostDecides
    <3>1. run # "none" /\ calls[i].tool \notin PlanTools /\ (seed = NoPlan \/ Allowed(live, calls[i].tool))
      BY DEF PlanInv, PlanRun, PlanAlone
    <3>2. (seed # NoPlan => live # NoPlan) /\ (live # NoPlan => seed # NoPlan)
      BY DEF PlanInv, PlanRun
    <3>3. ASSUME live # NoPlan PROVE ~AwaitsHost(live) /\ (calls[i].tool = "write" => live.mode = "normal")
      BY <3>1, <3>2, <3>3 DEF Allowed, PlanTools
    <3> QED BY <3>1, <3>2, <3>3 DEF PlanInv, PlanMode
  <2>2. RevisionNamesPlan
    BY NoConflict DEF RevisionNamesPlan, PlanInv, PlanStored, OnePlan
  <2> QED BY <2>1, <2>2 DEF PlanHonest
<1> QED BY <1>1, PlanInvariant, PTL

-----------------------------------------------------------------------------
(* The edit tool                                                           *)

EditFields == {"pc", "name", "target", "before", "after", "edits"}
\* Who holds the mutex of the file it works on.
Holding == {c \in Editors : edit[c].pc \in {"read", "ready"}}

\* Calls work on canonical paths inside the roots; one holds a file, and what it has read is there.
EditInv ==
    /\ DOMAIN texts = Inside \cup {Outside} /\ link \in [Names -> Inside \cup {Outside}] /\ relinks \in Nat
    /\ DOMAIN edit = Editors
    /\ \A c \in Editors : /\ edit[c] = [f \in EditFields |-> edit[c][f]]
                          /\ edit[c].pc \in {"idle", "wait", "read", "ready", "done"}
                          /\ edit[c].pc # "idle" => edit[c].target \in Inside
    /\ \A c, d \in Holding : c # d => edit[c].target # edit[d].target
    /\ \A c \in Holding : texts[edit[c].target] = edit[c].before
    /\ texts[Outside] = InitialText

\* It holds at the start.
LEMMA EditInit == FileEdit!Init => EditInv
<1> SUFFICES ASSUME FileEdit!Init PROVE EditInv
  OBVIOUS
<1>1. \A c \in Editors : edit[c] = [pc |-> "idle", name |-> Outside, target |-> Outside,
                                    before |-> <<>>, after |-> <<>>, edits |-> <<>>]
  BY DEF FileEdit!Init
<1>2. Holding = {}
  BY <1>1 DEF Holding
<1>3. \A c \in Editors : edit[c] = [f \in EditFields |-> edit[c][f]] /\ edit[c].pc = "idle"
  BY <1>1 DEF EditFields
<1> QED BY <1>2, <1>3, PathsAssumption DEF EditInv, FileEdit!Init, FileEdit!FilePaths

\* A call's step that neither takes a mutex nor changes a file.
LEMMA EditorStep ==
    ASSUME EditInv, NEW c \in Editors, NEW e, edit' = [edit EXCEPT ![c] = e],
           e = [f \in EditFields |-> e[f]], e.pc \in {"wait", "read", "ready", "done"}, e.target \in Inside,
           e.pc \in {"read", "ready"} =>
               /\ texts[e.target] = e.before
               /\ \A d \in Holding : d # c => edit[d].target # e.target,
           UNCHANGED <<texts, link, relinks>>
    PROVE  EditInv'
<1>1. edit'[c] = e /\ DOMAIN edit' = Editors /\ \A d \in Editors : d # c => edit'[d] = edit[d]
  BY DEF EditInv
<1>2. \A d \in Editors : /\ edit'[d] = [f \in EditFields |-> edit'[d][f]]
                         /\ edit'[d].pc \in {"idle", "wait", "read", "ready", "done"}
                         /\ edit'[d].pc # "idle" => edit'[d].target \in Inside
  BY <1>1 DEF EditInv
<1>3. Holding' = IF e.pc \in {"read", "ready"} THEN Holding \cup {c} ELSE Holding \ {c}
  BY <1>1 DEF Holding
<1>4. \A d \in Holding' : IF d = c THEN edit'[d] = e /\ e.pc \in {"read", "ready"}
                          ELSE d \in Holding /\ edit'[d] = edit[d]
  BY <1>1, <1>3 DEF Holding
<1>5. \A d, b \in Holding' : d # b => edit'[d].target # edit'[b].target
  <2>1. \A d, b \in Holding : d # b => edit[d].target # edit[b].target
    BY DEF EditInv
  <2>2. e.pc \in {"read", "ready"} => \A d \in Holding : d # c => edit[d].target # e.target
    OBVIOUS
  <2>3. \A b \in Holding' : b # c => edit'[c].target # edit'[b].target \/ c \notin Holding'
    BY <1>4, <2>2
  <2>4. \A d, b \in Holding' : d # c /\ b # c /\ d # b => edit'[d].target # edit'[b].target
    BY <1>4, <2>1
  <2> QED BY <2>3, <2>4
<1>6. \A d \in Holding' : texts'[edit'[d].target] = edit'[d].before
  BY <1>4 DEF EditInv
<1> QED BY <1>1, <1>2, <1>5, <1>6 DEF EditInv

\* A call that returns early has written nothing.
LEMMA ReturnStep ==
    ASSUME EditInv, NEW c \in Editors, edit[c].pc # "idle", FileEdit!Return(c), UNCHANGED <<texts, link, relinks>>
    PROVE  EditInv'
<1> DEFINE e == [edit[c] EXCEPT !.pc = "done"]
<1>1. e = [f \in EditFields |-> e[f]] /\ e.pc = "done" /\ e.target = edit[c].target
  BY DEF EditInv, EditFields
<1>2. edit' = [edit EXCEPT ![c] = e] /\ edit[c].target \in Inside
  BY DEF FileEdit!Return, EditInv
<1> HIDE DEF e
<1> QED BY <1>1, <1>2, EditorStep

\* The steps that change no file.
LEMMA CallEditStep == ASSUME EditInv, NEW c \in Editors, NEW name \in Names, FileEdit!Call(c, name) PROVE EditInv'
<1> DEFINE e == [edit[c] EXCEPT !.pc = "wait", !.name = name, !.target = link[name]]
<1>1. e = [f \in EditFields |-> e[f]] /\ e.pc = "wait" /\ e.target = link[name]
  BY DEF EditInv, EditFields
<1>2. edit' = [edit EXCEPT ![c] = e] /\ link[name] \in Inside /\ UNCHANGED <<texts, link, relinks>>
  <2>1. /\ edit' = [edit EXCEPT ![c].pc = "wait", ![c].name = name, ![c].target = link[name]]
        /\ link[name] \in Inside /\ UNCHANGED <<texts, link, relinks>>
    BY DEF FileEdit!Call, FileEdit!Allowed
  <2>2. [edit EXCEPT ![c].pc = "wait", ![c].name = name, ![c].target = link[name]] = [edit EXCEPT ![c] = e]
    BY DEF EditInv
  <2> QED BY <2>1, <2>2
<1> HIDE DEF e
<1> QED BY <1>1, <1>2, EditorStep
\* Under the mutex: nobody else holds the file that is read.
LEMMA ReadEditStep == ASSUME EditInv, NEW c \in Editors, FileEdit!Read(c) PROVE EditInv'
<1>1. edit[c].pc = "wait" /\ UNCHANGED <<texts, link, relinks>>
      /\ \A d \in Holding : edit[d].target # edit[c].target
  BY DEF FileEdit!Read, FileEdit!LockKey, Holding
<1>2. CASE FileEdit!Recheck(c)
  <2> DEFINE t == texts[edit[c].target]
             e == [edit[c] EXCEPT !.pc = "read", !.before = t]
  <2>1. e = [f \in EditFields |-> e[f]] /\ e.pc = "read" /\ e.target = edit[c].target /\ e.before = t
    BY DEF EditInv, EditFields
  <2>2. edit' = [edit EXCEPT ![c].pc = "read", ![c].before = texts[edit[c].target]]
    BY <1>2 DEF FileEdit!Read
  <2>3. edit' = [edit EXCEPT ![c] = e] /\ edit[c].target \in Inside
    BY <1>1, <2>2 DEF EditInv
  <2> HIDE DEF e
  <2> QED BY <1>1, <2>1, <2>3, EditorStep
<1>3. CASE FileEdit!Return(c)
  BY <1>1, <1>3, ReturnStep
<1> QED BY <1>2, <1>3 DEF FileEdit!Read
\* The holder of the mutex computes a text or fails.
LEMMA TransformStep ==
    ASSUME EditInv, NEW c \in Editors, NEW list, FileEdit!Edit(c, list) \/ FileEdit!Write(c) PROVE EditInv'
<1>1. edit[c].pc = "read" /\ UNCHANGED <<texts, link, relinks>> /\ c \in Holding
  BY DEF FileEdit!Edit, FileEdit!Write, Holding
<1>2. /\ texts[edit[c].target] = edit[c].before /\ edit[c].target \in Inside
      /\ \A d \in Holding : d # c => edit[d].target # edit[c].target
  BY <1>1 DEF EditInv
<1>3. ASSUME NEW e, edit' = [edit EXCEPT ![c] = e], e = [f \in EditFields |-> e[f]], e.pc = "ready",
             e.target = edit[c].target, e.before = edit[c].before
      PROVE  EditInv'
  BY <1>1, <1>2, <1>3, EditorStep
<1>4. CASE FileEdit!Return(c)
  BY <1>1, <1>4, ReturnStep
<1>5. CASE FileEdit!Write(c)
  <2> DEFINE e == [edit[c] EXCEPT !.pc = "ready", !.after = <<"a">>]
  <2>1. e = [f \in EditFields |-> e[f]] /\ e.pc = "ready" /\ e.target = edit[c].target /\ e.before = edit[c].before
    <3>1. edit[c] = [f \in EditFields |-> edit[c][f]]
      BY DEF EditInv
    <3> QED BY <3>1 DEF EditFields
  <2>2. edit' = [edit EXCEPT ![c].pc = "ready", ![c].after = <<"a">>]
    BY <1>5 DEF FileEdit!Write
  <2>3. edit' = [edit EXCEPT ![c] = e]
    BY <2>2 DEF EditInv
  <2> HIDE DEF e
  <2> QED BY <1>3, <2>1, <2>3
<1>6. CASE FileEdit!Edit(c, list) /\ ~FileEdit!Return(c)
  <2>1. PICK text : edit' = [edit EXCEPT ![c].pc = "ready", ![c].after = text, ![c].edits = list]
    BY <1>6 DEF FileEdit!Edit
  <2> DEFINE e == [edit[c] EXCEPT !.pc = "ready", !.after = text, !.edits = list]
  <2>2. e = [f \in EditFields |-> e[f]] /\ e.pc = "ready" /\ e.target = edit[c].target /\ e.before = edit[c].before
    BY DEF EditInv, EditFields
  <2>3. edit' = [edit EXCEPT ![c] = e]
    BY <2>1 DEF EditInv
  <2> HIDE DEF e
  <2> QED BY <1>3, <2>2, <2>3
<1> QED BY <1>4, <1>5, <1>6

\* The rename: it replaces the text that was read, and no other call holds the file.
LEMMA PersistStep ==
    ASSUME EditInv, NEW c \in Editors, FileEdit!Persist(c)
    PROVE  /\ EditInv' /\ edit[c].pc = "ready"
           /\ \A d \in Editors : d # c => edit'[d] = edit[d]
<1>1. /\ edit[c].pc = "ready" /\ link[edit[c].target] = edit[c].target
      /\ texts' = [texts EXCEPT ![edit[c].target] = edit[c].after] /\ UNCHANGED <<link, relinks>>
      /\ edit' = [edit EXCEPT ![c].pc = "done"]
  <2>1. edit[c].pc = "ready" /\ link[edit[c].target] = edit[c].target
        /\ texts' = [texts EXCEPT ![link[edit[c].target]] = edit[c].after] /\ UNCHANGED <<link, relinks>>
        /\ edit' = [edit EXCEPT ![c].pc = "done"]
    BY DEF FileEdit!Persist, FileEdit!Recheck, FileEdit!Return
  <2> QED BY <2>1
<1> DEFINE e == [edit[c] EXCEPT !.pc = "done"]
<1>2. e = [f \in EditFields |-> e[f]] /\ e.pc = "done" /\ e.target = edit[c].target
  BY DEF EditInv, EditFields
<1>3. edit' = [edit EXCEPT ![c] = e]
  BY <1>1 DEF EditInv
<1> HIDE DEF e
<1>4. edit'[c] = e /\ DOMAIN edit' = Editors /\ \A d \in Editors : d # c => edit'[d] = edit[d]
  BY <1>3 DEF EditInv
<1>5. edit[c].target \in Inside /\ c \in Holding
  BY <1>1 DEF EditInv, Holding
<1>6. Holding' = Holding \ {c}
  BY <1>2, <1>4 DEF Holding
<1>7. \A d \in Holding' : edit'[d] = edit[d] /\ edit[d].target # edit[c].target /\ texts'[edit[d].target] = texts[edit[d].target]
  <2>1. ASSUME NEW d \in Holding' PROVE edit'[d] = edit[d] /\ edit[d].target # edit[c].target
    BY <1>4, <1>5, <1>6, <2>1 DEF EditInv, Holding
  <2>2. ASSUME NEW f \in Inside, f # edit[c].target PROVE texts'[f] = texts[f]
    BY <1>1, <2>2 DEF EditInv
  <2>3. \A d \in Holding' : edit[d].target \in Inside
    BY <1>6 DEF EditInv, Holding
  <2> QED BY <2>1, <2>2, <2>3
<1>8. \A d \in Editors : /\ edit'[d] = [f \in EditFields |-> edit'[d][f]]
                         /\ edit'[d].pc \in {"idle", "wait", "read", "ready", "done"}
                         /\ edit'[d].pc # "idle" => edit'[d].target \in Inside
  BY <1>2, <1>4, <1>5 DEF EditInv
<1>9. DOMAIN texts' = Inside \cup {Outside} /\ texts'[Outside] = InitialText
  BY <1>1, <1>5, PathsAssumption DEF EditInv
<1>10. (\A d, b \in Holding' : d # b => edit'[d].target # edit'[b].target)
       /\ \A d \in Holding' : texts'[edit'[d].target] = edit'[d].before
  BY <1>6, <1>7 DEF EditInv
<1> QED BY <1>1, <1>4, <1>8, <1>9, <1>10 DEF EditInv

\* A step of the tools, or of somebody who changes a link.
LEMMA EditStep == ASSUME EditInv, FileEdit!Next PROVE EditInv'
<1>1. ASSUME NEW c \in Editors, NEW name \in Names, FileEdit!Call(c, name) PROVE EditInv'
  BY <1>1, CallEditStep
<1>2. ASSUME NEW c \in Editors, FileEdit!Read(c) \/ FileEdit!Write(c) \/ FileEdit!Persist(c) PROVE EditInv'
  BY <1>2, ReadEditStep, TransformStep, PersistStep
<1>3. ASSUME NEW c \in Editors, FileEdit!Abort(c) PROVE EditInv'
  BY <1>3, ReturnStep DEF FileEdit!Abort
<1>4. ASSUME NEW c \in Editors, NEW list, FileEdit!Edit(c, list) PROVE EditInv'
  BY <1>4, TransformStep
<1>5. ASSUME NEW name \in Names, NEW f \in FileEdit!FilePaths, FileEdit!Relink(name, f) PROVE EditInv'
  <2>1. UNCHANGED <<texts, edit>> /\ link' = [link EXCEPT ![name] = f] /\ relinks' = relinks + 1
    BY <1>5 DEF FileEdit!Relink
  <2>2. link' \in [Names -> Inside \cup {Outside}] /\ relinks' \in Nat
    BY <2>1 DEF EditInv, FileEdit!FilePaths
  <2>3. Holding' = Holding
    BY <2>1 DEF Holding
  <2> QED BY <2>1, <2>2, <2>3 DEF EditInv
<1> QED BY <1>1, <1>2, <1>3, <1>4, <1>5 DEF FileEdit!Next

\* The invariant is one.
LEMMA EditInvariant == AllSpec => []EditInv
<1>1. AllInit => EditInv
  BY EditInit DEF AllInit
<1>2. EditInv /\ [AllNext]_allVars => EditInv'
  <2> SUFFICES ASSUME EditInv, [AllNext]_allVars PROVE EditInv'
    OBVIOUS
  <2>1. FileEdit!Next \/ UNCHANGED editVars
    BY DEF AllNext, allVars, editVars
  <2>2. CASE UNCHANGED editVars
    <3>1. UNCHANGED <<texts, link, relinks, edit>>
      BY <2>2 DEF editVars
    <3>2. Holding' = Holding
      BY <3>1 DEF Holding
    <3> QED BY <3>1, <3>2 DEF EditInv
  <2> QED BY <2>1, <2>2, EditStep
<1> QED BY <1>1, <1>2, PTL DEF AllSpec

\* A file outside the writable roots keeps its text, whatever links others change under a call
\* (check_write, recheck).
THEOREM FencedHolds == AllSpec => []FileEdit!Fenced
<1>1. EditInv => FileEdit!Fenced
  BY DEF EditInv, FileEdit!Fenced
<1> QED BY <1>1, EditInvariant, PTL

\* Of two edits through any two paths to one file neither is lost: a rename replaces the text its call
\* has read (mutate_file, mutation_lock).
THEOREM NoLostEditHolds == AllSpec => NoLostEdit
<1> DEFINE Kept == \A c \in Editors : edit[c].pc = "ready" /\ texts' # texts /\ edit'[c].pc = "done" =>
                      texts[edit[c].target] = edit[c].before
<1>1. EditInv /\ [AllNext]_allVars => [Kept]_(FileEdit!editVars)
  <2> SUFFICES ASSUME EditInv, NEW c \in Editors, edit[c].pc = "ready"
               PROVE  texts[edit[c].target] = edit[c].before
    OBVIOUS
  <2> QED BY DEF EditInv, Holding
<1> QED BY <1>1, EditInvariant, PTL DEF AllSpec, NoLostEdit, FileEdit!NoLostEdit

-----------------------------------------------------------------------------
(* The terminal                                                            *)

\* What every variable of the terminal is.
TerminalTypes ==
    /\ process \in {"alive", "dead"} /\ printed \in Nat
    /\ output \in [bytes : Seq(Nat), start : Nat, end : Nat, exited : BOOLEAN]
    /\ input \in [last : Nat, faulted : BOOLEAN] /\ typedInto \in Seq(Nat \X Nat)
    /\ page \in [cursor : Nat, text : Seq(Nat), exited : BOOLEAN]
    /\ wire \in [Terminal!Inputs -> Nat] /\ typed \in 0..MaxInputs /\ accepted \subseteq Terminal!Inputs
\* What reached the shell is all of the inputs up to the last, but for one whose write failed.
TerminalInput ==
    /\ input.last <= typed /\ \A k \in Terminal!Inputs : wire[k] > 0 => k <= typed
    /\ ~input.faulted => Len(typedInto) = 2 * input.last
    /\ input.faulted => Len(typedInto) \in {2 * input.last - 2, 2 * input.last - 1}
    /\ \A k \in Terminal!Inputs, b \in 1..2 :
            Len(typedInto) >= 2 * k - 2 + b => typedInto[2 * k - 2 + b] = Terminal!Keys(k)[b]
    /\ \A k \in accepted : k <= input.last /\ (input.faulted => k < input.last)
\* The bytes kept are the last ones read.
TerminalOutput ==
    /\ output.start <= output.end /\ output.end <= printed
    /\ Len(output.bytes) = output.end - output.start
    /\ \A i \in 1..Len(output.bytes) : output.bytes[i] = output.start + i
    /\ output.end > 0 => output.start < output.end
    /\ output.exited => process = "dead" /\ output.end = printed
\* The text ends at the cursor.
TerminalText ==
    /\ page.cursor <= output.end
    /\ page.text = <<>> => page.cursor = 0
    /\ page.text # <<>> => page.text[Len(page.text)] = page.cursor /\ page.cursor > 0
    /\ Terminal!OutputContiguous
TerminalInv == TerminalTypes /\ TerminalInput /\ TerminalOutput /\ TerminalText

\* Two sequences one after the other.
LEMMA Joined ==
    ASSUME NEW s \in Seq(Nat), NEW t \in Seq(Nat)
    PROVE  /\ s \o t \in Seq(Nat) /\ Len(s \o t) = Len(s) + Len(t) /\ Len(s) \in Nat /\ Len(t) \in Nat
           /\ \A i \in 1..Len(s) : (s \o t)[i] = s[i]
           /\ \A i \in 1..Len(t) : (s \o t)[Len(s) + i] = t[i]
<1>1. Len(s) \in Nat /\ Len(t) \in Nat
  BY LenProperties
<1>2. /\ s \o t \in Seq(Nat) /\ Len(s \o t) = Len(s) + Len(t)
      /\ \A i \in 1 .. Len(s) + Len(t) : (s \o t)[i] = IF i <= Len(s) THEN s[i] ELSE t[i - Len(s)]
  BY ConcatProperties
<1>3. ASSUME NEW i \in 1..Len(t) PROVE (s \o t)[Len(s) + i] = t[i]
  <2>1. Len(s) + i \in 1 .. Len(s) + Len(t) /\ ~(Len(s) + i <= Len(s)) /\ Len(s) + i - Len(s) = i
    BY <1>1
  <2> QED BY <1>2, <2>1
<1>4. ASSUME NEW i \in 1..Len(s) PROVE (s \o t)[i] = s[i]
  <2>1. i \in 1 .. Len(s) + Len(t) /\ i <= Len(s)
    BY <1>1
  <2> QED BY <1>2, <2>1
<1> QED BY <1>1, <1>2, <1>3, <1>4

\* The part of a sequence after its a-th element, up to the b-th.
LEMMA Part ==
    ASSUME NEW s \in Seq(Nat), NEW a \in Nat, NEW b \in Nat, a <= b, b <= Len(s)
    PROVE  /\ SubSeq(s, a + 1, b) \in Seq(Nat) /\ Len(SubSeq(s, a + 1, b)) = b - a
           /\ \A i \in 1..(b - a) : SubSeq(s, a + 1, b)[i] = s[a + i]
<1>1. a + 1 \in Int /\ b \in Int /\ \A i \in a + 1 .. b : s[i] \in Nat
  BY LenProperties
<1>2. /\ SubSeq(s, a + 1, b) \in Seq(Nat)
      /\ Len(SubSeq(s, a + 1, b)) = IF a + 1 <= b THEN b - (a + 1) + 1 ELSE 0
      /\ \A i \in 1 .. b - (a + 1) + 1 : SubSeq(s, a + 1, b)[i] = s[(a + 1) + i - 1]
  BY <1>1, SubSeqProperties
<1>3. b - (a + 1) + 1 = b - a /\ \A i \in Int : (a + 1) + i - 1 = a + i
  OBVIOUS
<1> QED BY <1>2, <1>3

\* s is the bytes after the a-th, up to the b-th.
Bytes(s, a, b) == s \in Seq(Nat) /\ Len(s) = b - a /\ \A i \in 1..Len(s) : s[i] = a + i

\* The bytes that follow join those there are.
LEMMA BytesJoined ==
    ASSUME NEW a \in Nat, NEW b \in Nat, NEW c \in Nat, a <= b, b <= c, NEW s, Bytes(s, a, b)
    PROVE  Bytes(s \o [i \in 1..(c - b) |-> b + i], a, c)
<1> DEFINE n == c - b
           t == [i \in 1..n |-> b + i]
<1>1. n \in Nat
  OBVIOUS
<1> HIDE DEF n
<1>2. t \in [1..n -> Nat]
  BY <1>1
<1>3. t \in Seq(Nat) /\ DOMAIN t = 1..n
  BY <1>1, <1>2
<1>4. \A i \in 1..n : t[i] = b + i
  OBVIOUS
<1> HIDE DEF t
<1>5. Len(t) \in Nat /\ DOMAIN t = 1..Len(t)
  BY <1>3, LenProperties
<1>6. Len(t) = n
  BY <1>1, <1>3, <1>5
<1>7. s \in Seq(Nat) /\ Len(s) = b - a /\ \A i \in 1..Len(s) : s[i] = a + i
  BY DEF Bytes
<1>8. /\ s \o t \in Seq(Nat) /\ Len(s \o t) = Len(s) + Len(t) /\ Len(s) \in Nat
      /\ \A i \in 1..Len(s) : (s \o t)[i] = s[i]
      /\ \A i \in 1..Len(t) : (s \o t)[Len(s) + i] = t[i]
  BY <1>3, <1>7, Joined
<1> DEFINE u == s \o t
<1> HIDE DEF u
<1>9. ASSUME NEW i \in 1..Len(u) PROVE u[i] = a + i
  <2>1. CASE i <= Len(s)
    BY <1>7, <1>8, <2>1 DEF u
  <2>2. CASE ~(i <= Len(s))
    <3> DEFINE j == i - Len(s)
    <3>1. j \in 1..Len(t) /\ Len(s) + j = i
      BY <1>5, <1>8, <2>2 DEF u
    <3>2. u[Len(s) + j] = t[j] /\ t[j] = b + j
      BY <1>4, <1>6, <1>8, <3>1 DEF u
    <3>3. i \in Nat /\ b + (i - Len(s)) = a + i
      BY <1>5, <1>7, <1>8 DEF u
    <3> QED BY <3>1, <3>2, <3>3
  <2> QED BY <2>1, <2>2
<1>10. Len(u) = c - a /\ u \in Seq(Nat)
  BY <1>6, <1>7, <1>8 DEF u, n
<1> QED BY <1>9, <1>10 DEF Bytes, u, t, n

\* What is left when d bytes are discarded, up to the e-th.
LEMMA BytesCut ==
    ASSUME NEW a \in Nat, NEW b \in Nat, NEW s, Bytes(s, a, b), NEW d \in Nat, NEW e \in Nat, d <= e, e <= Len(s)
    PROVE  Bytes(SubSeq(s, d + 1, e), a + d, a + e)
<1> DEFINE t == SubSeq(s, d + 1, e)
<1>1. s \in Seq(Nat) /\ Len(s) = b - a /\ \A i \in 1..Len(s) : s[i] = a + i
  BY DEF Bytes
<1>2. t \in Seq(Nat) /\ Len(t) = e - d /\ \A i \in 1..(e - d) : t[i] = s[d + i]
  BY <1>1, Part
<1> HIDE DEF t
<1>3. ASSUME NEW i \in 1..Len(t) PROVE t[i] = (a + d) + i
  <2>1. t[i] = s[d + i] /\ d + i \in 1..Len(s)
    BY <1>1, <1>2
  <2> QED BY <1>1, <2>1
<1>4. Len(t) = (a + e) - (a + d)
  BY <1>2
<1> QED BY <1>2, <1>3, <1>4 DEF Bytes, t

\* It holds at the start.
LEMMA TerminalInit == Terminal!Init => TerminalInv
<1> SUFFICES ASSUME Terminal!Init PROVE TerminalInv
  OBVIOUS
<1>1. /\ process = "alive" /\ printed = 0 /\ output = [bytes |-> <<>>, start |-> 0, end |-> 0, exited |-> FALSE]
      /\ input = [last |-> 0, faulted |-> FALSE] /\ typedInto = <<>>
      /\ page = [cursor |-> 0, text |-> <<>>, exited |-> FALSE]
      /\ wire = [k \in Terminal!Inputs |-> 0] /\ typed = 0 /\ accepted = {}
  BY DEF Terminal!Init
<1>2. TerminalTypes
  BY <1>1, TerminalAssumption DEF TerminalTypes
<1>3. TerminalInput
  BY <1>1, TerminalAssumption DEF TerminalInput, Terminal!Inputs
<1>4. TerminalOutput
  BY <1>1 DEF TerminalOutput
<1>5. TerminalText
  BY <1>1 DEF TerminalText, Terminal!OutputContiguous
<1> QED BY <1>2, <1>3, <1>4, <1>5 DEF TerminalInv

\* The shell and the reader thread.
LEMMA PrintStep == ASSUME TerminalInv, Terminal!Prints \/ Terminal!Exit \/ Terminal!Reaped \/ Terminal!Close PROVE TerminalInv'
<1>1. UNCHANGED <<input, typedInto, page, wire, typed, accepted>>
  BY DEF Terminal!Prints, Terminal!Exit, Terminal!Reaped, Terminal!Close
<1>2. /\ process' \in {"alive", "dead"} /\ (process = "dead" => process' = "dead" /\ printed' = printed)
      /\ printed' \in Nat /\ printed <= printed'
      /\ output'.bytes = output.bytes /\ output'.start = output.start /\ output'.end = output.end
      /\ output' \in [bytes : Seq(Nat), start : Nat, end : Nat, exited : BOOLEAN]
      /\ output'.exited => process' = "dead" /\ output'.end = printed'
  <2>1. CASE Terminal!Prints
    BY <2>1 DEF Terminal!Prints, TerminalInv, TerminalTypes, TerminalOutput
  <2>2. CASE Terminal!Exit \/ Terminal!Close
    BY <2>2 DEF Terminal!Exit, Terminal!Close, TerminalInv, TerminalTypes, TerminalOutput
  <2>3. CASE Terminal!Reaped
    BY <2>3 DEF Terminal!Reaped, TerminalInv, TerminalTypes, TerminalOutput
  <2> QED BY <2>1, <2>2, <2>3
<1>3. TerminalTypes'
  BY <1>1, <1>2 DEF TerminalInv, TerminalTypes
<1>4. TerminalInput'
  BY <1>1 DEF TerminalInv, TerminalInput
<1>5. TerminalOutput'
  BY <1>1, <1>2 DEF TerminalInv, TerminalTypes, TerminalOutput
<1>6. TerminalText'
  BY <1>1, <1>2 DEF TerminalInv, TerminalText, Terminal!OutputContiguous
<1> QED BY <1>3, <1>4, <1>5, <1>6 DEF TerminalInv

\* One read of the pty.
LEMMA ReadPtyStep == ASSUME TerminalInv, Terminal!ReadPty PROVE TerminalInv'
<1> DEFINE bytes == output.bytes \o [i \in 1..(printed - output.end) |-> output.end + i]
           discard == Terminal!LargerOf(Len(bytes) - KeptBytes, 0)
           kept == SubSeq(bytes, discard + 1, Len(bytes))
<1>1. /\ output.end < printed
      /\ output' = [output EXCEPT !.bytes = kept, !.start = @ + discard, !.end = printed]
      /\ UNCHANGED <<process, printed, input, typedInto, page, wire, typed, accepted>>
  BY DEF Terminal!ReadPty
<1>2. /\ output \in [bytes : Seq(Nat), start : Nat, end : Nat, exited : BOOLEAN] /\ printed \in Nat
      /\ output.start <= output.end /\ Bytes(output.bytes, output.start, output.end)
  BY DEF TerminalInv, TerminalTypes, TerminalOutput, Bytes
<1>3. output.start \in Nat /\ output.end \in Nat /\ printed \in Nat /\ output.end <= printed
      /\ output.start <= output.end
  BY <1>1, <1>2
<1>4. Bytes(bytes, output.start, printed)
  BY <1>2, <1>3, BytesJoined
<1>5. Len(bytes) = printed - output.start /\ Len(bytes) \in Nat /\ Len(bytes) > 0
  <2> HIDE DEF bytes
  <2> QED BY <1>1, <1>2, <1>3, <1>4 DEF Bytes
<1>6. discard \in Nat /\ discard < Len(bytes)
  <2> HIDE DEF bytes
  <2> QED BY <1>5, TerminalAssumption DEF Terminal!LargerOf
<1> HIDE DEF bytes, discard
<1>7. Bytes(kept, output.start + discard, output.start + Len(bytes))
  <2>1. discard <= Len(bytes) /\ Len(bytes) <= Len(bytes)
    BY <1>5, <1>6
  <2> QED BY <1>3, <1>4, <1>5, <1>6, <2>1, BytesCut
<1>8. output.start + Len(bytes) = printed /\ output.start + discard \in Nat /\ output.start + discard < printed
  BY <1>2, <1>3, <1>5, <1>6
<1> HIDE DEF kept
<1>9. /\ output'.bytes = kept /\ output'.start = output.start + discard /\ output'.end = printed
      /\ output'.exited = output.exited /\ output' \in [bytes : Seq(Nat), start : Nat, end : Nat, exited : BOOLEAN]
  BY <1>1, <1>2, <1>7, <1>8 DEF Bytes
<1>10. ~output.exited
  BY <1>1, <1>2, <1>3 DEF TerminalInv, TerminalOutput
<1>11. TerminalTypes'
  BY <1>1, <1>9 DEF TerminalInv, TerminalTypes
<1>12. TerminalInput'
  BY <1>1 DEF TerminalInv, TerminalInput
<1>13. TerminalOutput'
  BY <1>1, <1>2, <1>7, <1>8, <1>9, <1>10 DEF TerminalOutput, Bytes
<1>14. TerminalText'
  <2>1. page.cursor \in Nat
    BY DEF TerminalInv, TerminalTypes
  <2> QED BY <1>1, <1>2, <1>3, <1>9, <2>1 DEF TerminalInv, TerminalText, Terminal!OutputContiguous
<1> QED BY <1>11, <1>12, <1>13, <1>14 DEF TerminalInv

\* A page of output: the bytes from the cursor on, or from the oldest one kept.
LEMMA PageIs ==
    ASSUME TerminalInv
    PROVE  LET p == Terminal!PageOf(page.cursor)
               start == IF page.cursor < output.start THEN output.start ELSE page.cursor
           IN  /\ p.dropped \in BOOLEAN /\ (p.dropped <=> page.cursor < output.start)
               /\ p.bytes \in Seq(Nat) /\ p.next = start + Len(p.bytes) /\ p.next <= output.end
               /\ \A i \in 1..Len(p.bytes) : p.bytes[i] = start + i
               /\ p.dropped => Len(p.bytes) > 0
               /\ p.exited \in BOOLEAN /\ (p.exited => output.exited /\ p.next = output.end)
<1> DEFINE after == page.cursor
           start == Terminal!LargerOf(after, output.start)
           skip == start - output.start
           last == Terminal!SmallerOf(skip + TerminalPage, Len(output.bytes))
           bytes == SubSeq(output.bytes, skip + 1, last)
           p == [bytes |-> bytes, next |-> start + Len(bytes), dropped |-> after < output.start,
                 exited |-> output.exited /\ start + TerminalPage >= output.end]
<1>1. Terminal!PageOf(page.cursor) = p
  BY DEF Terminal!PageOf
<1>2. /\ p.bytes = bytes /\ p.next = start + Len(bytes) /\ p.dropped = (after < output.start)
      /\ p.exited = (output.exited /\ start + TerminalPage >= output.end)
  OBVIOUS
<1> HIDE DEF p
<1>3. /\ output.start \in Nat /\ output.end \in Nat /\ output.start <= output.end
      /\ Len(output.bytes) = output.end - output.start
      /\ output.end > 0 => output.start < output.end
      /\ after \in Nat /\ after <= output.end
  BY DEF TerminalInv, TerminalTypes, TerminalOutput, TerminalText
<1>a. Bytes(output.bytes, output.start, output.end)
  BY DEF TerminalInv, TerminalTypes, TerminalOutput, Bytes
<1>4. start = IF after < output.start THEN output.start ELSE after
  BY <1>3 DEF Terminal!LargerOf
<1>5. start \in Nat /\ start <= output.end /\ skip \in Nat /\ skip <= Len(output.bytes)
      /\ output.start + skip = start
  BY <1>3, <1>4
<1> HIDE DEF start, skip
<1>6. last \in Nat /\ skip <= last /\ last <= Len(output.bytes)
      /\ (skip + TerminalPage >= Len(output.bytes) => last = Len(output.bytes))
      /\ (skip < Len(output.bytes) => skip < last)
  BY <1>3, <1>5, TerminalAssumption DEF Terminal!SmallerOf
<1> HIDE DEF last, after
<1>7. Bytes(bytes, start, output.start + last)
  <2>1. Bytes(bytes, output.start + skip, output.start + last)
    BY <1>3, <1>a, <1>5, <1>6, BytesCut
  <2> QED BY <1>5, <2>1
<1> HIDE DEF bytes
<1>8. bytes \in Seq(Nat) /\ (\A i \in 1..Len(bytes) : bytes[i] = start + i)
      /\ start + Len(bytes) = output.start + last /\ Len(bytes) = last - skip
  BY <1>3, <1>5, <1>6, <1>7 DEF Bytes
<1>9. start + Len(bytes) <= output.end
      /\ (start + TerminalPage >= output.end => start + Len(bytes) = output.end)
  <2>1. TerminalPage \in Nat
    BY TerminalAssumption
  <2>2. start + Len(bytes) = output.start + last
    BY <1>8
  <2>3. output.start + last <= output.end
    BY <1>3, <1>6
  <2>4. start + TerminalPage >= output.end => skip + TerminalPage >= Len(output.bytes)
    BY <1>3, <1>5, <2>1
  <2>5. last = Len(output.bytes) => output.start + last = output.end
    BY <1>3, <1>6
  <2> QED BY <1>6, <2>2, <2>3, <2>4, <2>5
<1>10. after < output.start => Len(bytes) > 0
  <2> SUFFICES ASSUME after < output.start PROVE Len(bytes) > 0
    OBVIOUS
  <2>1. start = output.start /\ output.end > 0 /\ output.start < output.end
    BY <1>3, <1>4
  <2>2. skip < Len(output.bytes)
    BY <1>3, <1>5, <2>1
  <2>3. Len(bytes) = last - skip
    BY <1>8
  <2> QED BY <1>5, <1>6, <2>2, <2>3
<1>11. (output.exited /\ start + TerminalPage >= output.end) \in BOOLEAN /\ (after < output.start) \in BOOLEAN
  OBVIOUS
<1>12. /\ p.bytes \in Seq(Nat) /\ p.next = start + Len(p.bytes) /\ p.next <= output.end
       /\ \A i \in 1..Len(p.bytes) : p.bytes[i] = start + i
       /\ p.dropped => Len(p.bytes) > 0
  BY <1>2, <1>8, <1>9, <1>10
<1>14. p.dropped \in BOOLEAN /\ (p.dropped <=> after < output.start)
  BY <1>2, <1>11, Zenon
<1>13. p.exited \in BOOLEAN /\ (p.exited => output.exited /\ p.next = output.end)
  BY <1>2, <1>9, <1>11
<1> QED BY <1>1, <1>4, <1>12, <1>13, <1>14 DEF after

\* The page asks for output.
LEMMA PollStep == ASSUME TerminalInv, Terminal!Poll PROVE TerminalInv'
<1> DEFINE p == Terminal!PageOf(page.cursor)
           start == IF page.cursor < output.start THEN output.start ELSE page.cursor
           mark == IF p.dropped THEN <<0>> ELSE <<>>
           text == page.text
           new == text \o mark \o p.bytes
<1>1. /\ ~page.exited /\ page' = [cursor |-> p.next, exited |-> p.exited, text |-> new]
      /\ UNCHANGED <<process, printed, output, input, typedInto, wire, typed, accepted>>
  BY DEF Terminal!Poll
<1>2. /\ p.bytes \in Seq(Nat) /\ p.next = start + Len(p.bytes) /\ p.next <= output.end
      /\ \A i \in 1..Len(p.bytes) : p.bytes[i] = start + i
      /\ p.dropped \in BOOLEAN /\ (p.dropped <=> page.cursor < output.start)
      /\ p.dropped => Len(p.bytes) > 0
      /\ p.exited \in BOOLEAN /\ (p.exited => output.exited /\ p.next = output.end)
  BY PageIs
<1>3. page.cursor \in Nat /\ output.start \in Nat /\ text \in Seq(Nat)
  BY DEF TerminalInv, TerminalTypes
<1>4. /\ text = <<>> => page.cursor = 0
      /\ text # <<>> => text[Len(text)] = page.cursor /\ page.cursor > 0
      /\ \A i \in 1..(Len(text) - 1) : text[i] # 0 /\ text[i + 1] # 0 => text[i + 1] = text[i] + 1
      /\ \A i \in 1..(Len(text) - 2) : text[i + 1] = 0 => text[i + 2] > text[i] + 1
  BY DEF TerminalInv, TerminalText, Terminal!OutputContiguous
<1> DEFINE bytes == p.bytes
           n == Len(text)
           m == Len(bytes)
<1>5. start \in Nat /\ bytes \in Seq(Nat) /\ m \in Nat /\ n \in Nat
  BY <1>2, <1>3
<1>6. /\ new \in Seq(Nat) /\ Len(new) = n + Len(mark) + m /\ Len(mark) \in {0, 1}
      /\ \A i \in 1..n : new[i] = text[i]
      /\ p.dropped => Len(mark) = 1 /\ new[n + 1] = 0
      /\ ~p.dropped => Len(mark) = 0
      /\ \A i \in 1..m : new[n + Len(mark) + i] = start + i
  <2>1. CASE p.dropped
    <3>1. mark = <<0>>
      BY <2>1
    <3> HIDE DEF p, text, start
    <3>2. <<0>> \in Seq(Nat) /\ Len(<<0>>) = 1 /\ <<0>>[1] = 0
      OBVIOUS
    <3> DEFINE both == text \o mark
    <3>3. both \in Seq(Nat) /\ Len(both) = n + 1 /\ (\A i \in 1..n : both[i] = text[i]) /\ both[n + 1] = 0
      BY <1>3, <1>5, <3>1, <3>2
    <3> HIDE DEF both
    <3>4. new = both \o bytes
      BY DEF both
    <3>5. both \o bytes \in Seq(Nat) /\ Len(both \o bytes) = n + 1 + m
          /\ (\A i \in 1..n+1 : (both \o bytes)[i] = both[i])
          /\ (\A i \in 1..m : (both \o bytes)[n + 1 + i] = bytes[i])
      <4>1. /\ both \o bytes \in Seq(Nat) /\ Len(both \o bytes) = Len(both) + Len(bytes)
            /\ \A i \in 1..Len(both) : (both \o bytes)[i] = both[i]
            /\ \A i \in 1..Len(bytes) : (both \o bytes)[Len(both) + i] = bytes[i]
        BY <1>5, <3>3, Joined
      <4>2. Len(both) = n + 1 /\ Len(bytes) = m
        BY <3>3
      <4> HIDE DEF n, m
      <4> QED BY <4>1, <4>2
    <3> HIDE DEF new
    <3>6. n + 1 \in 1..n+1 /\ \A i \in 1..n : i \in 1..n+1
      BY <1>5
    <3>7. Len(mark) = 1
      BY <3>1
    <3>8. \A i \in 1..m : bytes[i] = start + i
      BY <1>2
    <3> HIDE DEF n, m, mark, bytes
    <3> QED BY ZenonT(40), <2>1, <3>3, <3>4, <3>5, <3>6, <3>7, <3>8
  <2>2. CASE ~p.dropped
    <3>1. mark = <<>> /\ new = text \o bytes
      <4>1. mark = <<>>
        BY <2>2
      <4> HIDE DEF mark, text
      <4>2. text \o mark = text
        BY <1>3, <4>1, ConcatEmptySeq
      <4> QED BY <4>1, <4>2
    <3>2. \A i \in 1..m : bytes[i] = start + i
      BY <1>2
    <3> HIDE DEF p, start, text, new
    <3>3. text \o bytes \in Seq(Nat) /\ Len(text \o bytes) = n + m
          /\ (\A i \in 1..n : (text \o bytes)[i] = text[i])
          /\ (\A i \in 1..m : (text \o bytes)[n + i] = bytes[i])
      BY <1>3, <1>5, Joined DEF n, m
    <3>4. Len(mark) = 0
      BY <3>1
    <3>5. /\ new \in Seq(Nat) /\ Len(new) = n + m
          /\ (\A i \in 1..n : new[i] = text[i])
          /\ (\A i \in 1..m : new[n + i] = start + i)
      BY <3>1, <3>2, <3>3
    <3> HIDE DEF n, m, mark, bytes
    <3>6. n + 0 + m = n + m /\ \A i \in Nat : n + 0 + i = n + i
      BY <1>5
    <3> QED BY <1>5, <2>2, <3>4, <3>5, <3>6
  <2>3. p.dropped \in BOOLEAN
    BY <1>2
  <2> QED BY <2>1, <2>2, <2>3, Zenon
<1>7. /\ page.cursor <= start /\ (p.dropped => page.cursor < start /\ m > 0)
      /\ (~p.dropped => start = page.cursor) /\ p.dropped \in BOOLEAN
  BY <1>2, <1>3
<1>8. p.next = start + m
  BY <1>2
<1>9. (n = 0 <=> text = <<>>)
  BY <1>3
<1> DEFINE k == Len(mark)
<1> HIDE DEF new, mark, start, p, text, n, m, k
<1>a. Len(new) = n + k + m /\ k \in {0, 1} /\ (p.dropped => k = 1) /\ (~p.dropped => k = 0)
  BY <1>6 DEF k
<1>b. \A i \in 1..m : new[n + k + i] = start + i
  BY <1>6 DEF k
<1>10. /\ (new = <<>> => p.next = 0)
       /\ new # <<>> => new[Len(new)] = p.next /\ p.next > 0
  <2>1. CASE m = 0
    <3>1. ~p.dropped /\ k = 0 /\ Len(new) = n /\ p.next = page.cursor
      BY <1>3, <1>5, <1>7, <1>8, <1>a, <2>1
    <3>2. new = <<>> <=> n = 0
      BY <1>6, <3>1
    <3>3. n > 0 => new[n] = text[n]
      BY <1>5, <1>6
    <3> QED BY <1>4, <1>5, <1>9, <3>1, <3>2, <3>3 DEF n
  <2>2. CASE m > 0
    <3>1. new[n + k + m] = start + m
      BY <1>5, <1>b, <2>2
    <3>2. new # <<>>
      BY <1>5, <1>6, <1>a, <2>2
    <3> QED BY <1>5, <1>8, <1>a, <2>2, <3>1, <3>2
  <2> QED BY <1>5, <2>1, <2>2
<1>11. ASSUME NEW i \in 1..(Len(new) - 1), new[i] # 0, new[i + 1] # 0 PROVE new[i + 1] = new[i] + 1
  <2>0. i \in Nat /\ i >= 1 /\ i + 1 <= n + k + m
    BY <1>5, <1>a
  <2>1. CASE i + 1 <= n
    <3>1. i \in 1..n /\ i + 1 \in 1..n /\ i \in 1..(n - 1)
      BY <1>5, <2>0, <2>1
    <3>2. new[i] = text[i] /\ new[i + 1] = text[i + 1]
      BY <1>6, <3>1
    <3> QED BY <1>4, <1>11, <3>1, <3>2 DEF n
  <2>2. CASE i + 1 > n /\ k = 1
    <3>0. p.dropped /\ new[n + 1] = 0
      BY <1>6, <1>7, <1>a, <2>2
    <3>1. i # n /\ i # n + 1
      BY <1>11, <3>0
    <3>2. i - n - 1 \in 1..m /\ i - n \in 1..m
      BY <1>5, <2>0, <2>2, <3>1
    <3>3. new[n + 1 + (i - n - 1)] = start + (i - n - 1) /\ new[n + 1 + (i - n)] = start + (i - n)
      BY <1>b, <2>2, <3>2
    <3>4. n + 1 + (i - n - 1) = i /\ n + 1 + (i - n) = i + 1
      BY <1>5, <2>0
    <3> QED BY <1>5, <2>0, <3>3, <3>4
  <2>3. CASE i = n /\ k = 0
    <3>1. new[i] = text[n] /\ n > 0 /\ text[n] = page.cursor
      BY <1>4, <1>6, <1>9, <2>0, <2>3 DEF n
    <3>2. 1 \in 1..m
      BY <1>5, <2>0, <2>3
    <3>3. new[n + 0 + 1] = start + 1
      BY <1>b, <2>3, <3>2
    <3>4. start = page.cursor /\ n + 0 + 1 = i + 1
      BY <1>5, <1>7, <1>a, <2>0, <2>3
    <3> QED BY <3>1, <3>3, <3>4
  <2>4. CASE i > n /\ k = 0
    <3>1. i - n \in 1..m /\ i - n + 1 \in 1..m
      BY <1>5, <2>0, <2>4
    <3>2. new[n + 0 + (i - n)] = start + (i - n) /\ new[n + 0 + (i - n + 1)] = start + (i - n + 1)
      BY <1>b, <2>4, <3>1
    <3>3. n + 0 + (i - n) = i /\ n + 0 + (i - n + 1) = i + 1
      BY <1>5, <2>0
    <3> QED BY <1>5, <2>0, <3>2, <3>3
  <2> QED BY <1>5, <1>a, <2>0, <2>1, <2>2, <2>3, <2>4
<1>12. ASSUME NEW i \in 1..(Len(new) - 2), new[i + 1] = 0 PROVE new[i + 2] > new[i] + 1
  <2>0. i \in Nat /\ i >= 1 /\ i + 2 <= n + k + m
    BY <1>5, <1>a
  <2>1. CASE i + 2 <= n
    <3>1. i \in 1..n /\ i + 1 \in 1..n /\ i + 2 \in 1..n /\ i \in 1..(n - 2)
      BY <1>5, <2>0, <2>1
    <3>2. new[i] = text[i] /\ new[i + 1] = text[i + 1] /\ new[i + 2] = text[i + 2]
      BY <1>6, <3>1
    <3> QED BY <1>4, <1>12, <3>1, <3>2 DEF n
  <2>2. CASE i + 1 > n + k
    <3>1. i + 1 - n - k \in 1..m
      BY <1>5, <1>a, <2>0, <2>2
    <3>2. new[n + k + (i + 1 - n - k)] = start + (i + 1 - n - k)
      BY <1>b, <3>1
    <3>3. n + k + (i + 1 - n - k) = i + 1
      BY <1>5, <1>a, <2>0
    <3> QED BY <1>5, <1>12, <1>a, <2>0, <3>1, <3>2, <3>3
  <2>3. CASE i + 1 = n
    <3>1. new[i + 1] = text[n] /\ n > 0 /\ text[n] = page.cursor /\ page.cursor > 0
      BY <1>4, <1>5, <1>6, <1>9, <2>0, <2>3 DEF n
    <3> QED BY <1>3, <1>12, <3>1
  <2>4. CASE i = n /\ k = 1
    <3>1. new[i] = text[n] /\ text[n] = page.cursor
      BY <1>4, <1>5, <1>6, <1>9, <2>0, <2>4 DEF n
    <3>2. 1 \in 1..m /\ page.cursor < start
      BY <1>5, <1>7, <1>a, <2>4
    <3>3. new[n + k + 1] = start + 1
      BY <1>b, <3>2
    <3>4. n + k + 1 = i + 2
      BY <1>5, <2>4
    <3> QED BY <1>3, <1>5, <3>1, <3>2, <3>3, <3>4
  <2> QED BY <1>5, <1>a, <2>0, <2>1, <2>2, <2>3, <2>4
<1>13. page'.cursor = p.next /\ page'.text = new /\ page'.exited = p.exited
  BY <1>1
<1>14. TerminalTypes'
  <2>1. page' \in [cursor : Nat, text : Seq(Nat), exited : BOOLEAN]
    <3>1. p.next \in Nat
      BY <1>5, <1>8
    <3> QED BY <1>1, <1>2, <1>6, <3>1
  <2> QED BY <1>1, <2>1 DEF TerminalInv, TerminalTypes
<1>15. TerminalInput' /\ TerminalOutput'
  BY <1>1 DEF TerminalInv, TerminalInput, TerminalOutput
<1>16. TerminalText'
  <2>1. p.exited => p.next = printed /\ process = "dead"
    BY <1>2 DEF TerminalInv, TerminalOutput
  <2>2. Terminal!OutputContiguous'
    BY <1>1, <1>11, <1>12, <1>13, <2>1 DEF Terminal!OutputContiguous
  <2> QED BY <1>1, <1>2, <1>10, <1>13, <2>2 DEF TerminalText
<1> QED BY <1>14, <1>15, <1>16 DEF TerminalInv

\* The page types, sends again or loses a request.
LEMMA RequestStep ==
    ASSUME TerminalInv, Terminal!Type \/ Terminal!Retry \/ \E k \in Terminal!Inputs : Terminal!Lose(k)
    PROVE  TerminalInv'
<1>1. UNCHANGED <<process, printed, output, input, typedInto, page, accepted>>
  BY DEF Terminal!Type, Terminal!Retry, Terminal!Lose
<1>2. /\ wire \in [Terminal!Inputs -> Nat] /\ typed \in 0..MaxInputs /\ input.last \in Nat /\ input.last <= typed
      /\ \A k \in Terminal!Inputs : wire[k] > 0 => k <= typed
  BY DEF TerminalInv, TerminalTypes, TerminalInput
<1>3. /\ wire' \in [Terminal!Inputs -> Nat] /\ typed' \in 0..MaxInputs /\ input.last <= typed'
      /\ \A k \in Terminal!Inputs : wire'[k] > 0 => k <= typed'
  <2>1. CASE Terminal!Type
    BY <1>2, <2>1, TerminalAssumption DEF Terminal!Type, Terminal!Inputs
  <2>2. CASE Terminal!Retry
    <3>1. typed \in Terminal!Inputs
      BY <1>2, <2>2, TerminalAssumption DEF Terminal!Retry, Terminal!Inputs
    <3> QED BY <1>2, <2>2, <3>1 DEF Terminal!Retry
  <2>3. CASE \E k \in Terminal!Inputs : Terminal!Lose(k)
    <3>1. PICK k \in Terminal!Inputs : wire[k] > 0 /\ wire' = [wire EXCEPT ![k] = @ - 1] /\ typed' = typed
      BY <2>3 DEF Terminal!Lose
    <3>2. wire[k] - 1 \in Nat
      BY <1>2, <3>1
    <3> QED BY <1>2, <3>1, <3>2
  <2> QED BY <2>1, <2>2, <2>3
<1>4. TerminalTypes'
  BY <1>1, <1>3 DEF TerminalInv, TerminalTypes
<1>5. TerminalInput'
  BY <1>1, <1>3 DEF TerminalInv, TerminalInput
<1>6. TerminalOutput' /\ TerminalText'
  BY <1>1 DEF TerminalInv, TerminalOutput, TerminalText, Terminal!OutputContiguous
<1> QED BY <1>4, <1>5, <1>6 DEF TerminalInv

\* The first n bytes of an input join what reached the shell.
LEMMA KeysJoined ==
    ASSUME NEW s \in Seq(Nat \X Nat), NEW k \in Nat, NEW n \in 0..2
    PROVE  LET t == s \o SubSeq(Terminal!Keys(k), 1, n)
           IN  /\ t \in Seq(Nat \X Nat) /\ Len(t) = Len(s) + n /\ Len(s) \in Nat
               /\ \A i \in 1..Len(s) : t[i] = s[i]
               /\ \A b \in 1..n : t[Len(s) + b] = Terminal!Keys(k)[b]
<1> DEFINE Pairs == Nat \X Nat
           keys == Terminal!Keys(k)
           first == SubSeq(keys, 1, n)
<1>1. \A b \in 1..2 : keys[b] \in Pairs
  BY DEF Terminal!Keys
<1> HIDE DEF keys, Pairs
<1>2. first \in Seq(Pairs) /\ Len(first) = n /\ \A b \in 1..n : first[b] = keys[b]
  <2>1. \A b \in 1..n : keys[b] \in Pairs
    BY <1>1
  <2>2. /\ first \in Seq(Pairs) /\ Len(first) = IF 1 <= n THEN n - 1 + 1 ELSE 0
        /\ \A b \in 1 .. n - 1 + 1 : first[b] = keys[1 + b - 1]
    BY <2>1, SubSeqProperties
  <2>3. n - 1 + 1 = n /\ (~(1 <= n) => n = 0) /\ \A b \in 1..n : 1 + b - 1 = b
    OBVIOUS
  <2> HIDE DEF first
  <2> QED BY <2>2, <2>3
<1> HIDE DEF first
<1>3. s \in Seq(Pairs) /\ Len(s) \in Nat
  BY LenProperties DEF Pairs
<1>4. /\ s \o first \in Seq(Pairs) /\ Len(s \o first) = Len(s) + Len(first)
      /\ \A i \in 1 .. Len(s) + Len(first) : (s \o first)[i] = IF i <= Len(s) THEN s[i] ELSE first[i - Len(s)]
  BY <1>2, <1>3, ConcatProperties
<1> DEFINE t == s \o first
<1>5. t \in Seq(Pairs) /\ Len(t) = Len(s) + n
      /\ \A i \in 1 .. Len(s) + n : t[i] = IF i <= Len(s) THEN s[i] ELSE first[i - Len(s)]
  BY <1>2, <1>4
<1> HIDE DEF t
<1>6. ASSUME NEW i \in 1..Len(s) PROVE t[i] = s[i]
  BY <1>3, <1>5
<1>7. ASSUME NEW b \in 1..n PROVE t[Len(s) + b] = keys[b]
  <2>1. Len(s) + b \in 1 .. Len(s) + n /\ ~(Len(s) + b <= Len(s)) /\ Len(s) + b - Len(s) = b
    BY <1>3
  <2> QED BY <1>2, <1>5, <2>1
<1> QED BY <1>3, <1>5, <1>6, <1>7 DEF t, first, keys, Pairs

\* A copy of an input reaches the server.
LEMMA InputStep == ASSUME TerminalInv, NEW k \in Terminal!Inputs, Terminal!Input(k) PROVE TerminalInv'
<1>1. /\ wire[k] > 0 /\ wire' = [wire EXCEPT ![k] = @ - 1]
      /\ UNCHANGED <<process, printed, output, page, typed>>
  BY DEF Terminal!Input
<1>2. /\ wire \in [Terminal!Inputs -> Nat] /\ typed \in 0..MaxInputs
      /\ input \in [last : Nat, faulted : BOOLEAN] /\ input.last <= typed
      /\ accepted \subseteq Terminal!Inputs /\ typedInto \in Seq(Nat \X Nat)
  BY DEF TerminalInv, TerminalTypes, TerminalInput
<1>3. k \in Nat /\ k <= typed /\ k > 0
  BY <1>1, TerminalAssumption DEF TerminalInv, TerminalInput, Terminal!Inputs
<1>4. wire' \in [Terminal!Inputs -> Nat] /\ \A c \in Terminal!Inputs : wire'[c] > 0 => c <= typed
  <2>1. wire[k] - 1 \in Nat
    BY <1>1, <1>2
  <2> QED BY <1>1, <1>2, <2>1 DEF TerminalInv, TerminalInput
<1>5. TerminalOutput' /\ TerminalText'
  BY <1>1 DEF TerminalInv, TerminalOutput, TerminalText, Terminal!OutputContiguous
<1>6. CASE UNCHANGED <<input, typedInto>> /\ accepted' = accepted
  <2>1. TerminalTypes'
    BY <1>1, <1>4, <1>6 DEF TerminalInv, TerminalTypes
  <2>2. TerminalInput'
    BY <1>1, <1>4, <1>6 DEF TerminalInv, TerminalInput
  <2> QED BY <1>5, <2>1, <2>2 DEF TerminalInv
<1>7. CASE UNCHANGED <<input, typedInto>> /\ accepted' = accepted \cup {k} /\ ~input.faulted /\ input.last = k
  <2>1. TerminalTypes'
    BY <1>1, <1>4, <1>7 DEF TerminalInv, TerminalTypes
  <2>2. TerminalInput'
    BY <1>1, <1>3, <1>4, <1>7 DEF TerminalInv, TerminalInput
  <2> QED BY <1>5, <2>1, <2>2 DEF TerminalInv
<1>8. CASE /\ ~input.faulted /\ k = input.last + 1
           /\ \E n \in 0..2 : /\ Terminal!Write(k, n)
                              /\ accepted' = accepted \/ (n = 2 /\ accepted' = accepted \cup {k})
  <2>1. PICK n \in 0..2 : /\ Terminal!Write(k, n)
                          /\ accepted' = accepted \/ (n = 2 /\ accepted' = accepted \cup {k})
    BY <1>8
  <2>2. input' = [last |-> k, faulted |-> n < 2] /\ typedInto' = typedInto \o SubSeq(Terminal!Keys(k), 1, n)
    BY <2>1 DEF Terminal!Write
  <2>3. /\ typedInto' \in Seq(Nat \X Nat) /\ Len(typedInto') = Len(typedInto) + n
        /\ \A i \in 1..Len(typedInto) : typedInto'[i] = typedInto[i]
        /\ \A b \in 1..n : typedInto'[Len(typedInto) + b] = Terminal!Keys(k)[b]
    BY <1>2, <1>3, <2>2, KeysJoined
  <2>4. Len(typedInto) = 2 * k - 2
    BY <1>2, <1>8 DEF TerminalInv, TerminalInput
  <2>5. input'.last = k /\ (input'.faulted <=> n < 2) /\ input' \in [last : Nat, faulted : BOOLEAN]
    <3> DEFINE cut == n < 2
    <3>1. cut \in BOOLEAN /\ input' = [last |-> k, faulted |-> cut]
      BY <2>2
    <3> HIDE DEF cut
    <3>2. input'.last = k /\ input'.faulted = cut /\ input' \in [last : Nat, faulted : BOOLEAN]
      BY <1>3, <3>1
    <3> QED BY <3>1, <3>2 DEF cut
  <2>6. accepted' \subseteq Terminal!Inputs
    BY <1>2, <2>1
  <2>7. TerminalTypes'
    BY <1>1, <1>4, <2>3, <2>5, <2>6 DEF TerminalInv, TerminalTypes
  <2>8. \A c \in Terminal!Inputs, b \in 1..2 :
            Len(typedInto') >= 2 * c - 2 + b => typedInto'[2 * c - 2 + b] = Terminal!Keys(c)[b]
    <3> SUFFICES ASSUME NEW c \in Terminal!Inputs, NEW b \in 1..2, Len(typedInto') >= 2 * c - 2 + b
                 PROVE  typedInto'[2 * c - 2 + b] = Terminal!Keys(c)[b]
      OBVIOUS
    <3>0. c \in Nat /\ c > 0
      BY TerminalAssumption DEF Terminal!Inputs
    <3>1. CASE c < k
      <4>1. 2 * c - 2 + b \in 1..Len(typedInto) /\ Len(typedInto) >= 2 * c - 2 + b
        BY <1>3, <2>4, <3>0, <3>1
      <4>2. typedInto[2 * c - 2 + b] = Terminal!Keys(c)[b]
        BY <4>1 DEF TerminalInv, TerminalInput
      <4> QED BY <2>3, <4>1, <4>2
    <3>2. CASE c = k
      <4>1. b \in 1..n
        BY <1>3, <2>3, <2>4, <3>2
      <4> QED BY <2>3, <2>4, <3>2, <4>1
    <3>3. c <= k
      <4>1. Len(typedInto') = 2 * k - 2 + n
        BY <2>3, <2>4
      <4>2. 2 * k - 2 + n >= 2 * c - 2 + b /\ n <= 2 /\ b >= 1 /\ n \in Nat /\ b \in Nat
        BY <4>1
      <4> QED BY <1>3, <3>0, <4>2
    <3> QED BY <1>3, <3>0, <3>1, <3>2, <3>3
  <2>9. \A c \in accepted' : c <= k /\ (input'.faulted => c < k)
    <3>1. \A c \in accepted : c < k
      BY <1>2, <1>8, TerminalAssumption DEF TerminalInv, TerminalInput, Terminal!Inputs
    <3>2. accepted' = accepted \/ (~input'.faulted /\ accepted' = accepted \cup {k})
      BY <2>1, <2>5
    <3>3. k <= k /\ \A c \in Nat : c < k => c <= k
      BY <1>3
    <3>4. accepted \subseteq Nat
      BY <1>2, TerminalAssumption DEF Terminal!Inputs
    <3>5. CASE accepted' = accepted
      BY <3>1, <3>3, <3>4, <3>5
    <3>6. CASE ~input'.faulted /\ accepted' = accepted \cup {k}
      <4>1. \A c \in accepted' : c = k \/ c \in accepted
        BY <3>6
      <4> QED BY <3>1, <3>3, <3>4, <3>6, <4>1, Zenon
    <3> QED BY <3>2, <3>5, <3>6
  <2>10. TerminalInput'
    <3>1. /\ ~input'.faulted => Len(typedInto') = 2 * k
          /\ input'.faulted => Len(typedInto') \in {2 * k - 2, 2 * k - 1}
      BY <1>3, <2>3, <2>4, <2>5
    <3> QED BY <1>1, <1>3, <1>4, <2>5, <2>8, <2>9, <3>1 DEF TerminalInput
  <2> QED BY <1>5, <2>7, <2>10 DEF TerminalInv
<1> QED BY <1>6, <1>7, <1>8 DEF Terminal!Input

\* The terminal's invariant holds in every behaviour.
LEMMA TerminalInvariant == AllSpec => []TerminalInv
<1>1. AllInit => TerminalInv
  BY TerminalInit DEF AllInit
<1>2. TerminalInv /\ [AllNext]_allVars => TerminalInv'
  <2> SUFFICES ASSUME TerminalInv, [AllNext]_allVars PROVE TerminalInv'
    OBVIOUS
  <2>1. Terminal!Next \/ UNCHANGED terminalVars
    BY DEF AllNext, allVars, terminalVars
  <2>2. CASE UNCHANGED terminalVars
    <3>1. TerminalTypes' /\ TerminalInput' /\ TerminalOutput'
      BY <2>2 DEF terminalVars, TerminalInv, TerminalTypes, TerminalInput, TerminalOutput
    <3>2. TerminalText'
      BY <2>2 DEF terminalVars, TerminalInv, TerminalText, Terminal!OutputContiguous
    <3> QED BY <3>1, <3>2 DEF TerminalInv
  <2>3. CASE Terminal!Next
    BY <2>3, PrintStep, ReadPtyStep, PollStep, RequestStep, InputStep DEF Terminal!Next
  <2> QED BY <2>1, <2>2, <2>3
<1> QED BY <1>1, <1>2, PTL DEF AllSpec

\* Keystrokes reach the shell once and in order, and its output reaches the page without a hole that
\* is not marked, whatever requests are lost, sent again or overtaken (Terminals::input, output).
THEOREM TerminalExactHolds == AllSpec => []TerminalExact
<1>1. TerminalInv => TerminalExact
  <2> SUFFICES ASSUME TerminalInv PROVE TerminalExact
    OBVIOUS
  <2>1. input \in [last : Nat, faulted : BOOLEAN] /\ input.last <= typed /\ typed \in Nat
        /\ typedInto \in Seq(Nat \X Nat) /\ accepted \subseteq Nat
    BY TerminalAssumption DEF TerminalInv, TerminalTypes, TerminalInput, Terminal!Inputs
  <2>2. Len(typedInto) \in Nat
    BY <2>1
  <2>3. Len(typedInto) <= 2 * typed
    BY <2>1, <2>2 DEF TerminalInv, TerminalInput
  <2>4. \A k \in accepted : Len(typedInto) >= 2 * k
    BY <2>1, <2>2 DEF TerminalInv, TerminalInput
  <2>5. Terminal!InputOnce
    BY <2>3, <2>4 DEF TerminalInv, TerminalInput, Terminal!InputOnce
  <2> QED BY <2>5 DEF TerminalInv, TerminalText, TerminalExact, Terminal!TerminalExact
<1> QED BY <1>1, TerminalInvariant, PTL

-----------------------------------------------------------------------------
(* The shell                                                               *)

\* A command that has ended has no process, and the handle of one that has not is armed.
Ended == /\ phase \in {"prepare", "running", "stopping", "finish", "done", "failed", "dropped"}
         /\ phase \notin {"running", "stopping"} => group = {}
         /\ phase \in {"running", "stopping"} => armed

\* No process of a command outlives the call, however the call ends (ProcessTree, execute).
THEOREM NoOrphanHolds == AllSpec => []Shell!NoOrphan
<1>1. AllInit => Ended
  BY DEF AllInit, Shell!Init, Ended
<1>2. Ended /\ [AllNext]_allVars => Ended'
  <2> SUFFICES ASSUME Ended, [AllNext]_allVars PROVE Ended'
    OBVIOUS
  <2>1. Shell!Next \/ UNCHANGED <<phase, group, armed>>
    BY DEF AllNext, allVars, shellVars
  <2>2. CASE UNCHANGED <<phase, group, armed>>
    BY <2>2 DEF Ended
  <2>3. CASE Shell!Spawn \/ Shell!Refuse \/ Shell!Interrupt \/ Shell!Stop
    BY <2>3 DEF Ended, Shell!Spawn, Shell!Refuse, Shell!Interrupt, Shell!Stop
  <2>4. CASE Shell!Wait \/ Shell!Finish \/ Shell!FinishFails \/ Shell!Drop
    BY <2>4 DEF Ended, Shell!Wait, Shell!Finish, Shell!FinishFails, Shell!Drop
  <2>5. CASE \E s \in Shell!Streams : Shell!Read(s)
    <3>1. phase = "running" /\ phase' \in {"running", "stopping"} /\ UNCHANGED <<group, armed>>
      BY <2>5 DEF Shell!Read
    <3> QED BY <3>1 DEF Ended
  <2>6. CASE \E s \in Shell!Streams : \E class \in {"x", "L", "c"} : Shell!CommandWrites(s, class)
    BY <2>6 DEF Ended, Shell!CommandWrites
  <2>7. CASE \E p \in group : Shell!ProcessExits(p)
    BY <2>7 DEF Ended, Shell!ProcessExits
  <2> QED BY <2>1, <2>2, <2>3, <2>4, <2>5, <2>6, <2>7 DEF Shell!Next
<1>3. Ended => Shell!NoOrphan
  BY DEF Ended, Shell!NoOrphan
<1> QED BY <1>1, <1>2, <1>3, PTL DEF AllSpec

-----------------------------------------------------------------------------
(* The project's rules                                                     *)

WorkerFields == {"step", "dir", "dirs", "old", "read", "there", "cancelled"}
Workers == Instructions!Workers
Load(dirs) == Instructions!Load(dirs)
Applying(rules, dir) == Instructions!Applying(rules, dir)

\* What every variable of the rules cache is.
RuleTypes ==
    /\ files \in [Dirs -> Nat] /\ edits \in Nat
    /\ DOMAIN cache = {"held", "dirs", "loaded", "delivered"} /\ cache.dirs \subseteq Dirs
    /\ round \in [n : Nat, stage : {"source", "think", "batch", "over", "finished"}]
    /\ DOMAIN worker = Workers
    /\ \A w \in Workers : /\ worker[w] = [f \in WorkerFields |-> worker[w][f]]
                          /\ worker[w].step \in {"idle", "asked", "load", "save", "decided"}
                          /\ worker[w].dir \in Dirs /\ worker[w].dirs \subseteq Dirs
                          /\ worker[w].cancelled \in BOOLEAN
    /\ ledger \in [quiet : BOOLEAN, known : SUBSET Dirs, named : SUBSET Dirs, refused : BOOLEAN]

\* What holds at each stage of a round.
RuleRound ==
    /\ round.stage \in {"source", "think"} =>
        dispatched = {} /\ ~ledger.refused /\ \A c \in Calls : worker[c].step = "idle"
    /\ round.stage \in {"think", "batch"} => worker["source"].step = "idle" /\ cache.delivered = rulesCtx
    /\ round.stage = "source" => ledger.known \subseteq cache.dirs
    /\ \A w \in Workers : worker[w].cancelled => round.stage \in {"over", "finished"}
    /\ round.stage = "finished" => ~cache.held
\* What the round's source has read, as long as no rule file changes.
RuleSource ==
    round.stage = "source" /\ worker["source"].step \in {"load", "save"} =>
        /\ cache.dirs \subseteq worker["source"].dirs
        /\ worker["source"].step = "save" /\ ledger.quiet => worker["source"].read = Load(worker["source"].dirs)
\* What a call that is checked has read.
RuleCalls ==
    round.stage = "batch" =>
        \A c \in Calls :
            /\ worker[c].step \in {"load", "save"} => worker[c].old = rulesCtx /\ worker[c].dir \in worker[c].dirs
            /\ worker[c].step = "save" => /\ worker[c].there = Applying(worker[c].read, worker[c].dir)
                                          /\ ledger.quiet => worker[c].read = Load(worker[c].dirs)
            /\ worker[c].step = "decided" => worker[c].dir \in cache.dirs
\* The directories the batch names, and those the model was shown the rules of.
Asked == {worker[c].dir : c \in {d \in Calls : worker[d].step # "idle"}}
RulesShown(dirs) ==
    /\ ledger.known \subseteq dirs /\ dirs \subseteq cache.dirs /\ cache.dirs \subseteq dirs \cup Asked
    /\ ledger.quiet => rulesCtx = Load(dirs)
    /\ \A c \in Calls : worker[c].step \in {"load", "save"} =>
            dirs \subseteq worker[c].dirs /\ worker[c].dirs \subseteq dirs \cup Asked
RuleShown == round.stage \in {"think", "batch"} => \E dirs \in SUBSET Dirs : RulesShown(dirs)
\* A refusal is for a directory that is new.
RuleRefused == round.stage = "batch" /\ ledger.refused /\ ledger.quiet => ~(Asked \subseteq ledger.known)

RuleInv ==
    /\ RuleTypes /\ RuleRound /\ RuleSource /\ RuleCalls /\ RuleShown /\ RuleRefused
    /\ Instructions!ActUnderRules

\* The rules of one directory are those of a set it is in, that apply to it.
LEMMA LoadApplies ==
    ASSUME NEW dirs \in SUBSET Dirs, NEW dir \in dirs
    PROVE  Instructions!Load({dir}) = Applying(Load(dirs), dir)
<1>1. Instructions!IsPrefix(<<>>, dir)
  <2>1. dir \in Seq(STRING) /\ Len(dir) \in Nat
    BY DirsAssumption
  <2>2. Len(<<>>) = 0 /\ SubSeq(<<>>, 1, 0) = <<>> /\ SubSeq(dir, 1, 0) = <<>>
    BY <2>1
  <2> QED BY <2>1, <2>2 DEF Instructions!IsPrefix
<1> DEFINE L(ds) == {s \in Instructions!Scopes(ds) : files[s] # 0}
<1>2. Instructions!Load({dir}) = [d \in L({dir}) |-> files[d]] /\ Load(dirs) = [d \in L(dirs) |-> files[d]]
  BY DEF Load, Instructions!Load
<1>3. L({dir}) = {e \in L(dirs) : Instructions!IsPrefix(e, dir)}
  BY <1>1 DEF Instructions!Scopes
<1> HIDE DEF L
<1>4. DOMAIN Load(dirs) = L(dirs) /\ \A e \in L(dirs) : Load(dirs)[e] = files[e]
  BY <1>2
<1>5. Applying(Load(dirs), dir) = [d \in {e \in L(dirs) : Instructions!IsPrefix(e, dir)} |-> Load(dirs)[d]]
  BY <1>4 DEF Applying, Instructions!Applying
<1> QED BY <1>2, <1>3, <1>4, <1>5

\* It holds at the start.
LEMMA RuleInit == Instructions!Init => RuleInv
<1> SUFFICES ASSUME Instructions!Init PROVE RuleInv
  OBVIOUS
<1>1. \A w \in Workers : worker[w] = Instructions!Idle
  BY DEF Instructions!Init, Workers
<1>2. \A w \in Workers : worker[w] = [f \in WorkerFields |-> worker[w][f]] /\ worker[w].step = "idle"
                         /\ worker[w].dir = <<>> /\ worker[w].dirs = {} /\ worker[w].cancelled = FALSE
  BY <1>1 DEF Instructions!Idle, WorkerFields
<1>3. "source" \in Workers /\ \A c \in Calls : c \in Workers
  BY DEF Workers, Instructions!Workers
<1>4. RuleTypes
  BY <1>2, DirsAssumption DEF RuleTypes, Instructions!Init, Instructions!NoCache, Workers
<1>5. round.stage = "source" /\ dispatched = {} /\ ledger.known = {} /\ ledger.refused = FALSE
  BY DEF Instructions!Init
<1> QED BY <1>2, <1>3, <1>4, <1>5
        DEF RuleInv, RuleRound, RuleSource, RuleCalls, RuleShown, RuleRefused, Instructions!ActUnderRules

\* An edit of a rule file: nothing is known to be current any more.
LEMMA EditRulesStep == ASSUME RuleInv, NEW d \in Dirs, Instructions!EditRules(d) PROVE RuleInv'
<1>1. /\ files' = [files EXCEPT ![d] = edits + 1] /\ edits' = edits + 1
      /\ ledger' = [ledger EXCEPT !.quiet = FALSE]
      /\ UNCHANGED <<cache, rulesCtx, round, worker, dispatched>>
  BY DEF Instructions!EditRules
<1>2. ledger'.quiet = FALSE /\ ledger'.known = ledger.known /\ ledger'.refused = ledger.refused
      /\ ledger' \in [quiet : BOOLEAN, known : SUBSET Dirs, named : SUBSET Dirs, refused : BOOLEAN]
  BY <1>1 DEF RuleInv, RuleTypes
<1>3. RuleTypes'
  BY <1>1, <1>2 DEF RuleInv, RuleTypes
<1>4. RuleRound' /\ RuleSource' /\ RuleRefused'
  BY <1>1, <1>2 DEF RuleInv, RuleRound, RuleSource, RuleRefused
<1>5. RuleCalls'
  BY <1>1, <1>2 DEF RuleInv, RuleCalls, Applying
<1>6. RuleShown'
  <2>1. Asked' = Asked
    BY <1>1 DEF Asked
  <2>2. \A dirs : RulesShown(dirs) => RulesShown(dirs)'
    BY <1>1, <1>2, <2>1 DEF RulesShown
  <2> QED BY <1>1, <2>2 DEF RuleInv, RuleShown
<1>7. Instructions!ActUnderRules'
  BY <1>1 DEF RuleInv, Instructions!ActUnderRules
<1> QED BY <1>3, <1>4, <1>5, <1>6, <1>7 DEF RuleInv

\* A run whose calls can decide nothing more.
LEMMA OverIs ==
    ASSUME RuleInv, RuleTypes', round'.stage \in {"over", "finished"}, round'.stage = "finished" => ~cache'.held,
           UNCHANGED <<rulesCtx, dispatched>>
    PROVE  RuleInv'
<1>1. RuleRound' /\ RuleSource' /\ RuleCalls' /\ RuleShown' /\ RuleRefused'
  BY DEF RuleRound, RuleSource, RuleCalls, RuleShown, RuleRefused
<1>2. Instructions!ActUnderRules'
  BY DEF RuleInv, Instructions!ActUnderRules
<1> QED BY <1>1, <1>2 DEF RuleInv
\* The run is over, or a worker is.
LEMMA RulesOverStep ==
    ASSUME RuleInv, Instructions!Over \/ Instructions!FinishRun \/ \E w \in Workers : Instructions!Quit(w) \/ Instructions!GiveUp(w)
    PROVE  RuleInv'
<1>1. CASE Instructions!Over \/ Instructions!FinishRun
  <2>1. RuleTypes' /\ round'.stage \in {"over", "finished"} /\ (round'.stage = "finished" => ~cache'.held)
        /\ UNCHANGED <<rulesCtx, dispatched>>
    BY <1>1 DEF Instructions!Over, Instructions!FinishRun, Instructions!NoCache, RuleInv, RuleTypes
  <2> QED BY <2>1, OverIs
<1>2. CASE \E w \in Workers : Instructions!Quit(w)
  <2>1. PICK w \in Workers : Instructions!Quit(w)
    BY <1>2
  <2>2. /\ worker' = [worker EXCEPT ![w] = Instructions!Idle] /\ round.stage \in {"over", "finished"}
        /\ UNCHANGED <<files, edits, cache, rulesCtx, round, dispatched, ledger>>
    BY <2>1 DEF Instructions!Quit, Instructions!Cancelled, RuleInv, RuleRound
  <2>3. \A v \in Workers : worker'[v] \in {worker[v], Instructions!Idle}
    BY <2>2 DEF RuleInv, RuleTypes
  <2>4. RuleTypes'
    BY ZenonT(40), <2>2, <2>3, DirsAssumption DEF RuleInv, RuleTypes, Instructions!Idle, WorkerFields
  <2> QED BY <2>2, <2>4, OverIs DEF RuleInv, RuleRound
<1>3. CASE \E w \in Workers : Instructions!GiveUp(w)
  <2>1. PICK w \in Workers : Instructions!GiveUp(w)
    BY <1>3
  <2> DEFINE e == [worker[w] EXCEPT !.cancelled = TRUE]
  <2>2. /\ worker' = [worker EXCEPT ![w].cancelled = TRUE] /\ round' = [round EXCEPT !.stage = "over"]
        /\ UNCHANGED <<files, edits, cache, rulesCtx, dispatched, ledger>>
    BY <2>1 DEF Instructions!GiveUp
  <2>3. e = [f \in WorkerFields |-> e[f]] /\ e.step = worker[w].step /\ e.dir = worker[w].dir /\ e.dirs = worker[w].dirs
        /\ e.cancelled = TRUE
    <3>1. worker[w] = [f \in WorkerFields |-> worker[w][f]]
      BY DEF RuleInv, RuleTypes
    <3> QED BY <3>1 DEF WorkerFields
  <2>4. worker' = [worker EXCEPT ![w] = e]
    BY <2>2 DEF RuleInv, RuleTypes
  <2> HIDE DEF e
  <2>5. \A v \in Workers : worker'[v] = IF v = w THEN e ELSE worker[v]
    BY <2>4 DEF RuleInv, RuleTypes
  <2>6. RuleTypes'
    <3>1. round' \in [n : Nat, stage : {"source", "think", "batch", "over", "finished"}]
      BY <2>2 DEF RuleInv, RuleTypes
    <3>2. DOMAIN worker' = Workers
      BY <2>4 DEF RuleInv, RuleTypes
    <3> QED BY ZenonT(40), <2>2, <2>3, <2>5, <3>1, <3>2 DEF RuleInv, RuleTypes
  <2>7. round'.stage = "over"
    BY <2>2 DEF RuleInv, RuleTypes
  <2> QED BY <2>2, <2>6, <2>7, OverIs
<1> QED BY <1>1, <1>2, <1>3

\* A worker that starts copies the cache entry and adds the directories it is for.
LEMMA WorkerStarts ==
    ASSUME RuleInv, NEW w \in Workers, NEW extra \in SUBSET Dirs, Instructions!State(w, extra)
    PROVE  /\ cache'.dirs = cache.dirs /\ cache'.delivered = cache.delivered
           /\ DOMAIN cache' = {"held", "dirs", "loaded", "delivered"}
           /\ worker'[w].step = "load" /\ worker'[w].dir = worker[w].dir /\ worker'[w].dirs = cache.dirs \cup extra
           /\ worker'[w].old = cache.delivered /\ worker'[w].cancelled = FALSE
           /\ worker'[w] = [f \in WorkerFields |-> worker'[w][f]]
           /\ DOMAIN worker' = Workers /\ \A v \in Workers : v # w => worker'[v] = worker[v]
           /\ round.stage \in {"source", "think", "batch"}
<1> DEFINE e == [step |-> "load", dir |-> worker[w].dir, dirs |-> cache.dirs \cup extra, old |-> cache.delivered,
                 read |-> <<>>, there |-> <<>>, cancelled |-> FALSE]
<1>1. cache' = [cache EXCEPT !.held = TRUE] /\ worker' = [worker EXCEPT ![w] = e]
      /\ round.stage \notin {"over", "finished"}
  BY DEF Instructions!State, Instructions!Cancelled
<1>2. e = [f \in WorkerFields |-> e[f]] /\ e.step = "load" /\ e.dir = worker[w].dir /\ e.dirs = cache.dirs \cup extra
      /\ e.old = cache.delivered /\ e.cancelled = FALSE
  BY DEF WorkerFields
<1> HIDE DEF e
<1>3. DOMAIN worker = Workers /\ DOMAIN cache = {"held", "dirs", "loaded", "delivered"}
      /\ round.stage \in {"source", "think", "batch", "over", "finished"}
  BY DEF RuleInv, RuleTypes
<1>4. worker'[w] = e /\ DOMAIN worker' = Workers /\ \A v \in Workers : v # w => worker'[v] = worker[v]
  BY <1>1, <1>3
<1>5. cache'.dirs = cache.dirs /\ cache'.delivered = cache.delivered /\ DOMAIN cache' = {"held", "dirs", "loaded", "delivered"}
  BY <1>1, <1>3
<1> QED BY <1>1, <1>2, <1>3, <1>4, <1>5

\* The round's source starts with every directory the cache has.
LEMMA SourceStep == ASSUME RuleInv, Instructions!Source PROVE RuleInv'
<1>1. /\ round.stage = "source" /\ worker["source"].step = "idle"
      /\ UNCHANGED <<files, edits, rulesCtx, round, dispatched, ledger>>
  BY DEF Instructions!Source
<1>2. PICK kept \in SUBSET ledger.named :
        Instructions!State("source", kept \cup (IF cache.loaded THEN {} ELSE HistoryDirs))
  BY DEF Instructions!Source
<1> DEFINE extra == kept \cup (IF cache.loaded THEN {} ELSE HistoryDirs)
<1>3. extra \in SUBSET Dirs /\ Instructions!State("source", extra) /\ "source" \in Workers
  BY <1>2, DirsAssumption DEF RuleInv, RuleTypes, Workers, Instructions!Workers
<1> HIDE DEF extra
<1>4. /\ cache'.dirs = cache.dirs /\ cache'.delivered = cache.delivered
      /\ DOMAIN cache' = {"held", "dirs", "loaded", "delivered"}
      /\ worker'["source"].step = "load" /\ worker'["source"].dir = worker["source"].dir
      /\ worker'["source"].dirs = cache.dirs \cup extra /\ worker'["source"].cancelled = FALSE
      /\ worker'["source"] = [f \in WorkerFields |-> worker'["source"][f]]
      /\ DOMAIN worker' = Workers /\ \A v \in Workers : v # "source" => worker'[v] = worker[v]
  BY <1>3, WorkerStarts
<1>5. RuleTypes'
  <2>1. worker["source"].dir \in Dirs /\ cache.dirs \cup extra \subseteq Dirs
    BY <1>3 DEF RuleInv, RuleTypes
  <2>2. \A v \in Workers : /\ worker'[v] = [f \in WorkerFields |-> worker'[v][f]]
                           /\ worker'[v].step \in {"idle", "asked", "load", "save", "decided"}
                           /\ worker'[v].dir \in Dirs /\ worker'[v].dirs \subseteq Dirs
                           /\ worker'[v].cancelled \in BOOLEAN
    <3>1. ASSUME NEW v \in Workers, v # "source" PROVE worker'[v] = worker[v]
      BY <1>4, <3>1
    <3>2. \A v \in Workers : /\ worker[v] = [f \in WorkerFields |-> worker[v][f]]
                             /\ worker[v].step \in {"idle", "asked", "load", "save", "decided"}
                             /\ worker[v].dir \in Dirs /\ worker[v].dirs \subseteq Dirs
                             /\ worker[v].cancelled \in BOOLEAN
      BY DEF RuleInv, RuleTypes
    <3> TAKE v \in Workers
    <3>3. CASE v = "source"
      BY <1>4, <2>1, <3>3
    <3>4. CASE v # "source"
      <4>1. worker'[v] = worker[v]
        BY <3>1, <3>4
      <4> QED BY <3>2, <4>1, Zenon
    <3> QED BY <3>3, <3>4
  <2> QED BY <1>1, <1>4, <2>2 DEF RuleInv, RuleTypes
<1>6. \A c \in Calls : c \in Workers /\ worker'[c] = worker[c]
  BY <1>4, DirsAssumption DEF Workers, Instructions!Workers
<1>7. RuleRound'
  BY <1>1, <1>3, <1>4, <1>6 DEF RuleInv, RuleRound
<1>8. RuleSource' /\ RuleCalls' /\ RuleShown' /\ RuleRefused'
  BY <1>1, <1>4 DEF RuleSource, RuleCalls, RuleShown, RuleRefused
<1>9. Instructions!ActUnderRules'
  BY <1>1 DEF RuleInv, Instructions!ActUnderRules
<1> QED BY <1>5, <1>7, <1>8, <1>9 DEF RuleInv

\* What a worker that has read holds.
LEMMA WorkerReads ==
    ASSUME RuleInv, NEW w \in Workers, Instructions!Read(w)
    PROVE  /\ worker[w].step = "load" /\ worker'[w].step = "save" /\ worker'[w].dir = worker[w].dir
           /\ worker'[w].dirs = worker[w].dirs /\ worker'[w].old = worker[w].old
           /\ worker'[w].cancelled = worker[w].cancelled
           /\ worker'[w].read = Load(worker[w].dirs) /\ worker'[w].there = Instructions!Load({worker[w].dir})
           /\ worker'[w] = [f \in WorkerFields |-> worker'[w][f]]
           /\ DOMAIN worker' = Workers /\ \A v \in Workers : v # w => worker'[v] = worker[v]
           /\ round.stage \in {"source", "think", "batch"}
           /\ ledger' = (IF w = "source" THEN [ledger EXCEPT !.quiet = TRUE] ELSE ledger)
           /\ UNCHANGED <<files, edits, cache, rulesCtx, round, dispatched>>
<1> DEFINE read == Load(worker[w].dirs)
           there == Instructions!Load({worker[w].dir})
           e == [worker[w] EXCEPT !.step = "save", !.read = read, !.there = there]
<1>1. /\ worker[w].step = "load" /\ round.stage \notin {"over", "finished"}
      /\ worker' = [worker EXCEPT ![w].step = "save", ![w].read = read, ![w].there = there]
      /\ ledger' = (IF w = "source" THEN [ledger EXCEPT !.quiet = TRUE] ELSE ledger)
      /\ UNCHANGED <<files, edits, cache, rulesCtx, round, dispatched>>
  BY DEF Instructions!Read, Instructions!Cancelled, Load
<1> HIDE DEF read, there
<1>2. worker[w] = [f \in WorkerFields |-> worker[w][f]] /\ DOMAIN worker = Workers
      /\ round.stage \in {"source", "think", "batch", "over", "finished"}
  BY DEF RuleInv, RuleTypes
<1>3. e = [f \in WorkerFields |-> e[f]] /\ e.step = "save" /\ e.dir = worker[w].dir /\ e.dirs = worker[w].dirs
      /\ e.old = worker[w].old /\ e.cancelled = worker[w].cancelled /\ e.read = read /\ e.there = there
  BY <1>2 DEF WorkerFields
<1>4. worker' = [worker EXCEPT ![w] = e]
  BY <1>1, <1>2
<1> HIDE DEF e
<1>5. worker'[w] = e /\ DOMAIN worker' = Workers /\ \A v \in Workers : v # w => worker'[v] = worker[v]
  BY <1>2, <1>4
<1> QED BY <1>1, <1>2, <1>3, <1>5 DEF read, there

\* A worker reads the rule files.
LEMMA ReadRulesStep == ASSUME RuleInv, NEW w \in Workers, Instructions!Read(w) PROVE RuleInv'
<1>1. /\ worker[w].step = "load" /\ worker'[w].step = "save" /\ worker'[w].dir = worker[w].dir
      /\ worker'[w].dirs = worker[w].dirs /\ worker'[w].old = worker[w].old
      /\ worker'[w].cancelled = worker[w].cancelled
      /\ worker'[w].read = Load(worker[w].dirs) /\ worker'[w].there = Instructions!Load({worker[w].dir})
      /\ worker'[w] = [f \in WorkerFields |-> worker'[w][f]]
      /\ DOMAIN worker' = Workers /\ \A v \in Workers : v # w => worker'[v] = worker[v]
      /\ round.stage \in {"source", "think", "batch"}
      /\ ledger' = (IF w = "source" THEN [ledger EXCEPT !.quiet = TRUE] ELSE ledger)
      /\ UNCHANGED <<files, edits, cache, rulesCtx, round, dispatched>>
  BY WorkerReads
<1>2. /\ ledger' \in [quiet : BOOLEAN, known : SUBSET Dirs, named : SUBSET Dirs, refused : BOOLEAN]
      /\ ledger'.known = ledger.known /\ ledger'.refused = ledger.refused
  BY <1>1 DEF RuleInv, RuleTypes
<1>3. RuleTypes'
  BY <1>1, <1>2 DEF RuleInv, RuleTypes
<1>4. \A dirs : Load(dirs)' = Load(dirs)
  BY <1>1 DEF Load, Instructions!Load, Instructions!Scopes
<1>5. \A rules, dir : Applying(rules, dir)' = Applying(rules, dir)
  BY DEF Applying, Instructions!Applying
<1>6. Instructions!ActUnderRules'
  BY <1>1 DEF RuleInv, Instructions!ActUnderRules
<1>7. "source" \in Workers /\ Workers = Calls \cup {"source"} /\ "source" \notin Calls
  BY DirsAssumption DEF Workers, Instructions!Workers
<1>8. CASE w = "source"
  <2>1. round.stage = "source"
    BY <1>1, <1>8 DEF RuleInv, RuleRound
  <2>2. RuleRound'
    BY <1>1, <1>2, <1>7, <1>8, <2>1 DEF RuleInv, RuleRound
  <2>3. RuleSource'
    BY <1>1, <1>4, <1>8, <2>1 DEF RuleInv, RuleSource
  <2>4. RuleCalls' /\ RuleShown' /\ RuleRefused'
    BY <1>1, <2>1 DEF RuleCalls, RuleShown, RuleRefused
  <2> QED BY <1>3, <1>6, <2>2, <2>3, <2>4 DEF RuleInv
<1>9. CASE w # "source"
  <2>1. round.stage = "batch" /\ w \in Calls /\ ledger' = ledger
    BY <1>1, <1>7, <1>9 DEF RuleInv, RuleRound
  <2>2. RuleRound'
    BY <1>1, <1>7, <1>9, <2>1 DEF RuleInv, RuleRound
  <2>3. RuleCalls'
    <3>1. worker[w].old = rulesCtx /\ worker[w].dir \in worker[w].dirs /\ worker[w].dirs \in SUBSET Dirs
      BY <1>1, <2>1 DEF RuleInv, RuleCalls, RuleTypes
    <3>2. worker'[w].there = Applying(worker'[w].read, worker'[w].dir)
      BY <1>1, <3>1, LoadApplies
    <3>3. ASSUME NEW c \in Calls, c # w PROVE worker'[c] = worker[c]
      BY <1>1, <1>7, <3>3
    <3> HIDE DEF RuleInv
    <3>4. RuleCalls
      BY DEF RuleInv
    <3>5. UNCHANGED <<rulesCtx, cache, ledger, round>>
      BY <1>1, <2>1
    <3>6. /\ worker'[w].step \in {"load", "save"} => worker'[w].old = rulesCtx' /\ worker'[w].dir \in worker'[w].dirs
          /\ worker'[w].step = "save" => /\ worker'[w].there = Applying(worker'[w].read, worker'[w].dir)
                                         /\ ledger'.quiet => worker'[w].read = Load(worker'[w].dirs)
          /\ worker'[w].step = "decided" => worker'[w].dir \in cache'.dirs
      BY <1>1, <2>1, <3>1, <3>2, <3>4, <3>5 DEF RuleCalls
    <3>7. ASSUME NEW c \in Calls, c # w
          PROVE  /\ worker'[c].step \in {"load", "save"} => worker'[c].old = rulesCtx' /\ worker'[c].dir \in worker'[c].dirs
                 /\ worker'[c].step = "save" => /\ worker'[c].there = Applying(worker'[c].read, worker'[c].dir)
                                                /\ ledger'.quiet => worker'[c].read = Load(worker'[c].dirs)
                 /\ worker'[c].step = "decided" => worker'[c].dir \in cache'.dirs
      BY <2>1, <3>3, <3>4, <3>5, <3>7 DEF RuleCalls
    <3> QED BY <1>4, <1>5, <3>6, <3>7 DEF RuleCalls
  <2>4. Asked' = Asked
    BY <1>1, <1>7, <2>1 DEF Asked
  <2>5. RuleShown' /\ RuleRefused'
    <3>1. \A dirs : RulesShown(dirs) => RulesShown(dirs)'
      BY <1>1, <1>4, <1>7, <2>1, <2>4 DEF RulesShown
    <3> QED BY <1>1, <2>1, <2>4, <3>1 DEF RuleInv, RuleShown, RuleRefused
  <2>6. RuleSource'
    BY <1>1, <2>1 DEF RuleSource
  <2> QED BY <1>3, <1>6, <2>2, <2>3, <2>5, <2>6 DEF RuleInv
<1> QED BY <1>8, <1>9

\* The rules go to the model.
LEMMA DeliverStep == ASSUME RuleInv, Instructions!Deliver PROVE RuleInv'
<1> DEFINE w == worker["source"]
<1>1. /\ w.step = "save" /\ round.stage \notin {"over", "finished"}
      /\ cache' = [held |-> TRUE, dirs |-> w.dirs, loaded |-> TRUE, delivered |-> w.read]
      /\ rulesCtx' = w.read /\ round' = [round EXCEPT !.stage = "think"]
      /\ worker' = [worker EXCEPT !["source"] = Instructions!Idle] /\ UNCHANGED <<files, edits, dispatched, ledger>>
  BY DEF Instructions!Deliver, Instructions!Cancelled
<1>2. "source" \in Workers /\ Workers = Calls \cup {"source"} /\ "source" \notin Calls
  BY DirsAssumption DEF Workers, Instructions!Workers
<1>3. round.stage = "source"
  BY <1>1 DEF RuleInv, RuleRound, RuleTypes
<1>4. round' \in [n : Nat, stage : {"source", "think", "batch", "over", "finished"}] /\ round'.stage = "think"
  BY <1>1 DEF RuleInv, RuleTypes
<1>5. worker'["source"] = Instructions!Idle /\ DOMAIN worker' = Workers
      /\ \A v \in Workers : v # "source" => worker'[v] = worker[v]
  BY <1>1, <1>2 DEF RuleInv, RuleTypes
<1>6. Instructions!Idle = [f \in WorkerFields |-> Instructions!Idle[f]] /\ Instructions!Idle.step = "idle"
      /\ Instructions!Idle.dir = <<>> /\ Instructions!Idle.dirs = {} /\ Instructions!Idle.cancelled = FALSE
  BY DEF Instructions!Idle, WorkerFields
<1>7. w.dirs \subseteq Dirs /\ ledger.known \subseteq w.dirs /\ (ledger.quiet => w.read = Load(w.dirs))
  BY <1>1, <1>2, <1>3 DEF RuleInv, RuleTypes, RuleRound, RuleSource
<1> HIDE DEF w
<1>8. cache'.dirs = w.dirs /\ cache'.delivered = w.read /\ DOMAIN cache' = {"held", "dirs", "loaded", "delivered"}
  BY <1>1
<1>9. RuleTypes'
  BY <1>1, <1>4, <1>5, <1>6, <1>7, <1>8, DirsAssumption DEF RuleInv, RuleTypes
<1>10. \A c \in Calls : worker'[c].step = "idle"
  BY <1>2, <1>3, <1>5 DEF RuleInv, RuleRound
<1>11. RuleRound'
  BY <1>1, <1>2, <1>3, <1>4, <1>5, <1>6, <1>8, <1>10 DEF RuleInv, RuleRound
<1>12. RuleSource' /\ RuleCalls' /\ RuleRefused'
  BY <1>4 DEF RuleSource, RuleCalls, RuleRefused
<1>13. RuleShown'
  <2>1. PICK ds \in SUBSET Dirs : ds = w.dirs
    BY <1>7
  <2>2. Load(ds)' = Load(ds)
    BY <1>1 DEF Load, Instructions!Load, Instructions!Scopes
  <2>3. RulesShown(ds)'
    BY <1>1, <1>7, <1>8, <1>10, <2>1, <2>2 DEF RulesShown
  <2> QED BY <2>3 DEF RuleShown
<1>14. Instructions!ActUnderRules'
  BY <1>1, <1>3 DEF RuleInv, RuleRound, Instructions!ActUnderRules
<1> QED BY <1>9, <1>11, <1>12, <1>13, <1>14 DEF RuleInv

\* The calls of the model's reply.
LEMMA AskStep ==
    ASSUME RuleInv, NEW asked \in SUBSET Calls, NEW dirOf \in [asked -> Dirs], Instructions!Ask(dirOf)
    PROVE  RuleInv'
<1>1. /\ round.stage = "think" /\ round' = [round EXCEPT !.stage = "batch"]
      /\ worker' = [w \in Workers |-> IF w \in asked THEN [Instructions!Idle EXCEPT !.step = "asked", !.dir = dirOf[w]]
                                      ELSE worker[w]]
      /\ ledger' = [ledger EXCEPT !.named = @ \cup {dirOf[c] : c \in asked}]
      /\ UNCHANGED <<files, edits, cache, rulesCtx, dispatched>>
  BY DEF Instructions!Ask, Workers
<1>2. "source" \in Workers /\ Workers = Calls \cup {"source"} /\ "source" \notin Calls
  BY DirsAssumption DEF Workers, Instructions!Workers
<1>3. round' \in [n : Nat, stage : {"source", "think", "batch", "over", "finished"}] /\ round'.stage = "batch"
  BY <1>1 DEF RuleInv, RuleTypes
<1>4. /\ ledger' \in [quiet : BOOLEAN, known : SUBSET Dirs, named : SUBSET Dirs, refused : BOOLEAN]
      /\ ledger'.known = ledger.known /\ ledger'.refused = FALSE /\ ledger'.quiet = ledger.quiet
  <2>1. {dirOf[c] : c \in asked} \subseteq Dirs
    OBVIOUS
  <2>2. /\ ledger \in [quiet : BOOLEAN, known : SUBSET Dirs, named : SUBSET Dirs, refused : BOOLEAN]
        /\ ~ledger.refused
    BY <1>1 DEF RuleInv, RuleTypes, RuleRound
  <2>3. ledger.refused = FALSE
    BY <2>2
  <2> DEFINE more == {dirOf[c] : c \in asked}
  <2>4. ledger' = [ledger EXCEPT !.named = @ \cup more] /\ more \subseteq Dirs
    BY <1>1, <2>1
  <2> HIDE DEF more
  <2> QED BY <2>2, <2>3, <2>4
<1>5. ASSUME NEW w \in Workers
      PROVE  /\ worker'[w] = [f \in WorkerFields |-> worker'[w][f]]
             /\ worker'[w].step \in {"idle", "asked", "load", "save", "decided"}
             /\ worker'[w].dir \in Dirs /\ worker'[w].dirs \subseteq Dirs
             /\ worker'[w].cancelled \in BOOLEAN
             /\ w \in Calls => worker'[w].step \in {"idle", "asked"}
             /\ worker'[w].cancelled = FALSE /\ (w = "source" => worker'[w].step = "idle")
  <2>1. CASE w \in asked
    <3>1. worker'[w] = [Instructions!Idle EXCEPT !.step = "asked", !.dir = dirOf[w]]
      BY <1>1, <2>1
    <3> QED BY <1>2, <2>1, <3>1 DEF Instructions!Idle, WorkerFields
  <2>2. CASE w \notin asked
    <3>1. worker'[w] = worker[w]
      BY <1>1, <2>2
    <3>2. /\ worker[w] = [f \in WorkerFields |-> worker[w][f]] /\ worker[w].dir \in Dirs /\ worker[w].dirs \subseteq Dirs
          /\ worker[w].cancelled = FALSE /\ worker[w].step = "idle"
      BY <1>1, <1>2 DEF RuleInv, RuleTypes, RuleRound
    <3> QED BY <3>1, <3>2
  <2> QED BY <2>1, <2>2
<1>6. RuleTypes'
  <2>1. DOMAIN worker' = Workers
    BY <1>1
  <2> QED BY <1>1, <1>3, <1>4, <1>5, <2>1 DEF RuleInv, RuleTypes
<1>7. RuleRound'
  BY <1>1, <1>2, <1>3, <1>5 DEF RuleInv, RuleRound
<1>8. RuleSource' /\ RuleRefused'
  BY <1>3, <1>4 DEF RuleSource, RuleRefused
<1>9. RuleCalls'
  BY <1>2, <1>5 DEF RuleCalls
<1>10. RuleShown'
  <2>1. PICK dirs \in SUBSET Dirs : RulesShown(dirs)
    BY <1>1 DEF RuleInv, RuleShown
  <2>2. Asked = {}
    BY <1>1 DEF RuleInv, RuleRound, Asked
  <2>3. Load(dirs)' = Load(dirs)
    BY <1>1 DEF Load, Instructions!Load, Instructions!Scopes
  <2>4. RulesShown(dirs)'
    BY <1>1, <1>2, <1>4, <1>5, <2>1, <2>2, <2>3 DEF RulesShown
  <2> QED BY <2>4 DEF RuleShown
<1>11. Instructions!ActUnderRules'
  BY <1>1 DEF RuleInv, Instructions!ActUnderRules
<1> QED BY <1>6, <1>7, <1>8, <1>9, <1>10, <1>11 DEF RuleInv

\* A call's check starts.
LEMMA CheckStep == ASSUME RuleInv, NEW c \in Calls, Instructions!Check(c) PROVE RuleInv'
<1>1. /\ round.stage = "batch" /\ worker[c].step = "asked" /\ Instructions!State(c, {worker[c].dir})
      /\ UNCHANGED <<files, edits, rulesCtx, round, dispatched, ledger>>
  BY DEF Instructions!Check
<1>2. "source" \in Workers /\ Workers = Calls \cup {"source"} /\ "source" \notin Calls
  BY DirsAssumption DEF Workers, Instructions!Workers
<1>3. c \in Workers /\ worker[c].dir \in Dirs
  BY <1>2 DEF RuleInv, RuleTypes
<1>4. /\ cache'.dirs = cache.dirs /\ cache'.delivered = cache.delivered
      /\ DOMAIN cache' = {"held", "dirs", "loaded", "delivered"}
      /\ worker'[c].step = "load" /\ worker'[c].dir = worker[c].dir
      /\ worker'[c].dirs = cache.dirs \cup {worker[c].dir} /\ worker'[c].old = cache.delivered
      /\ worker'[c].cancelled = FALSE
      /\ worker'[c] = [f \in WorkerFields |-> worker'[c][f]]
      /\ DOMAIN worker' = Workers /\ \A v \in Workers : v # c => worker'[v] = worker[v]
  BY <1>1, <1>3, WorkerStarts
<1>5. RuleTypes'
  <2>1. \A v \in Workers : /\ worker'[v] = [f \in WorkerFields |-> worker'[v][f]]
                           /\ worker'[v].step \in {"idle", "asked", "load", "save", "decided"}
                           /\ worker'[v].dir \in Dirs /\ worker'[v].dirs \subseteq Dirs
                           /\ worker'[v].cancelled \in BOOLEAN
    <3>1. \A v \in Workers : /\ worker[v] = [f \in WorkerFields |-> worker[v][f]]
                             /\ worker[v].step \in {"idle", "asked", "load", "save", "decided"}
                             /\ worker[v].dir \in Dirs /\ worker[v].dirs \subseteq Dirs
                             /\ worker[v].cancelled \in BOOLEAN
      BY DEF RuleInv, RuleTypes
    <3> TAKE v \in Workers
    <3>2. CASE v = c
      <4>1. cache.dirs \subseteq Dirs
        BY DEF RuleInv, RuleTypes
      <4> QED BY <1>3, <1>4, <3>2, <4>1
    <3>3. CASE v # c
      <4>1. worker'[v] = worker[v]
        BY <1>4, <3>3
      <4> QED BY <3>1, <4>1, Zenon
    <3> QED BY <3>2, <3>3
  <2> QED BY <1>1, <1>4, <2>1 DEF RuleInv, RuleTypes
<1>6. RuleRound'
  BY <1>1, <1>2, <1>3, <1>4 DEF RuleInv, RuleRound
<1>7. RuleSource'
  BY <1>1 DEF RuleSource
<1>8. \A dirs : Load(dirs)' = Load(dirs)
  BY <1>1 DEF Load, Instructions!Load, Instructions!Scopes
<1>9. cache.delivered = rulesCtx
  BY <1>1 DEF RuleInv, RuleRound
<1>10. RuleCalls'
  <2>1. RuleCalls
    BY DEF RuleInv
  <2>2. ASSUME NEW d \in Calls, d # c PROVE worker'[d] = worker[d]
    BY <1>2, <1>4, <2>2
  <2> HIDE DEF RuleInv
  <2>3. \A rules, dir : Applying(rules, dir)' = Applying(rules, dir)
    BY DEF Applying, Instructions!Applying
  <2> QED BY <1>1, <1>4, <1>8, <1>9, <2>1, <2>2, <2>3 DEF RuleCalls
<1>11. Asked' = Asked /\ worker[c].dir \in Asked
  <2>1. ASSUME NEW d \in Calls PROVE worker'[d].dir = worker[d].dir /\ (worker'[d].step # "idle" <=> worker[d].step # "idle")
    BY <1>1, <1>2, <1>4
  <2> QED BY <1>1, <2>1 DEF Asked
<1>12. RuleShown' /\ RuleRefused'
  <2>1. PICK dirs \in SUBSET Dirs : RulesShown(dirs)
    BY <1>1 DEF RuleInv, RuleShown
  <2>2. \A d \in Calls : d # c => worker'[d] = worker[d]
    BY <1>2, <1>4
  <2>3. RulesShown(dirs)'
    BY <1>1, <1>4, <1>8, <1>11, <2>1, <2>2 DEF RulesShown
  <2> QED BY <1>1, <1>11, <2>3 DEF RuleShown, RuleInv, RuleRefused
<1>13. Instructions!ActUnderRules'
  BY <1>1 DEF RuleInv, Instructions!ActUnderRules
<1> QED BY <1>5, <1>6, <1>7, <1>10, <1>12, <1>13 DEF RuleInv

\* What a decision does.
LEMMA CallDecides ==
    ASSUME RuleInv, NEW c \in Calls, Instructions!Decide(c)
    PROVE  /\ worker[c].step = "save" /\ round.stage = "batch"
           /\ cache'.dirs = cache.dirs \cup worker[c].dirs /\ cache'.delivered = cache.delivered
           /\ DOMAIN cache' = {"held", "dirs", "loaded", "delivered"}
           /\ worker'[c].step = "decided" /\ worker'[c].dir = worker[c].dir /\ worker'[c].dirs = {}
           /\ worker'[c].cancelled = FALSE
           /\ worker'[c] = [f \in WorkerFields |-> worker'[c][f]]
           /\ DOMAIN worker' = Workers /\ \A v \in Workers : v # c => worker'[v] = worker[v]
           /\ dispatched' = IF worker[c].read # worker[c].old THEN dispatched
                            ELSE dispatched \cup {[call |-> c, dir |-> worker[c].dir, there |-> worker[c].there]}
           /\ ledger' \in [quiet : BOOLEAN, known : SUBSET Dirs, named : SUBSET Dirs, refused : BOOLEAN]
           /\ ledger'.known = ledger.known /\ ledger'.quiet = ledger.quiet
           /\ ledger'.refused => ledger.refused \/ worker[c].read # worker[c].old
           /\ UNCHANGED <<files, edits, rulesCtx, round>>
<1> DEFINE w == worker[c]
           changed == w.read # w.old
           e == [Instructions!Idle EXCEPT !.step = "decided", !.dir = w.dir]
<1>1. /\ w.step = "save" /\ round.stage \notin {"over", "finished"}
      /\ cache' = [cache EXCEPT !.held = TRUE, !.dirs = @ \cup w.dirs]
      /\ worker' = [worker EXCEPT ![c] = e]
      /\ dispatched' = IF changed THEN dispatched
                       ELSE dispatched \cup {[call |-> c, dir |-> w.dir, there |-> w.there]}
      /\ ledger' = [ledger EXCEPT !.refused = @ \/ changed]
      /\ UNCHANGED <<files, edits, rulesCtx, round>>
  BY DEF Instructions!Decide, Instructions!MayDecide, Instructions!Save, Instructions!Cancelled
<1>2. c \in Workers /\ DOMAIN worker = Workers
  BY DEF Workers, Instructions!Workers, RuleInv, RuleTypes
<1>3. round.stage = "batch"
  BY <1>1 DEF RuleInv, RuleTypes, RuleRound
<1>4. /\ e = [f \in WorkerFields |-> e[f]] /\ e.step = "decided" /\ e.dir = w.dir /\ e.dirs = {}
      /\ e.cancelled = FALSE
  BY DEF Instructions!Idle, WorkerFields
<1> HIDE DEF e
<1>5. worker'[c] = e /\ DOMAIN worker' = Workers /\ \A v \in Workers : v # c => worker'[v] = worker[v]
  BY <1>1, <1>2
<1>6. changed \in BOOLEAN
  OBVIOUS
<1>7. ledger \in [quiet : BOOLEAN, known : SUBSET Dirs, named : SUBSET Dirs, refused : BOOLEAN]
  BY DEF RuleInv, RuleTypes
<1> HIDE DEF changed
<1>8. /\ ledger' \in [quiet : BOOLEAN, known : SUBSET Dirs, named : SUBSET Dirs, refused : BOOLEAN]
      /\ ledger'.known = ledger.known /\ ledger'.quiet = ledger.quiet
  BY <1>1, <1>6, <1>7
<1>9. ledger'.refused => ledger.refused \/ changed
  BY <1>1, <1>6, <1>7
<1>10. cache'.dirs = cache.dirs \cup w.dirs /\ cache'.delivered = cache.delivered
       /\ DOMAIN cache' = {"held", "dirs", "loaded", "delivered"}
  BY <1>1 DEF RuleInv, RuleTypes
<1> QED BY <1>1, <1>3, <1>4, <1>5, <1>8, <1>9, <1>10 DEF changed

\* A call is let through or refused.
LEMMA RulesDecideStep == ASSUME RuleInv, NEW c \in Calls, Instructions!Decide(c) PROVE RuleInv'
<1>1. /\ worker[c].step = "save" /\ round.stage = "batch"
      /\ cache'.dirs = cache.dirs \cup worker[c].dirs /\ cache'.delivered = cache.delivered
      /\ DOMAIN cache' = {"held", "dirs", "loaded", "delivered"}
      /\ worker'[c].step = "decided" /\ worker'[c].dir = worker[c].dir /\ worker'[c].dirs = {}
      /\ worker'[c].cancelled = FALSE
      /\ worker'[c] = [f \in WorkerFields |-> worker'[c][f]]
      /\ DOMAIN worker' = Workers /\ \A v \in Workers : v # c => worker'[v] = worker[v]
      /\ dispatched' = IF worker[c].read # worker[c].old THEN dispatched
                       ELSE dispatched \cup {[call |-> c, dir |-> worker[c].dir, there |-> worker[c].there]}
      /\ ledger' \in [quiet : BOOLEAN, known : SUBSET Dirs, named : SUBSET Dirs, refused : BOOLEAN]
      /\ ledger'.known = ledger.known /\ ledger'.quiet = ledger.quiet
      /\ ledger'.refused => ledger.refused \/ worker[c].read # worker[c].old
      /\ UNCHANGED <<files, edits, rulesCtx, round>>
  BY CallDecides
<1>2. "source" \in Workers /\ Workers = Calls \cup {"source"} /\ "source" \notin Calls /\ c \in Workers
  BY DirsAssumption DEF Workers, Instructions!Workers
<1>3. /\ worker[c].old = rulesCtx /\ worker[c].dir \in worker[c].dirs /\ worker[c].dirs \subseteq Dirs
      /\ worker[c].there = Applying(worker[c].read, worker[c].dir)
      /\ ledger.quiet => worker[c].read = Load(worker[c].dirs)
  BY <1>1, <1>2 DEF RuleInv, RuleTypes, RuleCalls
<1>4. RuleTypes'
  <2>1. \A v \in Workers : /\ worker[v] = [f \in WorkerFields |-> worker[v][f]]
                           /\ worker[v].step \in {"idle", "asked", "load", "save", "decided"}
                           /\ worker[v].dir \in Dirs /\ worker[v].dirs \subseteq Dirs
                           /\ worker[v].cancelled \in BOOLEAN
    BY DEF RuleInv, RuleTypes
  <2>2. ASSUME NEW v \in Workers
        PROVE  /\ worker'[v] = [f \in WorkerFields |-> worker'[v][f]]
               /\ worker'[v].step \in {"idle", "asked", "load", "save", "decided"}
               /\ worker'[v].dir \in Dirs /\ worker'[v].dirs \subseteq Dirs
               /\ worker'[v].cancelled \in BOOLEAN
    <3>1. CASE v = c
      BY <1>1, <1>2, <2>1, <3>1
    <3>2. CASE v # c
      <4>1. worker'[v] = worker[v]
        BY <1>1, <3>2
      <4> QED BY <2>1, <4>1, Zenon
    <3> QED BY <3>1, <3>2
  <2> QED BY <1>1, <1>3, <2>2 DEF RuleInv, RuleTypes
<1>5. RuleRound'
  BY <1>1, <1>2 DEF RuleInv, RuleRound
<1>6. RuleSource'
  BY <1>1 DEF RuleSource
<1>7. \A dirs : Load(dirs)' = Load(dirs)
  BY <1>1 DEF Load, Instructions!Load, Instructions!Scopes
<1>8. RuleCalls'
  <2>1. RuleCalls
    BY DEF RuleInv
  <2>2. ASSUME NEW d \in Calls, d # c PROVE worker'[d] = worker[d]
    BY <1>1, <1>2, <2>2
  <2>3. \A rules, dir : Applying(rules, dir)' = Applying(rules, dir)
    BY DEF Applying, Instructions!Applying
  <2> HIDE DEF RuleInv
  <2> QED BY <1>1, <1>3, <1>7, <2>1, <2>2, <2>3 DEF RuleCalls
<1>9. Asked' = Asked
  <2>1. ASSUME NEW d \in Calls PROVE worker'[d].dir = worker[d].dir /\ (worker'[d].step # "idle" <=> worker[d].step # "idle")
    BY <1>1, <1>2
  <2> QED BY <2>1 DEF Asked
<1>10. PICK dirs \in SUBSET Dirs : RulesShown(dirs)
  BY <1>1 DEF RuleInv, RuleShown
<1>11. dirs \subseteq worker[c].dirs /\ worker[c].dirs \subseteq dirs \cup Asked
  BY <1>1, <1>10 DEF RulesShown
<1>12. RuleShown'
  <2>1. \A d \in Calls : d # c => worker'[d] = worker[d]
    BY <1>1, <1>2
  <2>2. RulesShown(dirs)'
    BY <1>1, <1>7, <1>9, <1>10, <1>11, <2>1 DEF RulesShown
  <2> QED BY <2>2 DEF RuleShown
<1>13. RuleRefused'
  <2> SUFFICES ASSUME ledger'.refused, ledger.quiet, Asked \subseteq ledger.known PROVE FALSE
    BY <1>1, <1>9 DEF RuleRefused
  <2>1. ~ledger.refused
    BY <1>1 DEF RuleInv, RuleRefused
  <2>2. worker[c].dirs = dirs
    BY <1>10, <1>11 DEF RulesShown
  <2>3. rulesCtx = Load(dirs) /\ worker[c].read = Load(dirs)
    BY <1>3, <1>10, <2>2 DEF RulesShown
  <2> QED BY <1>1, <1>3, <2>1, <2>3
<1>14. Instructions!ActUnderRules'
  <2>1. \A d \in dispatched : d.there = Instructions!Applying(rulesCtx, d.dir)
    BY DEF RuleInv, Instructions!ActUnderRules
  <2>2. ASSUME NEW d \in dispatched', d \notin dispatched PROVE d.there = Instructions!Applying(rulesCtx, d.dir)
    <3>1. worker[c].read = rulesCtx /\ d = [call |-> c, dir |-> worker[c].dir, there |-> worker[c].there]
      BY <1>1, <1>3, <2>2
    <3> QED BY <1>3, <3>1 DEF Applying
  <2>3. \A rules, dir : Instructions!Applying(rules, dir)' = Instructions!Applying(rules, dir)
    BY DEF Instructions!Applying
  <2> QED BY <1>1, <2>1, <2>2, <2>3 DEF Instructions!ActUnderRules
<1> QED BY <1>4, <1>5, <1>6, <1>8, <1>12, <1>13, <1>14 DEF RuleInv

\* Every call is settled.
LEMMA NextRoundStep == ASSUME RuleInv, Instructions!NextRound PROVE RuleInv'
<1> DEFINE decided == {worker[c].dir : c \in {d \in Calls : worker[d].step = "decided"}}
<1>1. /\ round.stage = "batch"
      /\ round' = (IF round.n < MaxRounds THEN [n |-> round.n + 1, stage |-> "source"] ELSE [round EXCEPT !.stage = "over"])
      /\ ledger' = [ledger EXCEPT !.known = @ \cup decided, !.refused = FALSE]
      /\ worker' = [w \in Workers |-> IF w \in Calls THEN Instructions!Idle ELSE worker[w]]
      /\ dispatched' = {} /\ UNCHANGED <<files, edits, cache, rulesCtx>>
  BY DEF Instructions!NextRound, Workers
<1>2. "source" \in Workers /\ Workers = Calls \cup {"source"} /\ "source" \notin Calls
  BY DirsAssumption DEF Workers, Instructions!Workers
<1>3. decided \subseteq cache.dirs /\ decided \subseteq Dirs
  BY <1>1 DEF RuleInv, RuleTypes, RuleCalls
<1>4. ledger.known \subseteq cache.dirs
  BY <1>1 DEF RuleInv, RuleShown, RulesShown
<1> HIDE DEF decided
<1>5. /\ ledger' \in [quiet : BOOLEAN, known : SUBSET Dirs, named : SUBSET Dirs, refused : BOOLEAN]
      /\ ledger'.known \subseteq cache.dirs /\ ledger'.refused = FALSE
  BY <1>1, <1>3, <1>4 DEF RuleInv, RuleTypes
<1>6. /\ round' \in [n : Nat, stage : {"source", "think", "batch", "over", "finished"}]
      /\ round'.stage \in {"source", "over"}
  BY <1>1 DEF RuleInv, RuleTypes
<1>7. /\ Instructions!Idle = [f \in WorkerFields |-> Instructions!Idle[f]] /\ Instructions!Idle.step = "idle"
      /\ Instructions!Idle.dir = <<>> /\ Instructions!Idle.dirs = {} /\ Instructions!Idle.cancelled = FALSE
  BY DEF Instructions!Idle, WorkerFields
<1>8. /\ DOMAIN worker' = Workers /\ \A c \in Calls : worker'[c] = Instructions!Idle
      /\ worker'["source"] = worker["source"]
  BY <1>1, <1>2
<1>9. worker["source"].step = "idle" /\ worker["source"].cancelled = FALSE
  BY <1>1, <1>2 DEF RuleInv, RuleTypes, RuleRound
<1>10. RuleTypes'
  <2>1. \A w \in Workers : worker'[w] = Instructions!Idle \/ worker'[w] = worker[w]
    BY <1>2, <1>8
  <2>2. ASSUME NEW w \in Workers
        PROVE  /\ worker'[w] = [f \in WorkerFields |-> worker'[w][f]]
               /\ worker'[w].step \in {"idle", "asked", "load", "save", "decided"}
               /\ worker'[w].dir \in Dirs /\ worker'[w].dirs \subseteq Dirs
               /\ worker'[w].cancelled \in BOOLEAN
    <3>1. CASE worker'[w] = Instructions!Idle
      BY <1>7, <3>1, DirsAssumption
    <3>2. CASE worker'[w] = worker[w]
      <4>1. /\ worker[w] = [f \in WorkerFields |-> worker[w][f]]
            /\ worker[w].step \in {"idle", "asked", "load", "save", "decided"}
            /\ worker[w].dir \in Dirs /\ worker[w].dirs \subseteq Dirs
            /\ worker[w].cancelled \in BOOLEAN
        BY DEF RuleInv, RuleTypes
      <4> QED BY <3>2, <4>1, Zenon
    <3> QED BY <2>1, <3>1, <3>2
  <2> QED BY <1>1, <1>5, <1>6, <1>8, <2>2 DEF RuleInv, RuleTypes
<1>11. RuleRound'
  BY <1>1, <1>2, <1>5, <1>6, <1>7, <1>8, <1>9 DEF RuleRound
<1>12. RuleSource' /\ RuleCalls' /\ RuleShown' /\ RuleRefused'
  BY <1>6, <1>8, <1>9 DEF RuleSource, RuleCalls, RuleShown, RuleRefused
<1>13. Instructions!ActUnderRules'
  BY <1>1 DEF Instructions!ActUnderRules
<1> QED BY <1>10, <1>11, <1>12, <1>13 DEF RuleInv

\* A step of the rules cache keeps its invariant.
LEMMA RuleStep == ASSUME RuleInv, Instructions!Next PROVE RuleInv'
<1>1. CASE Instructions!Source \/ Instructions!Deliver \/ Instructions!NextRound
  BY <1>1, SourceStep, DeliverStep, NextRoundStep
<1>2. CASE Instructions!Over \/ Instructions!FinishRun \/ \E w \in Workers : Instructions!Quit(w) \/ Instructions!GiveUp(w)
  BY <1>2, RulesOverStep
<1>3. CASE \E d \in Dirs : Instructions!EditRules(d)
  BY <1>3, EditRulesStep
<1>4. CASE \E w \in Workers : Instructions!Read(w)
  BY <1>4, ReadRulesStep
<1>5. CASE \E c \in Calls : Instructions!Check(c) \/ Instructions!Decide(c)
  BY <1>5, CheckStep, RulesDecideStep
<1>6. CASE \E asked \in (SUBSET Calls) \ {{}} : \E dirOf \in [asked -> Dirs] : Instructions!Ask(dirOf)
  BY <1>6, AskStep
<1> QED BY <1>1, <1>2, <1>3, <1>4, <1>5, <1>6 DEF Instructions!Next, Workers

\* The rules cache's invariant holds in every behaviour.
LEMMA RuleInvariant == AllSpec => []RuleInv
<1>1. AllInit => RuleInv
  BY RuleInit DEF AllInit
<1>2. RuleInv /\ [AllNext]_allVars => RuleInv'
  <2> SUFFICES ASSUME RuleInv, [AllNext]_allVars PROVE RuleInv'
    OBVIOUS
  <2>1. Instructions!Next \/ UNCHANGED <<files, edits, cache, rulesCtx, round, worker, dispatched, ledger>>
    BY DEF AllNext, allVars, ruleVars
  <2>2. CASE UNCHANGED <<files, edits, cache, rulesCtx, round, worker, dispatched, ledger>>
    <3>1. RuleTypes' /\ RuleRound' /\ RuleSource' /\ RuleRefused'
      BY <2>2 DEF RuleInv, RuleTypes, RuleRound, RuleSource, RuleRefused, Asked, Load, Instructions!Load, Instructions!Scopes
    <3>2. RuleCalls'
      BY <2>2 DEF RuleInv, RuleCalls, Applying, Instructions!Applying, Load, Instructions!Load, Instructions!Scopes
    <3>3. RuleShown'
      <4>1. \A dirs : Load(dirs)' = Load(dirs)
        BY <2>2 DEF Load, Instructions!Load, Instructions!Scopes
      <4>2. Asked' = Asked
        BY <2>2 DEF Asked
      <4>3. \A dirs : RulesShown(dirs) => RulesShown(dirs)'
        BY <2>2, <4>1, <4>2 DEF RulesShown
      <4> QED BY <2>2, <4>3 DEF RuleInv, RuleShown
    <3>4. Instructions!ActUnderRules'
      BY <2>2 DEF RuleInv, Instructions!ActUnderRules, Instructions!Applying
    <3> QED BY <3>1, <3>2, <3>3, <3>4 DEF RuleInv
  <2> QED BY <2>1, <2>2, RuleStep
<1> QED BY <1>1, <1>2, PTL DEF AllSpec

\* Calls are dispatched under the rules the model saw, refused only for news, and a finished run
\* leaves nothing cached (check, sources, finish_run), whoever edits the rule files meanwhile.
THEOREM RulesAppliedHolds == AllSpec => []RulesApplied
<1>1. RuleInv => RulesApplied
  <2> SUFFICES ASSUME RuleInv PROVE RulesApplied
    OBVIOUS
  <2>1. Instructions!RefusedOnce
    BY DEF RuleInv, RuleRefused, Asked, Instructions!RefusedOnce
  <2>2. Instructions!CacheReleased
    BY DEF RuleInv, RuleRound, Instructions!CacheReleased
  <2> QED BY <2>1, <2>2 DEF RuleInv, RulesApplied, Instructions!RulesApplied
<1> QED BY <1>1, RuleInvariant, PTL

-----------------------------------------------------------------------------
(* Paging through a file                                                   *)

\* A set of naturals that is not empty and has a bound has a greatest element.
LEMMA GreatestElement ==
  ASSUME NEW b \in Nat, NEW S, S \subseteq 0..b, S # {}
  PROVE  \E x \in S : \A y \in S : x >= y
<1> DEFINE M == {b - x : x \in S}
<1>1. M \subseteq Nat /\ M # {}
  <2>1. \A x \in S : b - x \in Nat
    OBVIOUS
  <2> QED BY <2>1
<1>2. PICK m \in M : \A y \in M : m <= y
  BY <1>1, LeastElement
<1>3. PICK x \in S : m = b - x
  OBVIOUS
<1>4. \A y \in S : m <= b - y
  BY <1>2
<1>5. \A y \in S : x >= y
  BY <1>3, <1>4
<1> QED BY <1>5

\* What holds of 0, and of n + 1 when it holds of n, holds of every natural number.
LEMMA NatSet ==
  ASSUME NEW S, 0 \in S, \A n \in Nat : n \in S => n + 1 \in S
  PROVE  Nat \subseteq S
<1> DEFINE M == Nat \ S
<1> SUFFICES ASSUME M # {} PROVE FALSE
  OBVIOUS
<1>1. PICK m \in M : \A y \in M : m <= y
  BY LeastElement
<1>2. m # 0 /\ m \in Nat
  OBVIOUS
<1>3. m - 1 \in Nat /\ (m - 1) + 1 = m /\ ~(m <= m - 1)
  BY <1>2
<1>4. m - 1 \notin M
  BY <1>1, <1>3
<1>5. m - 1 \in S
  BY <1>3, <1>4
<1> QED BY <1>3, <1>5

\* A function that adds up c numbers from the one after s.
Adds(ns, s, c, f) ==
    /\ f \in [0..c -> Nat] /\ f[0] = 0
    /\ \A n \in 1..c : f[n] = f[n - 1] + ns[s + n - 1]

\* There is one for every part of a sequence of naturals.
LEMMA AddsExist ==
  ASSUME NEW ns, NEW s \in Nat, NEW c \in Nat, \A n \in 1..c : ns[s + n - 1] \in Nat
  PROVE  \E f : Adds(ns, s, c, f)
<1> DEFINE S == {n \in Nat : n <= c => \E f : Adds(ns, s, n, f)}
<1>1. 0 \in S
  <2> DEFINE f == [n \in 0..0 |-> 0]
  <2>1. Adds(ns, s, 0, f)
    BY DEF Adds
  <2> QED BY <2>1
<1>2. ASSUME NEW n \in Nat, n \in S PROVE n + 1 \in S
  <2> SUFFICES ASSUME n + 1 <= c PROVE \E f : Adds(ns, s, n + 1, f)
    OBVIOUS
  <2>1. n <= c /\ n + 1 \in 1..c
    OBVIOUS
  <2>2. PICK f : Adds(ns, s, n, f)
    BY <1>2, <2>1
  <2> DEFINE next == f[n] + ns[s + (n + 1) - 1]
             g == [m \in 0..(n + 1) |-> IF m = n + 1 THEN next ELSE f[m]]
  <2>3. f \in [0..n -> Nat] /\ f[0] = 0 /\ \A m \in 1..n : f[m] = f[m - 1] + ns[s + m - 1]
    BY <2>2 DEF Adds
  <2>4. next \in Nat
    <3>1. n \in 0..n /\ f[n] \in Nat
      BY <2>3
    <3>2. ns[s + (n + 1) - 1] \in Nat
      BY <2>1
    <3> QED BY <3>1, <3>2
  <2> HIDE DEF next
  <2>5. g \in [0..(n + 1) -> Nat]
    BY <2>3, <2>4
  <2>6. g[0] = 0
    BY <2>3
  <2>7. ASSUME NEW m \in 1..(n + 1) PROVE g[m] = g[m - 1] + ns[s + m - 1]
    <3>1. CASE m = n + 1
      <4>1. m - 1 = n /\ g[m - 1] = f[n]
        BY <3>1
      <4> QED BY <3>1, <4>1 DEF next
    <3>2. CASE m # n + 1
      <4>1. m \in 1..n /\ m - 1 \in 0..n /\ m - 1 # n + 1
        BY <3>2
      <4>2. g[m] = f[m] /\ g[m - 1] = f[m - 1]
        BY <4>1
      <4> QED BY <2>3, <4>1, <4>2
    <3> QED BY <3>1, <3>2
  <2> HIDE DEF g
  <2>8. Adds(ns, s, n + 1, g)
    BY <2>5, <2>6, <2>7 DEF Adds
  <2> QED BY <2>8
<1> HIDE DEF S
<1>3. c \in S
  BY <1>1, <1>2, NatSet
<1> QED BY <1>3 DEF S

\* The width of a part of the file that lies in it is the last of what such a function holds.
LEMMA WidthIs ==
  ASSUME NEW s \in Nat, NEW c \in Nat, \A n \in 1..c : book.widths[s + n - 1] \in Nat
  PROVE  TextTools!Width(s, c) \in Nat /\ TextTools!Width(s, 0) = 0
<1> DEFINE F(g, k) == [n \in 0..k |-> IF n = 0 THEN 0 ELSE g[n - 1] + book.widths[s + n - 1]]
           Sum(k) == CHOOSE g : g = F(g, k)
<1>1. \A k : TextTools!Width(s, k) = Sum(k)[k]
  BY DEF TextTools!Width
<1>2. ASSUME NEW k \in Nat, NEW f, Adds(book.widths, s, k, f) PROVE Sum(k)[k] = f[k]
  <2>1. f = F(f, k)
    <3>1. f \in [0..k -> Nat] /\ f[0] = 0 /\ \A n \in 1..k : f[n] = f[n - 1] + book.widths[s + n - 1]
      BY <1>2 DEF Adds
    <3>2. \A n \in 0..k : n # 0 => n \in 1..k
      OBVIOUS
    <3>3. \A n \in 0..k : f[n] = IF n = 0 THEN 0 ELSE f[n - 1] + book.widths[s + n - 1]
      BY <3>1, <3>2
    <3>4. f = [n \in 0..k |-> f[n]]
      BY <3>1
    <3> QED BY <3>3, <3>4
  <2>2. Sum(k) = F(Sum(k), k)
    BY <2>1
  <2> HIDE DEF Sum
  <2> DEFINE S == {n \in Nat : n <= k => Sum(k)[n] = f[n]}
  <2>3. 0 \in S
    BY <1>2, <2>2 DEF Adds
  <2>4. ASSUME NEW n \in Nat, n \in S PROVE n + 1 \in S
    <3> SUFFICES ASSUME n + 1 <= k PROVE Sum(k)[n + 1] = f[n + 1]
      OBVIOUS
    <3>1. n + 1 \in 1..k /\ (n + 1) - 1 = n /\ n + 1 \in 0..k /\ n + 1 # 0 /\ n <= k
      OBVIOUS
    <3>2. Sum(k)[n] = f[n]
      BY <2>4, <3>1
    <3>3. f[n + 1] = f[(n + 1) - 1] + book.widths[s + (n + 1) - 1]
      BY <1>2, <3>1 DEF Adds
    <3>4. Sum(k)[n + 1] = Sum(k)[(n + 1) - 1] + book.widths[s + (n + 1) - 1]
      BY <2>2, <3>1
    <3> QED BY <3>1, <3>2, <3>3, <3>4
  <2> HIDE DEF S
  <2>5. k \in S
    BY <2>3, <2>4, NatSet
  <2> QED BY <2>5 DEF S
<1> HIDE DEF Sum
<1>3. PICK f : Adds(book.widths, s, c, f)
  BY AddsExist
<1>4. \E g : Adds(book.widths, s, 0, g)
  BY AddsExist
<1>5. PICK g : Adds(book.widths, s, 0, g)
  BY <1>4
<1>6. Sum(c)[c] = f[c] /\ Sum(0)[0] = g[0]
  BY <1>2, <1>3, <1>5
<1>7. f[c] \in Nat /\ g[0] = 0
  BY <1>3, <1>5 DEF Adds
<1> QED BY <1>1, <1>6, <1>7

\* What a reader has seen and where it goes on.
ReadTypes ==
    /\ book \in PagedFiles /\ lineLimit \in PageLimits
    /\ shown \in Seq([from : Nat, lines : Nat]) /\ pageState \in {"reading", "refused", "end"}
Following ==
    /\ offset = IF shown = <<>> THEN 1 ELSE shown[Len(shown)].from + shown[Len(shown)].lines
    /\ offset \in Nat \ {0} /\ offset <= TextTools!TotalLines + 1
    /\ pageState = "reading" => offset <= TextTools!TotalLines
    /\ pageState = "end" => shown # <<>> /\ offset = TextTools!TotalLines + 1
ReadInv == ReadTypes /\ Following /\ TextTools!PagesCover

\* The file, and its lines.
LEMMA BookIs ==
  ASSUME book \in PagedFiles
  PROVE  /\ book.widths \in Seq(Nat \ {0}) /\ Len(book.widths) \in Nat
         /\ TextTools!TotalLines \in Nat \ {0} /\ Len(book.widths) <= TextTools!TotalLines
         /\ TextTools!TotalLines <= Len(book.widths) + 1
<1>1. book.widths \in Seq(Nat \ {0})
  BY PagesAssumption
<1>2. Len(book.widths) \in Nat /\ (book.widths = <<>> <=> Len(book.widths) = 0)
  BY <1>1
<1> DEFINE L == Len(book.widths)
<1>3. TextTools!TotalLines = IF book.widths = <<>> THEN 1 ELSE L + (IF book.ended THEN 1 ELSE 0)
  BY DEF TextTools!TotalLines
<1>4. L \in Nat /\ (book.widths = <<>> <=> L = 0)
  BY <1>2
<1> HIDE DEF L
<1>5. TextTools!TotalLines \in {L, L + 1} /\ (L = 0 => TextTools!TotalLines = 1)
  BY <1>3, <1>4
<1>6. TextTools!TotalLines \in Nat \ {0} /\ L <= TextTools!TotalLines /\ TextTools!TotalLines <= L + 1
  BY <1>4, <1>5
<1> QED BY <1>1, <1>4, <1>6 DEF L

\* The lines of a page that fit the budget are lines of the file, and as many as are wanted at most.
LEMMA FittingIs ==
  ASSUME ReadTypes, NEW s \in Nat \ {0}, s <= TextTools!TotalLines
  PROVE  /\ TextTools!Fitting(s) \in Nat
         /\ s + TextTools!Fitting(s) <= Len(book.widths) + 1
<1> DEFINE L == Len(book.widths)
           wanted == TextTools!Least(lineLimit, L - s + 1)
           Fits(k) == /\ k <= IF wanted < 0 THEN 0 ELSE wanted
                      /\ TextTools!Width(s, k) <= ReadBytes
                      /\ k >= wanted \/ TextTools!Width(s, k + 1) > ReadBytes
<1>1. book.widths \in Seq(Nat \ {0}) /\ L \in Nat /\ s <= L + 1 /\ lineLimit \in Nat \ {0}
  BY BookIs, PagesAssumption DEF ReadTypes
<1>2. wanted \in Nat /\ wanted <= L - s + 1
  BY <1>1 DEF TextTools!Least
<1>3. ASSUME NEW k \in Nat, k <= L - s + 1 PROVE TextTools!Width(s, k) \in Nat /\ TextTools!Width(s, 0) = 0
  <2>1. \A n \in 1..k : book.widths[s + n - 1] \in Nat
    <3> TAKE n \in 1..k
    <3>1. s + n - 1 \in 1..L
      BY <1>1, <1>3
    <3> QED BY <1>1, <3>1
  <2> QED BY <2>1, WidthIs
<1> HIDE DEF wanted, L
<1> DEFINE Stops == {k \in Nat : k >= wanted \/ TextTools!Width(s, k + 1) > ReadBytes}
<1>4. PICK k \in Stops : \A j \in Stops : k <= j
  <2>1. wanted \in Stops
    BY <1>2
  <2> HIDE DEF Stops
  <2>2. Stops \subseteq Nat
    BY DEF Stops
  <2> QED BY <2>1, <2>2, LeastElement
<1>5. k \in Nat /\ k <= wanted
  BY <1>2, <1>4
<1>6. TextTools!Width(s, k) <= ReadBytes
  <2>1. CASE k = 0
    <3>1. TextTools!Width(s, 0) = 0
      BY <1>1, <1>3
    <3> QED BY <2>1, <3>1, PagesAssumption
  <2>2. CASE k # 0
    <3>1. k - 1 \in Nat /\ (k - 1) + 1 = k /\ ~(k <= k - 1)
      BY <1>5, <2>2
    <3>2. k - 1 \notin Stops
      BY <1>4, <3>1
    <3>3. ~(TextTools!Width(s, k) > ReadBytes)
      BY <3>1, <3>2
    <3>4. k <= L - s + 1
      BY <1>1, <1>2, <1>5
    <3>5. TextTools!Width(s, k) \in Nat
      BY <1>3, <1>5, <3>4
    <3> QED BY <3>3, <3>5, PagesAssumption
  <2> QED BY <2>1, <2>2
<1>7. Fits(k) /\ k \in 0..L
  <2>1. k <= L
    BY <1>1, <1>2, <1>5
  <2> QED BY <1>2, <1>4, <1>5, <1>6, <2>1
<1>8. TextTools!Fitting(s) = CHOOSE n \in 0..L : Fits(n)
  BY DEF TextTools!Fitting, wanted, L
<1>9. TextTools!Fitting(s) \in 0..L /\ Fits(TextTools!Fitting(s))
  <2> HIDE DEF Fits
  <2> QED BY <1>7, <1>8
<1>10. TextTools!Fitting(s) <= wanted
  BY <1>2, <1>9
<1>11. TextTools!Fitting(s) \in Nat
  BY <1>1, <1>9
<1> QED BY <1>1, <1>2, <1>10, <1>11 DEF L

\* The lines of a page are lines of the file, the empty one after a final newline included.
LEMMA SelectedIs ==
  ASSUME ReadTypes, NEW s \in Nat \ {0}, s <= TextTools!TotalLines
  PROVE  TextTools!Selected(s) \in Nat /\ s + TextTools!Selected(s) <= TextTools!TotalLines + 1
<1> DEFINE k == TextTools!Fitting(s)
           last == k < lineLimit /\ s + k = TextTools!TotalLines /\ ~TextTools!ByteLimited(s)
                   /\ (book.widths = <<>> \/ book.ended)
<1>1. k \in Nat /\ s + k <= Len(book.widths) + 1
  BY FittingIs
<1>2. TextTools!TotalLines \in Nat \ {0} /\ Len(book.widths) <= TextTools!TotalLines /\ Len(book.widths) \in Nat
  BY BookIs DEF ReadTypes
<1>3. TextTools!Selected(s) = k + (IF last THEN 1 ELSE 0)
  BY DEF TextTools!Selected
<1>4. last => s + k = TextTools!TotalLines
  OBVIOUS
<1> HIDE DEF k, last
<1>5. CASE last
  BY <1>1, <1>2, <1>3, <1>4, <1>5
<1>6. CASE ~last
  BY <1>1, <1>2, <1>3, <1>6
<1> QED BY <1>5, <1>6

\* The lines a page shows: none, or as many as fit the budget with the notice.
LEMMA ShownIs ==
  ASSUME ReadTypes, NEW s \in Nat \ {0}, s <= TextTools!TotalLines
  PROVE  /\ TextTools!Shown(s) \in Nat /\ s + TextTools!Shown(s) <= TextTools!TotalLines + 1
         /\ TextTools!Shown(s) # 0 => TextTools!PageBytes(s, TextTools!Shown(s)) <= ReadBytes
<1> DEFINE b == TextTools!Selected(s)
           S == {0} \cup {n \in 1..b : TextTools!PageBytes(s, n) <= ReadBytes}
<1>1. b \in Nat /\ s + b <= TextTools!TotalLines + 1 /\ TextTools!TotalLines \in Nat
  BY SelectedIs, BookIs DEF ReadTypes
<1>2. TextTools!Shown(s) = CHOOSE x \in S : \A y \in S : x >= y
  BY DEF TextTools!Shown, TextTools!Max
<1> HIDE DEF b
<1>3. S \subseteq 0..b /\ S # {}
  BY <1>1
<1>4. PICK x \in S : \A y \in S : x >= y
  <2> HIDE DEF S
  <2> QED BY <1>1, <1>3, GreatestElement
<1>5. TextTools!Shown(s) \in S
  <2> HIDE DEF S
  <2> QED BY <1>2, <1>4
<1>6. TextTools!Shown(s) \in 0..b
  BY <1>3, <1>5
<1>7. TextTools!Shown(s) # 0 => TextTools!PageBytes(s, TextTools!Shown(s)) <= ReadBytes
  BY <1>5
<1> HIDE DEF S
<1> QED BY <1>1, <1>6, <1>7

\* A page is shown, or the reader is refused.
LEMMA ReadPageStep == ASSUME ReadInv, TextTools!ReadPage PROVE ReadInv'
<1> DEFINE n == TextTools!Shown(offset)
           made == [from |-> offset, lines |-> n]
           N == Len(shown)
<1>1. ReadTypes /\ Following /\ TextTools!PagesCover /\ pageState = "reading"
  BY DEF ReadInv, TextTools!ReadPage
<1>2. offset \in Nat \ {0} /\ offset <= TextTools!TotalLines /\ TextTools!TotalLines \in Nat
  BY <1>1, BookIs DEF Following, ReadTypes
<1>3. n \in Nat /\ offset + n <= TextTools!TotalLines + 1 /\ (n # 0 => TextTools!PageBytes(offset, n) <= ReadBytes)
  BY <1>1, <1>2, ShownIs
<1>4. UNCHANGED <<book, lineLimit>> /\ TextTools!TotalLines' = TextTools!TotalLines
  BY DEF TextTools!ReadPage, TextTools!TotalLines
<1>5. \A s, m : TextTools!PageBytes(s, m)' = TextTools!PageBytes(s, m)
  BY <1>4 DEF TextTools!PageBytes, TextTools!Width, TextTools!TotalLines
<1>6. \/ pageState' = "refused" /\ UNCHANGED <<offset, shown>>
      \/ /\ n # 0 /\ shown' = Append(shown, made) /\ offset' = offset + n
         /\ pageState' = IF offset + n - 1 = TextTools!TotalLines THEN "end" ELSE "reading"
  BY DEF TextTools!ReadPage, TextTools!NextOffset
<1>7. CASE pageState' = "refused" /\ UNCHANGED <<offset, shown>>
  <2>1. ReadTypes' /\ Following'
    BY <1>1, <1>2, <1>4, <1>7 DEF ReadTypes, Following
  <2>2. TextTools!PagesCover'
    BY <1>1, <1>4, <1>5, <1>7 DEF TextTools!PagesCover
  <2> QED BY <2>1, <2>2 DEF ReadInv
<1>8. CASE /\ n # 0 /\ shown' = Append(shown, made) /\ offset' = offset + n
           /\ pageState' = IF offset + n - 1 = TextTools!TotalLines THEN "end" ELSE "reading"
  <2>1. shown \in Seq([from : Nat, lines : Nat]) /\ N \in Nat
    BY <1>1 DEF ReadTypes
  <2>2. made \in [from : Nat, lines : Nat] /\ made.from = offset /\ made.lines = n
    BY <1>2, <1>3
  <2> HIDE DEF made
  <2>3. /\ shown' \in Seq([from : Nat, lines : Nat]) /\ Len(shown') = N + 1 /\ shown' # <<>>
        /\ shown'[N + 1] = made /\ \A i \in 1..N : shown'[i] = shown[i]
    BY <1>8, <2>1, <2>2
  <2>4. ReadTypes'
    BY <1>1, <1>4, <1>8, <2>3 DEF ReadTypes
  <2> HIDE DEF n, N
  <2>5. Following'
    <3>1. offset' \in Nat \ {0} /\ offset' <= TextTools!TotalLines + 1
      BY <1>2, <1>3, <1>8
    <3>2. pageState' = "reading" => offset' <= TextTools!TotalLines
      BY <1>2, <1>3, <1>8
    <3>3. pageState' = "end" => offset' = TextTools!TotalLines + 1
      BY <1>2, <1>3, <1>8
    <3>4. offset' = shown'[Len(shown')].from + shown'[Len(shown')].lines
      BY <1>8, <2>2, <2>3
    <3> QED BY <1>4, <2>3, <3>1, <3>2, <3>3, <3>4 DEF Following
  <2>6. TextTools!PagesCover'
    <3>1. \A i \in 1..N : /\ shown[i].lines > 0
                          /\ TextTools!PageBytes(shown[i].from, shown[i].lines) <= ReadBytes
                          /\ shown[i].from = IF i = 1 THEN 1 ELSE shown[i - 1].from + shown[i - 1].lines
      BY <1>1 DEF TextTools!PagesCover, N
    <3>2. ASSUME NEW i \in 1..N
          PROVE  /\ shown'[i].lines > 0
                 /\ TextTools!PageBytes(shown'[i].from, shown'[i].lines) <= ReadBytes
                 /\ shown'[i].from = IF i = 1 THEN 1 ELSE shown'[i - 1].from + shown'[i - 1].lines
      <4>1. shown'[i] = shown[i] /\ (i # 1 => i - 1 \in 1..N)
        BY <2>1, <2>3
      <4>2. i # 1 => shown'[i - 1] = shown[i - 1]
        BY <2>3, <4>1
      <4> QED BY <3>1, <4>1, <4>2
    <3>3. /\ made.lines > 0 /\ TextTools!PageBytes(made.from, made.lines) <= ReadBytes
          /\ made.from = IF N + 1 = 1 THEN 1 ELSE shown'[N].from + shown'[N].lines
      <4>1. made.lines > 0 /\ TextTools!PageBytes(made.from, made.lines) <= ReadBytes
        BY <1>3, <1>8, <2>2
      <4>2. CASE N = 0
        <5>1. shown = <<>>
          BY <2>1, <4>2 DEF N
        <5> QED BY <1>1, <2>2, <4>1, <4>2, <5>1 DEF Following
      <4>3. CASE N # 0
        <5>1. shown # <<>> /\ N \in 1..N
          BY <2>1, <4>3 DEF N
        <5>2. offset = shown[N].from + shown[N].lines
          BY <1>1, <5>1 DEF Following, N
        <5> QED BY <2>1, <2>2, <2>3, <4>1, <4>3, <5>1, <5>2
      <4> QED BY <4>2, <4>3
    <3>4. ASSUME NEW i \in 1..Len(shown')
          PROVE  /\ shown'[i].lines > 0
                 /\ TextTools!PageBytes(shown'[i].from, shown'[i].lines) <= ReadBytes
                 /\ shown'[i].from = IF i = 1 THEN 1 ELSE shown'[i - 1].from + shown'[i - 1].lines
      <4>1. CASE i = N + 1
        <5>1. i - 1 = N
          BY <2>1, <4>1
        <5> QED BY <2>3, <3>3, <4>1, <5>1
      <4>2. CASE i # N + 1
        <5>1. i \in 1..N
          BY <2>1, <2>3, <4>2
        <5> QED BY <3>2, <5>1
      <4> QED BY <4>1, <4>2
    <3>5. pageState' = "end" => shown'[Len(shown')].from + shown'[Len(shown')].lines - 1 = TextTools!TotalLines
      <4>1. pageState' = "end" => offset + n - 1 = TextTools!TotalLines
        BY <1>8
      <4> QED BY <2>2, <2>3, <4>1
    <3> QED BY <1>4, <1>5, <3>4, <3>5 DEF TextTools!PagesCover, TextTools!Last
  <2> QED BY <2>4, <2>5, <2>6 DEF ReadInv
<1> QED BY <1>6, <1>7, <1>8

\* A reader that follows next_offset sees every line once and in order, every page makes progress and
\* none is larger than the budget (read_text_file, render_page).
THEOREM PagesCoverHolds == AllSpec => []PagesCover
<1>1. AllInit => ReadInv
  <2> SUFFICES ASSUME AllInit PROVE ReadInv
    OBVIOUS
  <2>1. book \in PagedFiles /\ lineLimit \in PageLimits /\ offset = 1 /\ shown = <<>> /\ pageState = "reading"
    BY DEF AllInit, TextTools!ReadInit
  <2>2. TextTools!TotalLines \in Nat \ {0}
    BY <2>1, BookIs
  <2>3. ReadTypes /\ Following
    BY <2>1, <2>2 DEF ReadTypes, Following
  <2>4. TextTools!PagesCover
    BY <2>1 DEF TextTools!PagesCover
  <2> QED BY <2>3, <2>4 DEF ReadInv
<1>2. ReadInv /\ [AllNext]_allVars => ReadInv'
  <2> SUFFICES ASSUME ReadInv, [AllNext]_allVars PROVE ReadInv'
    OBVIOUS
  <2>1. TextTools!ReadPage \/ UNCHANGED readVars
    BY DEF AllNext, allVars, readVars, TextTools!ReadNext, TextTools!GrepNext, TextTools!GrepByte, TextTools!GrepEof,
           TextTools!GrepBinary, TextTools!GrepDone, TextTools!Collect, TextTools!readVars
  <2>2. CASE UNCHANGED readVars
    <3>1. UNCHANGED <<book, offset, lineLimit, shown, pageState>>
      BY <2>2 DEF readVars
    <3>2. TextTools!TotalLines' = TextTools!TotalLines /\ \A s, m : TextTools!PageBytes(s, m)' = TextTools!PageBytes(s, m)
      BY <3>1 DEF TextTools!PageBytes, TextTools!Width, TextTools!TotalLines
    <3>3. ReadTypes' /\ Following'
      BY <3>1, <3>2 DEF ReadInv, ReadTypes, Following
    <3>4. TextTools!PagesCover'
      BY <3>1, <3>2 DEF ReadInv, TextTools!PagesCover
    <3> QED BY <3>3, <3>4 DEF ReadInv
  <2> QED BY <2>1, <2>2, ReadPageStep
<1>3. ReadInv => PagesCover
  BY DEF ReadInv, PagesCover
<1> QED BY <1>1, <1>2, <1>3, PTL DEF AllSpec

==============================================================================
