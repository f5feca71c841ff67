------------------------- MODULE ModelGatewayProofs -------------------------
(***************************************************************************)
(* The books of a task are right: proofs about ModelGateway for any tree   *)
(* of branches, any number of callers and any limits.                      *)
(*                                                                         *)
(* The argument.  A gateway's lock is held by the one caller in its        *)
(* section (Sections), and an entry of the audit is open exactly while its *)
(* caller is in that attempt (Attempting); so the granted calls and the    *)
(* entries together are what the quota counted (Counts).  Tokens go to the *)
(* accounts before an entry reports them: what an account holds is what    *)
(* the entries report and what callers between these two steps have        *)
(* recorded (Usages), with failures and missing usage marked at the root   *)
(* before the entry is settled (Marked).  A caller that was let through    *)
(* takes one attempt's usage out of a margin that is there once per caller *)
(* (Overshoot).  Behind an attempt there is another of its request only if *)
(* the first failed without output (Retries), and no more than are counted *)
(* (Tries).                                                                *)
(***************************************************************************)
EXTENDS ModelGateway, FiniteSetTheorems, TLAPS

\* Where a caller has an attempt on record that is not settled, and where it holds its gateway's lock.
OpenPCs == {"stream", "record", "rollup", "mark", "markup", "settle"}
LockPCs == {"reserve", "granted"}
\* Where a caller was let through and is not on the root's account yet, and where it is, on its own
\* account or the root's, with no entry that says so.
CommittedPCs == LockPCs \union {"stream", "record", "rollup"}
OwnPCs == {"rollup", "mark", "markup", "settle"}
RootPCs == {"mark", "markup", "settle"}

\* An entry of an audit, and the request of a caller.
Records == [caller : Callers, n : Nat, settled : BOOLEAN, failed : BOOLEAN, usage : Nat, output : BOOLEAN]
Requests == [n : Nat, size : Nat, retry : 0..MaxRetries, index : Nat, output : BOOLEAN,
             usage : 0..MaxUsage, result : {"none", "reply", "retryable", "fatal", "dropped"}]
\* The entry of the attempt a caller has in progress, and the entries of one of its requests.
Current(c) == audits[TaskOf[c]][req[c].index]
Mine(c, n) == {i \in DOMAIN audits[TaskOf[c]] :
                   audits[TaskOf[c]][i].caller = c /\ audits[TaskOf[c]][i].n = n}

\* For each member x of a set as many pairs as u[x]: sums are cardinalities.
Units(S, u) == UNION {{x} \X (1..u[x]) : x \in S}

-----------------------------------------------------------------------------
(* The inductive invariant                                                 *)

Types ==
    /\ calls \in [Tasks -> Nat] /\ tokens \in [Tasks -> Nat]
    /\ incomplete \in [Tasks -> BOOLEAN] /\ cancelled \in [Tasks -> BOOLEAN]
    /\ late \in BOOLEAN /\ reserved \in [Tasks -> 0..AuditCap]
    /\ audits \in [Tasks -> Seq(Records)]
    /\ locked \in [Tasks -> Callers \union {"none"}]
    /\ pc \in [Callers -> {"idle", "loop", "wait"} \union LockPCs \union OpenPCs]
    /\ req \in [Callers -> Requests]

\* A gateway's lock is held by the one caller that is in its section, and what that caller asked for
\* still fits.
Sections ==
    /\ \A t \in Tasks, c \in Callers : locked[t] = c <=> (TaskOf[c] = t /\ pc[c] \in LockPCs)
    /\ \A c \in Callers : pc[c] \in LockPCs => reserved[TaskOf[c]] + req[c].size <= AuditCap
    /\ \A c \in Callers : pc[c] # "idle" => req[c].size \in Sizes /\ req[c].n \in 1..MaxRequests

\* An entry is open exactly while its caller is in that attempt.
Attempting ==
    /\ \A t \in Tasks : \A i \in DOMAIN audits[t] :
        /\ TaskOf[audits[t][i].caller] = t /\ audits[t][i].n <= req[audits[t][i].caller].n
        /\ ~audits[t][i].settled =>
            /\ audits[t][i].usage = 0 /\ ~audits[t][i].failed
            /\ pc[audits[t][i].caller] \in OpenPCs /\ req[audits[t][i].caller].index = i
    /\ \A c \in Callers : pc[c] \in OpenPCs =>
        /\ req[c].index \in DOMAIN audits[TaskOf[c]]
        /\ ~Current(c).settled /\ Current(c).caller = c /\ Current(c).n = req[c].n
    /\ \A c \in Callers : pc[c] \in {"rollup", "markup"} => TaskOf[c] # Root

\* Behind an attempt there is another only if the first failed without output; and a caller that
\* may still try has as many attempts behind it as it counted.
Retries ==
    /\ \A c \in Callers : pc[c] \in {"loop", "wait"} \union LockPCs =>
        \A i \in Mine(c, req[c].n) : audits[TaskOf[c]][i].failed /\ ~audits[TaskOf[c]][i].output
    /\ \A t \in Tasks : \A i, j \in DOMAIN audits[t] :
        (i < j /\ audits[t][i].caller = audits[t][j].caller /\ audits[t][i].n = audits[t][j].n) =>
            ~audits[t][i].output /\ audits[t][i].failed
Tries ==
    /\ \A c \in Callers, n \in Nat : Cardinality(Mine(c, n)) <= MaxRetries + 1
    /\ \A c \in Callers : pc[c] \in {"loop"} \union LockPCs => Cardinality(Mine(c, req[c].n)) <= req[c].retry
    /\ \A c \in Callers : pc[c] = "wait" =>
        req[c].retry < MaxRetries /\ Cardinality(Mine(c, req[c].n)) <= req[c].retry + 1
    /\ \A c \in Callers : pc[c] \in OpenPCs => Cardinality(Mine(c, req[c].n)) <= req[c].retry + 1

\* Every call the quota granted is on record, or about to be.
Counts ==
    /\ IsFiniteSet(Attempts(Tasks)) /\ calls[Root] <= MaxModelCalls
    /\ calls[Root] = Cardinality(Attempts(Tasks)) + Cardinality(Granted)
    /\ \A t \in Branches : calls[t] = Len(audits[t])

\* Tokens on the account of the root, or of a task, that no entry reports yet.
OnRequest == [c \in Callers |-> req[c].usage]
Recorded(C) == Units(C, OnRequest)
AtRoot == {c \in Callers : pc[c] \in RootPCs}
AtOwn(t) == {c \in Callers : TaskOf[c] = t /\ pc[c] \in OwnPCs}
Usages ==
    /\ IsFiniteSet(Reported(Tasks)) /\ IsFiniteSet(Recorded(AtRoot))
    /\ tokens[Root] = Cardinality(Reported(Tasks)) + Cardinality(Recorded(AtRoot))
    /\ \A t \in Branches :
        /\ IsFiniteSet(Reported({t})) /\ IsFiniteSet(Recorded(AtOwn(t)))
        /\ tokens[t] = Cardinality(Reported({t})) + Cardinality(Recorded(AtOwn(t)))

\* Usage that is missing has been marked at the root before its attempt is settled.
Marked ==
    /\ \A c \in Callers :
        /\ pc[c] \in {"record", "rollup"} /\ req[c].result = "dropped" => req[c].usage = 0
        /\ pc[c] \in {"mark", "markup", "settle"} /\ req[c].usage = 0 => incomplete[Root]
        /\ pc[c] \in {"record", "rollup"} => req[c].result # "none"
        /\ pc[c] = "settle" /\ req[c].result # "reply" => incomplete[Root]
    /\ ~incomplete[Root] => \A t \in Tasks : \A i \in DOMAIN audits[t] : audits[t][i].settled =>
        /\ audits[t][i].usage > 0
        /\ audits[t][i].failed => late \/ \E u \in Tasks : cancelled[u] \/ tokens[u] >= MaxTokens

\* Each caller that was let through and is not on the root's account yet can overshoot once.
Committed == {c \in Callers : pc[c] \in CommittedPCs}
Overshoot == tokens[Root] + Cardinality(Committed) * MaxUsage < MaxTokens + Cardinality(Callers) * MaxUsage

GatewayInv ==
    Types /\ Sections /\ Attempting /\ Retries /\ Tries /\ Counts /\ Usages /\ Marked /\ Overshoot
-----------------------------------------------------------------------------
(* Counting with sets of units.                                            *)

\* One member's units.
LEMMA UnitsOfOne ==
    ASSUME NEW x, NEW n \in Nat
    PROVE  IsFiniteSet({x} \X (1..n)) /\ Cardinality({x} \X (1..n)) = n
<1>1. IsFiniteSet({x}) /\ Cardinality({x}) = 1
  BY FS_Singleton
<1>2. IsFiniteSet(1..n) /\ Cardinality(1..n) = n
  BY FS_Interval
<1>3. Cardinality({x} \X (1..n)) = Cardinality({x}) * Cardinality(1..n) /\ IsFiniteSet({x} \X (1..n))
  BY <1>1, <1>2, FS_Product
<1> QED BY <1>1, <1>2, <1>3

\* A new member adds its units.
LEMMA UnitsAdd ==
    ASSUME NEW S, NEW v, NEW x, x \notin S, v[x] \in Nat, IsFiniteSet(Units(S, v))
    PROVE  /\ IsFiniteSet(Units(S \union {x}, v))
           /\ Cardinality(Units(S \union {x}, v)) = Cardinality(Units(S, v)) + v[x]
<1> DEFINE A == Units(S, v)  B == {x} \X (1..v[x])
<1>1. Units(S \union {x}, v) = A \union B
  BY DEF Units
<1>2. A \intersect B = {}
  BY DEF Units
<1>3. IsFiniteSet(B) /\ Cardinality(B) = v[x]
  BY UnitsOfOne
<1>4. IsFiniteSet(A)
  OBVIOUS
<1> HIDE DEF A, B
<1>5. IsFiniteSet(A \union B) /\ Cardinality(A \union B) = Cardinality(A) + Cardinality(B) - Cardinality(A \intersect B)
  BY <1>3, <1>4, FS_Union
<1>6. Cardinality({}) = 0 /\ Cardinality(A) \in Nat
  BY <1>4, FS_EmptySet, FS_CardinalityType
<1>7. Cardinality(A \intersect B) = 0
  BY <1>2, <1>6, Zenon
<1>8. Cardinality(A \union B) = Cardinality(A) + v[x]
  BY <1>3, <1>5, <1>6, <1>7
<1> QED BY <1>1, <1>5, <1>8 DEF A

\* Without a member there are less by its units.
LEMMA UnitsRemove ==
    ASSUME NEW S, NEW v, NEW x, x \in S, v[x] \in Nat, IsFiniteSet(Units(S, v))
    PROVE  /\ IsFiniteSet(Units(S \ {x}, v))
           /\ Cardinality(Units(S, v)) = Cardinality(Units(S \ {x}, v)) + v[x]
<1>1. Units(S \ {x}, v) \subseteq Units(S, v)
  BY DEF Units
<1>2. IsFiniteSet(Units(S \ {x}, v))
  BY <1>1, FS_Subset
<1>3. (S \ {x}) \union {x} = S /\ x \notin S \ {x}
  OBVIOUS
<1>4. Cardinality(Units((S \ {x}) \union {x}, v)) = Cardinality(Units(S \ {x}, v)) + v[x]
  BY <1>2, <1>3, UnitsAdd
<1> QED BY <1>2, <1>3, <1>4

\* Equal numbers, equal units.
LEMMA UnitsSame ==
    ASSUME NEW S, NEW u, NEW v, \A y \in S : v[y] = u[y]
    PROVE  Units(S, v) = Units(S, u)
  BY DEF Units

\* Products of the bound on concurrency.
LEMMA Bounds ==
    ASSUME NEW k \in Nat, NEW m \in Nat, NEW n \in Nat
    PROVE  (k + 1) * m = k * m + m /\ k * m \in Nat /\ (k <= n => k * m <= n * m)
<1>1. (k + 1) * m = k * m + m /\ k * m \in Nat
  OBVIOUS
<1>2. ASSUME k <= n PROVE k * m <= n * m
  <2> DEFINE d == n - k
  <2>1. d \in Nat /\ n = k + d
    BY <1>2
  <2> HIDE DEF d
  <2>2. n * m = k * m + d * m /\ d * m \in Nat /\ k * m \in Nat
    BY <2>1
  <2> QED BY <2>2
<1> QED BY <1>1, <1>2
-----------------------------------------------------------------------------
(* Steps of one caller, and what they leave as it was.                     *)

Others(c) == \A d \in Callers \ {c} : pc'[d] = pc[d] /\ req'[d] = req[d]

\* The only caller that can appear in a set of callers, or leave it, is the one that moves.
LEMMA CallersIn ==
    ASSUME NEW c \in Callers, Others(c)
    PROVE  /\ Granted' = IF pc'[c] = "granted" THEN Granted \union {c} ELSE Granted \ {c}
           /\ Committed' = IF pc'[c] \in CommittedPCs THEN Committed \union {c} ELSE Committed \ {c}
           /\ AtRoot' = IF pc'[c] \in RootPCs THEN AtRoot \union {c} ELSE AtRoot \ {c}
           /\ \A t : AtOwn(t)' = IF TaskOf[c] = t /\ pc'[c] \in OwnPCs THEN AtOwn(t) \union {c} ELSE AtOwn(t) \ {c}
<1>1. \A d \in Callers \ {c} : pc'[d] = pc[d]
  BY DEF Others
<1>2. Granted' = IF pc'[c] = "granted" THEN Granted \union {c} ELSE Granted \ {c}
  BY <1>1 DEF Granted
<1>3. Committed' = IF pc'[c] \in CommittedPCs THEN Committed \union {c} ELSE Committed \ {c}
  BY <1>1 DEF Committed
<1>4. AtRoot' = IF pc'[c] \in RootPCs THEN AtRoot \union {c} ELSE AtRoot \ {c}
  BY <1>1 DEF AtRoot
<1>5. ASSUME NEW t PROVE AtOwn(t)' = IF TaskOf[c] = t /\ pc'[c] \in OwnPCs THEN AtOwn(t) \union {c} ELSE AtOwn(t) \ {c}
  BY <1>1 DEF AtOwn
<1> QED BY <1>2, <1>3, <1>4, <1>5

\* Sets of callers are finite.
LEMMA CallersFinite ==
    ASSUME NEW C \in SUBSET Callers
    PROVE  IsFiniteSet(C) /\ Cardinality(C) \in Nat /\ Cardinality(C) <= Cardinality(Callers) /\ Cardinality(Callers) \in Nat
  BY TaskAssumption, FS_Subset, FS_CardinalityType

\* The entries of a request are finitely many.
LEMMA MineFinite ==
    ASSUME Types, NEW c \in Callers, NEW n
    PROVE  IsFiniteSet(Mine(c, n)) /\ Cardinality(Mine(c, n)) \in Nat
<1>1. audits[TaskOf[c]] \in Seq(Records)
  BY TaskAssumption DEF Types
<1>2. Len(audits[TaskOf[c]]) \in Nat /\ DOMAIN audits[TaskOf[c]] = 1..Len(audits[TaskOf[c]])
  BY <1>1
<1>3. IsFiniteSet(1..Len(audits[TaskOf[c]]))
  BY <1>2, FS_Interval
<1>4. Mine(c, n) \in SUBSET (1..Len(audits[TaskOf[c]]))
  BY <1>2 DEF Mine
<1> QED BY <1>3, <1>4, FS_Subset, FS_CardinalityType

\* A step within an attempt disturbs neither the records nor the sections.
LEMMA OpenStep ==
    ASSUME GatewayInv, NEW c \in Callers, Others(c), pc[c] \in OpenPCs, pc'[c] \in OpenPCs,
           pc'[c] \in {"rollup", "markup"} => TaskOf[c] # Root,
           req'[c].n = req[c].n, req'[c].size = req[c].size, req'[c].retry = req[c].retry,
           req'[c].index = req[c].index,
           audits' = audits, locked' = locked, reserved' = reserved, calls' = calls
    PROVE  Sections' /\ Attempting' /\ Retries' /\ Tries' /\ Counts'
<1> USE TaskAssumption
<1>0. Types
  BY DEF GatewayInv
<1>1. Sections'
  BY <1>0 DEF GatewayInv, Sections, Others, OpenPCs, LockPCs
<1>2. ASSUME NEW t \in Tasks, NEW i \in DOMAIN audits[t]
      PROVE  audits[t][i].caller \in Callers
  <2>1. audits[t] \in Seq(Records)
    BY <1>0 DEF Types
  <2>2. audits[t][i] \in Records
    BY <2>1
  <2> QED BY <2>2 DEF Records
<1>3. Attempting'
  <2>1. ASSUME NEW t \in Tasks, NEW i \in DOMAIN audits[t]
        PROVE  /\ TaskOf[audits[t][i].caller] = t /\ audits[t][i].n <= req'[audits[t][i].caller].n
               /\ ~audits[t][i].settled =>
                   /\ audits[t][i].usage = 0 /\ ~audits[t][i].failed
                   /\ pc'[audits[t][i].caller] \in OpenPCs /\ req'[audits[t][i].caller].index = i
    BY <1>2 DEF GatewayInv, Attempting, Others
  <2>2. ASSUME NEW d \in Callers, pc'[d] \in OpenPCs
        PROVE  /\ req'[d].index \in DOMAIN audits[TaskOf[d]]
               /\ LET a == audits[TaskOf[d]][req'[d].index] IN ~a.settled /\ a.caller = d /\ a.n = req'[d].n
    BY <2>2 DEF GatewayInv, Attempting, Current, Others
  <2>3. \A d \in Callers : pc'[d] \in {"rollup", "markup"} => TaskOf[d] # Root
    BY DEF GatewayInv, Attempting, Others
  <2> QED BY <2>1, <2>2, <2>3 DEF Attempting, Current
<1>4. \A n : \A d \in Callers : Mine(d, n)' = Mine(d, n)
  BY DEF Mine
<1>5. Retries'
  <2>1. ASSUME NEW d \in Callers, pc'[d] \in {"loop", "wait"} \union LockPCs
        PROVE  d # c /\ pc'[d] = pc[d] /\ req'[d] = req[d]
    BY <2>1 DEF Others, OpenPCs, LockPCs
  <2>2. \A d \in Callers : pc'[d] \in {"loop", "wait"} \union LockPCs =>
          \A i \in Mine(d, req'[d].n) : audits[TaskOf[d]][i].failed /\ ~audits[TaskOf[d]][i].output
    BY <2>1 DEF GatewayInv, Retries
  <2> QED BY <2>2, <1>4 DEF GatewayInv, Retries
<1>6. Tries'
  <2>1. \A d \in Callers : /\ req'[d].n = req[d].n /\ req'[d].retry = req[d].retry
                           /\ pc'[d] = pc[d] \/ d = c
    BY DEF Others
  <2>2. \A d \in Callers : Mine(d, req[d].n)' = Mine(d, req[d].n)
    BY <2>1 DEF Mine
  <2>3. Tries
    BY DEF GatewayInv
  <2>4. \A d \in Callers, n \in Nat : Cardinality(Mine(d, n))' <= MaxRetries + 1
    BY <1>4, <2>3 DEF Tries
  <2>5. pc[c] \in OpenPCs /\ pc'[c] \in OpenPCs /\ pc'[c] \notin {"loop", "wait"} \union LockPCs
    BY DEF OpenPCs, LockPCs
  <2> HIDE DEF OpenPCs, LockPCs
  <2>6. ASSUME NEW d \in Callers
        PROVE  /\ pc'[d] \in {"loop"} \union LockPCs => Cardinality(Mine(d, req[d].n))' <= req'[d].retry
               /\ pc'[d] = "wait" => req'[d].retry < MaxRetries /\ Cardinality(Mine(d, req[d].n))' <= req'[d].retry + 1
               /\ pc'[d] \in OpenPCs => Cardinality(Mine(d, req[d].n))' <= req'[d].retry + 1
    <3>1. /\ req'[d].n = req[d].n /\ req'[d].retry = req[d].retry /\ Mine(d, req[d].n)' = Mine(d, req[d].n)
          /\ pc'[d] = pc[d] \/ d = c
      BY <2>1, <2>2
    <3>2. /\ pc[d] \in {"loop"} \union LockPCs => Cardinality(Mine(d, req[d].n)) <= req[d].retry
          /\ pc[d] = "wait" => req[d].retry < MaxRetries /\ Cardinality(Mine(d, req[d].n)) <= req[d].retry + 1
          /\ pc[d] \in OpenPCs => Cardinality(Mine(d, req[d].n)) <= req[d].retry + 1
      BY <2>3 DEF Tries
    <3> QED BY <3>1, <3>2, <2>5
  <2> QED BY <2>4, <2>6 DEF Tries
<1>7. Counts'
  <2>1. Granted' = Granted
    BY CallersIn DEF Granted, OpenPCs
  <2>2. Attempts(Tasks)' = Attempts(Tasks)
    BY DEF Attempts
  <2> QED BY <2>1, <2>2 DEF GatewayInv, Counts
<1> QED BY <1>1, <1>3, <1>5, <1>6, <1>7

\* A step outside an attempt disturbs no record, if what the caller may still try is as counted.
LEMMA ClosedStep ==
    ASSUME GatewayInv, NEW c \in Callers, Others(c), pc[c] \notin OpenPCs, pc'[c] \notin OpenPCs,
           req[c].n <= req'[c].n, req[c].n \in Nat, req'[c].n \in Nat, audits' = audits,
           pc'[c] # "idle" =>
               /\ pc'[c] \in {"loop"} \union LockPCs
               /\ \A i \in Mine(c, req'[c].n) : audits[TaskOf[c]][i].failed /\ ~audits[TaskOf[c]][i].output
               /\ Cardinality(Mine(c, req'[c].n)) <= req'[c].retry
    PROVE  Attempting' /\ Retries' /\ Tries'
<1> USE TaskAssumption
<1>0. Types /\ \A d, n : Mine(d, n)' = Mine(d, n)
  BY DEF GatewayInv, Mine
<1>1. ASSUME NEW t \in Tasks, NEW i \in DOMAIN audits[t]
      PROVE  audits[t][i].caller \in Callers /\ audits[t][i].n \in Nat
  <2>1. audits[t] \in Seq(Records)
    BY <1>0 DEF Types
  <2>2. audits[t][i] \in Records
    BY <2>1
  <2> QED BY <2>2 DEF Records
<1>2. \A d \in Callers : req[d].n \in Nat
  BY <1>0 DEF Types, Requests
<1>3. Attempting'
  <2>1. ASSUME NEW t \in Tasks, NEW i \in DOMAIN audits[t]
        PROVE  /\ TaskOf[audits[t][i].caller] = t /\ audits[t][i].n <= req'[audits[t][i].caller].n
               /\ ~audits[t][i].settled =>
                   /\ audits[t][i].usage = 0 /\ ~audits[t][i].failed
                   /\ pc'[audits[t][i].caller] \in OpenPCs /\ req'[audits[t][i].caller].index = i
    <3> DEFINE d == audits[t][i].caller
    <3>1. /\ TaskOf[d] = t /\ audits[t][i].n <= req[d].n
          /\ ~audits[t][i].settled =>
              /\ audits[t][i].usage = 0 /\ ~audits[t][i].failed
              /\ pc[d] \in OpenPCs /\ req[d].index = i
      BY DEF GatewayInv, Attempting
    <3>2. d \in Callers /\ audits[t][i].n \in Nat
      BY <1>1
    <3>3. CASE d = c
      BY <3>1, <3>2, <3>3
    <3>4. CASE d # c
      BY <3>1, <3>2, <3>4 DEF Others
    <3> QED BY <3>3, <3>4
  <2>2. ASSUME NEW d \in Callers, pc'[d] \in OpenPCs
        PROVE  /\ req'[d].index \in DOMAIN audits[TaskOf[d]]
               /\ LET a == audits[TaskOf[d]][req'[d].index] IN ~a.settled /\ a.caller = d /\ a.n = req'[d].n
    BY <2>2 DEF GatewayInv, Attempting, Current, Others
  <2>3. \A d \in Callers : pc'[d] \in {"rollup", "markup"} => TaskOf[d] # Root
    BY DEF GatewayInv, Attempting, Others, OpenPCs
  <2> QED BY <2>1, <2>2, <2>3 DEF Attempting, Current
<1>4. ASSUME NEW d \in Callers, d # c
      PROVE  pc'[d] = pc[d] /\ req'[d] = req[d] /\ Mine(d, req[d].n)' = Mine(d, req[d].n)
  BY <1>4 DEF Others, Mine
<1>5. Mine(c, req[c].n)' = Mine(c, req'[c].n)
  BY DEF Mine
<1>6. Retries'
  <2>1. ASSUME NEW d \in Callers, pc'[d] \in {"loop", "wait"} \union LockPCs
        PROVE  \A i \in Mine(d, req'[d].n) : audits[TaskOf[d]][i].failed /\ ~audits[TaskOf[d]][i].output
    <3>1. CASE d = c
      BY <2>1, <3>1 DEF OpenPCs, LockPCs
    <3>2. CASE d # c
      BY <2>1, <3>2, <1>4 DEF GatewayInv, Retries
    <3> QED BY <3>1, <3>2
  <2> QED BY <2>1, <1>0 DEF GatewayInv, Retries
<1>7. Tries'
  <2>1. Tries
    BY DEF GatewayInv
  <2>2. \A d \in Callers, n \in Nat : Cardinality(Mine(d, n))' <= MaxRetries + 1
    BY <1>0, <2>1 DEF Tries
  <2>3. pc'[c] \in {"idle", "loop"} \union LockPCs /\ pc'[c] # "wait" /\ pc'[c] \notin OpenPCs
    BY DEF LockPCs
  <2>4. ASSUME NEW d \in Callers
        PROVE  /\ pc'[d] \in {"loop"} \union LockPCs => Cardinality(Mine(d, req[d].n))' <= req'[d].retry
               /\ pc'[d] = "wait" => req'[d].retry < MaxRetries /\ Cardinality(Mine(d, req[d].n))' <= req'[d].retry + 1
               /\ pc'[d] \in OpenPCs => Cardinality(Mine(d, req[d].n))' <= req'[d].retry + 1
    <3>1. CASE d = c
      BY <3>1, <2>3, <1>5 DEF LockPCs
    <3>2. CASE d # c
      BY <3>2, <1>4, <2>1 DEF Tries
    <3> QED BY <3>1, <3>2
  <2> QED BY <2>2, <2>4 DEF Tries
<1> QED BY <1>3, <1>6, <1>7

\* The accounts are as they were if no usage of the step is recorded, or written down.
LEMMA UsagesKept ==
    ASSUME Usages, NEW c \in Callers, Others(c), tokens' = tokens, audits' = audits,
           pc'[c] \in OwnPCs <=> pc[c] \in OwnPCs, pc'[c] \in RootPCs <=> pc[c] \in RootPCs,
           pc[c] \in OwnPCs => req'[c].usage = req[c].usage
    PROVE  Usages'
<1>1. AtRoot' = AtRoot /\ \A t : AtOwn(t)' = AtOwn(t)
  BY CallersIn DEF AtRoot, AtOwn
<1>2. \A d \in Callers : pc[d] \in OwnPCs => req'[d].usage = req[d].usage
  BY DEF Others
<1>3. \A C \in SUBSET Callers : (\A d \in C : pc[d] \in OwnPCs) => Units(C, OnRequest') = Units(C, OnRequest)
  BY <1>2 DEF Units, OnRequest
<1>4. Recorded(AtRoot)' = Recorded(AtRoot)
  BY <1>1, <1>3 DEF Recorded, AtRoot, RootPCs, OwnPCs
<1>5. \A t : Recorded(AtOwn(t))' = Recorded(AtOwn(t))
  BY <1>1, <1>3 DEF Recorded, AtOwn
<1>6. \A T : Reported(T)' = Reported(T)
  BY DEF Reported, Attempts
<1> QED BY <1>4, <1>5, <1>6 DEF Usages

\* The margin is kept by a step that records nothing and lets nobody through.
LEMMA MarginKept ==
    ASSUME Types, Overshoot, NEW c \in Callers, Others(c), tokens'[Root] = tokens[Root],
           pc'[c] \in CommittedPCs => pc[c] \in CommittedPCs
    PROVE  Overshoot'
<1>1. Committed' \subseteq Committed /\ Committed \subseteq Callers
  BY CallersIn DEF Committed
<1>2. IsFiniteSet(Committed) /\ Cardinality(Committed) \in Nat /\ Cardinality(Callers) \in Nat
  BY <1>1, CallersFinite
<1>3. Cardinality(Committed') <= Cardinality(Committed) /\ Cardinality(Committed') \in Nat
  BY <1>1, <1>2, FS_Subset, FS_CardinalityType
<1>4. Cardinality(Committed') * MaxUsage <= Cardinality(Committed) * MaxUsage
  BY <1>2, <1>3, Bounds, QuotaAssumption
<1>5. tokens[Root] \in Nat
  BY DEF Types, Tasks
<1>6. Cardinality(Committed') * MaxUsage \in Nat /\ Cardinality(Committed) * MaxUsage \in Nat
      /\ Cardinality(Callers) * MaxUsage \in Nat /\ MaxTokens \in Nat
  BY <1>2, <1>3, Bounds, QuotaAssumption
<1>7. ASSUME NEW a \in Nat, NEW b \in Nat, NEW t \in Nat, NEW l \in Nat, NEW m \in Nat, a <= b, t + b < l + m
      PROVE  t + a < l + m
  BY <1>7
<1> QED BY <1>4, <1>5, <1>6, <1>7 DEF Overshoot
UsageOf == [a \in Attempts(Tasks) |-> audits[a[1]][a[2]].usage]

\* What some tasks report, as units of their attempts.
LEMMA ReportedUnits ==
    ASSUME NEW T \in SUBSET Tasks
    PROVE  Reported(T) = Units(Attempts(T), UsageOf) /\ Attempts(T) \subseteq Attempts(Tasks)
<1>1. Attempts(T) \subseteq Attempts(Tasks)
  BY DEF Attempts
<1>2. \A a \in Attempts(T) : UsageOf[a] = audits[a[1]][a[2]].usage
  BY <1>1 DEF UsageOf
<1> QED BY <1>1, <1>2 DEF Reported, Units

\* A member that had no units gets some.
LEMMA UnitsChange ==
    ASSUME NEW S, NEW u, NEW v, NEW x, x \in S, u[x] = 0, v[x] \in Nat,
           \A y \in S \ {x} : v[y] = u[y], IsFiniteSet(Units(S, u))
    PROVE  /\ IsFiniteSet(Units(S, v))
           /\ Cardinality(Units(S, v)) = Cardinality(Units(S, u)) + v[x]
<1> DEFINE R == S \ {x}
<1>1. R \union {x} = S /\ x \notin R /\ \A y \in R : v[y] = u[y]
  OBVIOUS
<1>2. u[x] \in Nat
  OBVIOUS
<1>3. IsFiniteSet(Units(R, u)) /\ Cardinality(Units(S, u)) = Cardinality(Units(R, u)) + u[x]
  <2>1. ASSUME NEW w, w[x] \in Nat, IsFiniteSet(Units(S, w))
        PROVE  IsFiniteSet(Units(S \ {x}, w)) /\ Cardinality(Units(S, w)) = Cardinality(Units(S \ {x}, w)) + w[x]
    BY <2>1, UnitsRemove
  <2> QED BY <1>2, <2>1
<1> HIDE DEF R
<1>4. Units(R, v) = Units(R, u)
  BY <1>1, UnitsSame
<1>5. /\ IsFiniteSet(Units(R \union {x}, v))
      /\ Cardinality(Units(R \union {x}, v)) = Cardinality(Units(R, v)) + v[x]
  <2>1. IsFiniteSet(Units(R, v))
    BY <1>3, <1>4
  <2> QED BY <2>1, <1>1, UnitsAdd
<1>6. Cardinality(Units(R, u)) \in Nat
  BY <1>3, FS_CardinalityType
<1>7. Cardinality(Units(S, u)) = Cardinality(Units(R, u))
  BY <1>3, <1>6
<1> QED BY <1>1, <1>4, <1>5, <1>7

\* An attempt's usage comes to an account of which it was no part: the root's, or its own task's.
LEMMA RootRecorded ==
    ASSUME Types, Usages, NEW c \in Callers, Others(c), req' = req, pc[c] \notin RootPCs, pc'[c] \in RootPCs
    PROVE  /\ IsFiniteSet(Recorded(AtRoot)')
           /\ Cardinality(Recorded(AtRoot)') = Cardinality(Recorded(AtRoot)) + req[c].usage
<1>1. AtRoot' = AtRoot \union {c} /\ c \notin AtRoot
  BY CallersIn DEF AtRoot
<1>2. OnRequest' = OnRequest /\ OnRequest[c] = req[c].usage /\ req[c].usage \in Nat
  BY QuotaAssumption DEF OnRequest, Types, Requests
<1>3. IsFiniteSet(Units(AtRoot, OnRequest))
  BY DEF Usages, Recorded
<1> DEFINE A == AtRoot
           v == OnRequest
<1> HIDE DEF A, v
<1>4. IsFiniteSet(Units(A \union {c}, v)) /\ Cardinality(Units(A \union {c}, v)) = Cardinality(Units(A, v)) + v[c]
  <2>1. c \notin A /\ v[c] \in Nat /\ IsFiniteSet(Units(A, v))
    BY <1>1, <1>2, <1>3 DEF A, v
  <2> QED BY <2>1, UnitsAdd
<1> QED BY <1>1, <1>2, <1>4 DEF Recorded, A, v

\* Likewise on the account of a branch.
LEMMA OwnRecorded ==
    ASSUME Types, Usages, NEW c \in Callers, Others(c), req' = req, pc[c] \notin OwnPCs, pc'[c] \in OwnPCs,
           TaskOf[c] \in Branches
    PROVE  LET t == TaskOf[c] IN
           /\ IsFiniteSet(Recorded(AtOwn(t))')
           /\ Cardinality(Recorded(AtOwn(t))') = Cardinality(Recorded(AtOwn(t))) + req[c].usage
<1> DEFINE t == TaskOf[c]
<1>1. AtOwn(t)' = AtOwn(t) \union {c} /\ c \notin AtOwn(t)
  BY CallersIn DEF AtOwn
<1>2. OnRequest' = OnRequest /\ OnRequest[c] = req[c].usage /\ req[c].usage \in Nat
  BY QuotaAssumption DEF OnRequest, Types, Requests
<1>3. IsFiniteSet(Units(AtOwn(t), OnRequest))
  BY DEF Usages, Recorded
<1> DEFINE A == AtOwn(t)
<1> HIDE DEF A
<1>4. /\ IsFiniteSet(Units(A \union {c}, OnRequest))
      /\ Cardinality(Units(A \union {c}, OnRequest)) = Cardinality(Units(A, OnRequest)) + OnRequest[c]
  BY <1>1, <1>2, <1>3, UnitsAdd DEF A
<1> QED BY <1>1, <1>2, <1>4 DEF Recorded, A

\* Usage on the account of the root comes out of the margin of the caller that was let through.
LEMMA MarginSpent ==
    ASSUME Types, Overshoot, NEW c \in Callers, Others(c), pc[c] \in CommittedPCs, pc'[c] \notin CommittedPCs,
           tokens'[Root] = tokens[Root] + req[c].usage
    PROVE  Overshoot'
<1>1. Committed' = Committed \ {c} /\ c \in Committed /\ Committed \in SUBSET Callers
  BY CallersIn DEF Committed
<1>2. /\ Cardinality(Committed') = Cardinality(Committed) - 1 /\ Cardinality(Committed) \in Nat
      /\ Cardinality(Committed') \in Nat /\ Cardinality(Callers) \in Nat
  BY <1>1, CallersFinite, FS_RemoveElement, FS_CardinalityType
<1>3. req[c].usage \in Nat /\ req[c].usage <= MaxUsage /\ MaxUsage \in Nat /\ MaxTokens \in Nat /\ tokens[Root] \in Nat
  BY QuotaAssumption DEF Types, Requests, Tasks
<1> DEFINE k == Cardinality(Committed')
<1>4. Cardinality(Committed) = k + 1 /\ k \in Nat
  BY <1>2
<1>5. tokens[Root] + Cardinality(Committed) * MaxUsage < MaxTokens + Cardinality(Callers) * MaxUsage
  BY DEF Overshoot
<1> HIDE DEF k
<1>6. (k + 1) * MaxUsage = k * MaxUsage + MaxUsage /\ k * MaxUsage \in Nat
  BY <1>3, <1>4, Bounds
<1> DEFINE p == k * MaxUsage
           q == Cardinality(Callers) * MaxUsage
<1>7. q \in Nat
  BY <1>2, <1>3, Bounds
<1>8. tokens[Root] + (p + MaxUsage) < MaxTokens + q
  BY <1>4, <1>5, <1>6
<1>9. p \in Nat
  BY <1>6
<1> HIDE DEF p, q
<1>10. tokens[Root] + req[c].usage + p < MaxTokens + q
  BY <1>3, <1>7, <1>8, <1>9
<1> QED BY <1>10 DEF Overshoot, k, p, q


-----------------------------------------------------------------------------
(* One lemma per step.                                                      *)

\* A delta reaches the sink.
LEMMA OutputInv ==
    ASSUME GatewayInv, NEW c \in Callers, Output(c)
    PROVE  GatewayInv'
<1> USE TaskAssumption, QuotaAssumption
<1>0. Types
  BY DEF GatewayInv
<1>a. /\ Others(c) /\ pc[c] = "stream" /\ pc'[c] = "stream"
      /\ req'[c].n = req[c].n /\ req'[c].size = req[c].size /\ req'[c].retry = req[c].retry
      /\ req'[c].index = req[c].index
      /\ audits' = audits /\ locked' = locked /\ reserved' = reserved /\ calls' = calls
  BY <1>0 DEF Output, Types, Requests, Others, Go, Return, book, env, counters, OpenPCs, LockPCs
<1>b. Sections' /\ Attempting' /\ Retries' /\ Tries' /\ Counts'
  BY <1>a, OpenStep DEF OpenPCs
<1>1. Types'
  BY ZenonT(40), <1>0 DEF Types, Requests, OpenPCs, LockPCs, Output, Go, counters, env, book, Tasks
<1>2. Usages'
  BY <1>a, UsagesKept DEF GatewayInv, OwnPCs, RootPCs, Output, counters
<1>3. Marked'
  BY <1>0, <1>a DEF GatewayInv, Marked, Types, Requests, Others, OpenPCs, LockPCs, Output, Go, counters, env, book, Tasks
<1>4. Overshoot'
  BY <1>0, <1>a, MarginKept DEF GatewayInv, CommittedPCs, LockPCs, Output, counters
<1> QED BY <1>b, <1>1, <1>2, <1>3, <1>4 DEF GatewayInv

\* The usage is reported.
LEMMA UsageInv ==
    ASSUME GatewayInv, NEW c \in Callers, NEW n \in 1..MaxUsage, Usage(c, n)
    PROVE  GatewayInv'
<1> USE TaskAssumption, QuotaAssumption
<1>0. Types
  BY DEF GatewayInv
<1>a. /\ Others(c) /\ pc[c] = "stream" /\ pc'[c] = "stream"
      /\ req'[c].n = req[c].n /\ req'[c].size = req[c].size /\ req'[c].retry = req[c].retry
      /\ req'[c].index = req[c].index
      /\ audits' = audits /\ locked' = locked /\ reserved' = reserved /\ calls' = calls
  BY <1>0 DEF Usage, Types, Requests, Others, Go, Return, book, env, counters, OpenPCs, LockPCs
<1>b. Sections' /\ Attempting' /\ Retries' /\ Tries' /\ Counts'
  BY <1>a, OpenStep DEF OpenPCs
<1>1. Types'
  <2>1. req[c] \in Requests
    BY <1>0 DEF Types
  <2>2. [req[c] EXCEPT !.usage = n] \in Requests
    BY <2>1 DEF Requests
  <2>3. req' \in [Callers -> Requests]
    BY <1>0, <2>2 DEF Types, Usage
  <2> QED BY <1>0, <2>3 DEF Types, OpenPCs, LockPCs, Usage, Go, counters, env, book
<1>2. Usages'
  BY <1>a, UsagesKept DEF GatewayInv, OwnPCs, RootPCs, Usage, counters
<1>3. Marked'
  BY SMTT(30), <1>0, <1>a DEF GatewayInv, Marked, Types, Requests, Others, OpenPCs, LockPCs, Usage, Go, counters, env, book, Tasks
<1>4. Overshoot'
  BY <1>0, <1>a, MarginKept DEF GatewayInv, CommittedPCs, LockPCs, Usage, counters
<1> QED BY <1>b, <1>1, <1>2, <1>3, <1>4 DEF GatewayInv

\* The attempt ends, or its future is dropped.
LEMMA StreamEndInv ==
    ASSUME GatewayInv, NEW c \in Callers, NEW result \in {"reply", "retryable", "fatal", "dropped"}, StreamEnd(c, result)
    PROVE  GatewayInv'
<1> USE TaskAssumption, QuotaAssumption
<1>0. Types
  BY DEF GatewayInv
<1>a. /\ Others(c) /\ pc[c] = "stream" /\ pc'[c] = "record"
      /\ req'[c].n = req[c].n /\ req'[c].size = req[c].size /\ req'[c].retry = req[c].retry
      /\ req'[c].index = req[c].index
      /\ audits' = audits /\ locked' = locked /\ reserved' = reserved /\ calls' = calls
  BY <1>0 DEF StreamEnd, Types, Requests, Others, Go, Return, book, env, counters, OpenPCs, LockPCs
<1>b. Sections' /\ Attempting' /\ Retries' /\ Tries' /\ Counts'
  BY <1>a, OpenStep DEF OpenPCs
<1>1. Types'
  <2>1. req[c] \in Requests
    BY <1>0 DEF Types
  <2>2. [req[c] EXCEPT !.result = result, !.usage = IF result = "dropped" THEN 0 ELSE @] \in Requests
    <3> DEFINE u == IF result = "dropped" THEN 0 ELSE req[c].usage
    <3>1. u \in 0..MaxUsage
      BY <2>1 DEF Requests
    <3>2. [req[c] EXCEPT !.result = result, !.usage = IF result = "dropped" THEN 0 ELSE @]
            = [req[c] EXCEPT !.result = result, !.usage = u]
      BY <2>1 DEF Requests
    <3> HIDE DEF u
    <3>3. [req[c] EXCEPT !.result = result, !.usage = u] \in Requests
      BY <2>1, <3>1 DEF Requests
    <3> QED BY <3>2, <3>3
  <2>3. req' \in [Callers -> Requests]
    BY <1>0, <2>2 DEF Types, StreamEnd
  <2> QED BY <1>0, <2>3 DEF Types, OpenPCs, LockPCs, StreamEnd, Go, counters, env, book
<1>2. Usages'
  BY <1>a, UsagesKept DEF GatewayInv, OwnPCs, RootPCs, StreamEnd, counters
<1>3. Marked'
  <2>1. /\ req'[c].result = result /\ req'[c].usage = (IF result = "dropped" THEN 0 ELSE req[c].usage)
        /\ incomplete' = incomplete /\ late' = late /\ cancelled' = cancelled /\ tokens' = tokens /\ audits' = audits
    BY <1>0 DEF StreamEnd, Types, Requests, counters, env, book
  <2>2. \A d \in Callers : d # c => pc'[d] = pc[d] /\ req'[d] = req[d]
    BY <1>a DEF Others
  <2>3. ASSUME NEW d \in Callers
        PROVE  /\ pc'[d] \in {"record", "rollup"} /\ req'[d].result = "dropped" => req'[d].usage = 0
               /\ pc'[d] \in {"mark", "markup", "settle"} /\ req'[d].usage = 0 => incomplete[Root]
               /\ pc'[d] \in {"record", "rollup"} => req'[d].result # "none"
               /\ pc'[d] = "settle" /\ req'[d].result # "reply" => incomplete[Root]
    <3>1. CASE d = c
      BY <3>1, <2>1, <1>a
    <3>2. CASE d # c
      BY <3>2, <2>2 DEF GatewayInv, Marked
    <3> QED BY <3>1, <3>2
  <2> QED BY <2>1, <2>3 DEF GatewayInv, Marked
<1>4. Overshoot'
  BY <1>0, <1>a, MarginKept DEF GatewayInv, CommittedPCs, LockPCs, StreamEnd, counters
<1> QED BY <1>b, <1>1, <1>2, <1>3, <1>4 DEF GatewayInv

\* A failure marks the usage of its task as incomplete.
LEMMA MarkOwnInv ==
    ASSUME GatewayInv, NEW c \in Callers, MarkOwn(c)
    PROVE  GatewayInv'
<1> USE TaskAssumption, QuotaAssumption
<1>0. Types
  BY DEF GatewayInv
<1>a. /\ Others(c) /\ pc[c] = "mark" /\ pc'[c] = (IF TaskOf[c] = Root THEN "settle" ELSE "markup")
      /\ req'[c].n = req[c].n /\ req'[c].size = req[c].size /\ req'[c].retry = req[c].retry
      /\ req'[c].index = req[c].index
      /\ audits' = audits /\ locked' = locked /\ reserved' = reserved /\ calls' = calls
  BY <1>0 DEF MarkOwn, Types, Requests, Others, Go, Return, book, env, counters, OpenPCs, LockPCs
<1>b. Sections' /\ Attempting' /\ Retries' /\ Tries' /\ Counts'
  BY <1>a, OpenStep DEF OpenPCs
<1>1. Types'
  BY <1>0 DEF Types, Requests, OpenPCs, LockPCs, MarkOwn, Go, counters, env, book, Tasks
<1>2. Usages'
  BY <1>a, UsagesKept DEF GatewayInv, OwnPCs, RootPCs, MarkOwn, counters
<1>3. Marked'
  BY ZenonT(40), <1>0, <1>a DEF GatewayInv, Marked, Types, Requests, Others, OpenPCs, LockPCs, MarkOwn, Go, counters, env, book, Tasks
<1>4. Overshoot'
  BY <1>0, <1>a, MarginKept DEF GatewayInv, CommittedPCs, LockPCs, MarkOwn, counters
<1> QED BY <1>b, <1>1, <1>2, <1>3, <1>4 DEF GatewayInv

\* And that of the root.
LEMMA MarkParentInv ==
    ASSUME GatewayInv, NEW c \in Callers, MarkParent(c)
    PROVE  GatewayInv'
<1> USE TaskAssumption, QuotaAssumption
<1>0. Types
  BY DEF GatewayInv
<1>a. /\ Others(c) /\ pc[c] = "markup" /\ pc'[c] = "settle"
      /\ req'[c].n = req[c].n /\ req'[c].size = req[c].size /\ req'[c].retry = req[c].retry
      /\ req'[c].index = req[c].index
      /\ audits' = audits /\ locked' = locked /\ reserved' = reserved /\ calls' = calls
  BY <1>0 DEF MarkParent, Types, Requests, Others, Go, Return, book, env, counters, OpenPCs, LockPCs
<1>b. Sections' /\ Attempting' /\ Retries' /\ Tries' /\ Counts'
  BY <1>a, OpenStep DEF OpenPCs
<1>1. Types'
  BY <1>0 DEF Types, Requests, OpenPCs, LockPCs, MarkParent, Go, counters, env, book, Tasks
<1>2. Usages'
  BY <1>a, UsagesKept DEF GatewayInv, OwnPCs, RootPCs, MarkParent, counters
<1>3. Marked'
  BY <1>0, <1>a DEF GatewayInv, Marked, Types, Requests, Others, OpenPCs, LockPCs, MarkParent, Go, counters, env, book, Tasks
<1>4. Overshoot'
  BY <1>0, <1>a, MarginKept DEF GatewayInv, CommittedPCs, LockPCs, MarkParent, counters
<1> QED BY <1>b, <1>1, <1>2, <1>3, <1>4 DEF GatewayInv

\* A request begins: no attempt of it is on record.
LEMMA BeginInv ==
    ASSUME GatewayInv, NEW c \in Callers, NEW size \in Sizes, Begin(c, size)
    PROVE  GatewayInv'
<1> USE TaskAssumption, QuotaAssumption
<1>0. Types /\ req[c] \in Requests
  BY DEF GatewayInv, Types
<1> DEFINE r == [NoRequest EXCEPT !.n = req[c].n + 1, !.size = size]
<1>a. /\ r \in Requests /\ r.n = req[c].n + 1 /\ r.n \in 1..MaxRequests /\ r.size = size /\ r.retry = 0
      /\ req[c].n \in Nat
  <2>1. req[c].n \in Nat /\ req[c].n + 1 \in 1..MaxRequests /\ size \in Nat
    BY <1>0 DEF Begin, Requests
  <2>2. 0 \in 0..MaxRetries /\ 0 \in 0..MaxUsage /\ 0 \in Nat
    OBVIOUS
  <2>3. r.n = req[c].n + 1 /\ r.size = size /\ r.retry = 0
    BY DEF NoRequest
  <2>4. NoRequest \in Requests
    BY <2>2 DEF Requests, NoRequest
  <2>5. r \in Requests
    <3> DEFINE m == req[c].n + 1
    <3>1. m \in Nat
      BY <2>1
    <3> HIDE DEF m
    <3>2. [NoRequest EXCEPT !.n = m, !.size = size] \in Requests
      BY <2>1, <2>4, <3>1 DEF Requests
    <3> QED BY <3>2 DEF m
  <2> QED BY <2>1, <2>3, <2>5
<1>b. /\ Others(c) /\ pc[c] = "idle" /\ pc'[c] = "loop" /\ req'[c] = r
      /\ req' = [req EXCEPT ![c] = r] /\ pc' = [pc EXCEPT ![c] = "loop"]
      /\ UNCHANGED <<counters, env, book, locked>>
  BY <1>0 DEF Begin, Go, Types, Others
<1> HIDE DEF r
<1>1. Types'
  BY <1>0, <1>a, <1>b DEF Types, OpenPCs, LockPCs, counters, env, book
<1>2. Sections'
  BY <1>0, <1>a, <1>b DEF GatewayInv, Sections, Others, LockPCs, book
<1>3. Attempting' /\ Retries' /\ Tries'
  <2>1. Mine(c, r.n) = {}
    <3>1. ASSUME NEW i \in DOMAIN audits[TaskOf[c]], audits[TaskOf[c]][i].caller = c
          PROVE  audits[TaskOf[c]][i].n # r.n
      <4>1. audits[TaskOf[c]] \in Seq(Records)
        BY <1>0 DEF Types
      <4>2. audits[TaskOf[c]][i].n \in Nat
        <5>1. audits[TaskOf[c]][i] \in Records
          BY <4>1, <3>1
        <5> QED BY <5>1 DEF Records
      <4>3. audits[TaskOf[c]][i].n <= req[c].n
        BY <3>1 DEF GatewayInv, Attempting
      <4> QED BY <4>2, <4>3, <1>a
    <3> QED BY <3>1 DEF Mine
  <2>2. Cardinality({}) = 0
    BY FS_EmptySet
  <2>3. /\ \A i \in Mine(c, req'[c].n) : audits[TaskOf[c]][i].failed /\ ~audits[TaskOf[c]][i].output
        /\ Cardinality(Mine(c, req'[c].n)) <= req'[c].retry
    BY <2>1, <2>2, <1>a, <1>b
  <2>4. req[c].n <= req'[c].n /\ req'[c].n \in Nat /\ audits' = audits
    BY <1>a, <1>b DEF book
  <2> QED BY <2>3, <2>4, <1>a, <1>b, ClosedStep DEF OpenPCs, LockPCs
<1>4. Counts'
  <2>1. Granted' = Granted
    BY <1>b, CallersIn DEF Granted
  <2> QED BY <2>1, <1>b DEF GatewayInv, Counts, Attempts, counters, book
<1>5. Usages'
  BY <1>b, UsagesKept DEF GatewayInv, OwnPCs, RootPCs, counters, book
<1>6. Marked'
  BY <1>0, <1>b DEF GatewayInv, Marked, Others, counters, env, book
<1>7. Overshoot'
  BY <1>0, <1>b, MarginKept DEF GatewayInv, CommittedPCs, LockPCs, counters
<1> QED BY <1>1, <1>2, <1>3, <1>4, <1>5, <1>6, <1>7 DEF GatewayInv

\* Outside an attempt, whoever returns leaves all as it was.
LEMMA ReturnStep ==
    ASSUME GatewayInv, NEW c \in Callers, Others(c), req'[c] = req[c],
           pc[c] \in {"loop", "wait"} \union LockPCs, pc'[c] = "idle", audits' = audits
    PROVE  Attempting' /\ Retries' /\ Tries' /\ (tokens' = tokens => Usages' /\ Overshoot')
<1>0. Types /\ req[c].n \in Nat
  BY DEF GatewayInv, Types, Requests
<1>1. Attempting' /\ Retries' /\ Tries'
  BY <1>0, ClosedStep DEF OpenPCs, LockPCs
<1>2. ASSUME tokens' = tokens PROVE Usages' /\ Overshoot'
  <2>1. Usages'
    BY <1>2, UsagesKept DEF GatewayInv, OwnPCs, RootPCs, LockPCs
  <2>2. pc'[c] \notin CommittedPCs
    BY DEF CommittedPCs, LockPCs
  <2>3. Overshoot'
    BY <1>0, <1>2, <2>2, MarginKept DEF GatewayInv
  <2> QED BY <2>1, <2>3
<1> QED BY <1>1, <1>2

\* The wait ends without another attempt.
LEMMA DropWaitingInv ==
    ASSUME GatewayInv, NEW c \in Callers, DropWaiting(c)
    PROVE  GatewayInv'
<1> USE TaskAssumption, QuotaAssumption
<1>0. Types
  BY DEF GatewayInv
<1>a. /\ Others(c) /\ req' = req /\ pc[c] = "wait" /\ pc'[c] = "idle" /\ pc' = [pc EXCEPT ![c] = "idle"]
      /\ UNCHANGED <<counters, env, book, locked>>
  BY <1>0 DEF DropWaiting, Return, Go, Types, Others
<1>1. Types'
  BY <1>0, <1>a DEF Types, OpenPCs, LockPCs, counters, env, book
<1>2. Sections'
  BY <1>0, <1>a DEF GatewayInv, Sections, Others, LockPCs, book
<1>3. Attempting' /\ Retries' /\ Tries' /\ Usages' /\ Overshoot'
  BY <1>a, ReturnStep DEF counters, book
<1>4. Counts'
  <2>1. Granted' = Granted
    BY <1>a, CallersIn DEF Granted
  <2> QED BY <2>1, <1>a DEF GatewayInv, Counts, Attempts, counters, book
<1>5. Marked'
  BY <1>0, <1>a DEF GatewayInv, Marked, Others, counters, env, book
<1> QED BY <1>1, <1>2, <1>3, <1>4, <1>5 DEF GatewayInv

\* The wait ends, with another attempt if one fits.
LEMMA RetryInv ==
    ASSUME GatewayInv, NEW c \in Callers, Retry(c)
    PROVE  GatewayInv'
<1> USE TaskAssumption, QuotaAssumption
<1>0. Types /\ req[c] \in Requests /\ pc[c] = "wait"
  BY DEF GatewayInv, Types, Retry
<1>1. CASE ~RetryFits(c)
  <2>1. DropWaiting(c)
    BY <1>1 DEF Retry, DropWaiting
  <2> QED BY <2>1, DropWaitingInv
<1>2. CASE RetryFits(c)
  <2> DEFINE r == [req[c] EXCEPT !.retry = @ + 1]
  <2>a. /\ Others(c) /\ req' = [req EXCEPT ![c] = r] /\ pc'[c] = "loop" /\ pc' = [pc EXCEPT ![c] = "loop"]
        /\ UNCHANGED <<counters, env, book, locked>> /\ req'[c] = r
    BY <1>0, <1>2 DEF Retry, Go, Types, Others
  <2>b. req[c].retry < MaxRetries /\ Cardinality(Mine(c, req[c].n)) <= req[c].retry + 1
    BY <1>0 DEF GatewayInv, Tries
  <2>c. /\ r \in Requests /\ r.retry = req[c].retry + 1 /\ r.n = req[c].n /\ r.n \in Nat /\ r.size = req[c].size
        /\ r.index = req[c].index
    BY <1>0, <2>b DEF Requests
  <2> HIDE DEF r
  <2>1. Types'
    BY <1>0, <2>a, <2>c DEF Types, OpenPCs, LockPCs, counters, env, book
  <2>2. Sections'
    BY <1>0, <2>a, <2>c DEF GatewayInv, Sections, Others, LockPCs, book
  <2>3. Attempting' /\ Retries' /\ Tries'
    <3>1. \A i \in Mine(c, req[c].n) : audits[TaskOf[c]][i].failed /\ ~audits[TaskOf[c]][i].output
      BY <1>0 DEF GatewayInv, Retries
    <3> QED BY <3>1, <1>0, <2>a, <2>b, <2>c, ClosedStep DEF OpenPCs, LockPCs, book
  <2>4. Counts'
    <3>1. Granted' = Granted
      BY <1>0, <2>a, CallersIn DEF Granted
    <3> QED BY <3>1, <2>a DEF GatewayInv, Counts, Attempts, counters, book
  <2>5. Usages'
    BY <1>0, <2>a, UsagesKept DEF GatewayInv, OwnPCs, RootPCs, counters, book
  <2>6. Marked'
    BY <1>0, <2>a DEF GatewayInv, Marked, Others, counters, env, book
  <2>7. Overshoot'
    BY <1>0, <2>a, MarginKept DEF GatewayInv, CommittedPCs, LockPCs, counters
  <2> QED BY <2>1, <2>2, <2>3, <2>4, <2>5, <2>6, <2>7 DEF GatewayInv
<1> QED BY <1>1, <1>2

\* Cancellation and the deadline, and steps that change nothing.
LEMMA EnvironmentInv ==
    ASSUME GatewayInv, UNCHANGED <<counters, book, locked, pc, req>>,
           cancelled' \in [Tasks -> BOOLEAN], late' \in BOOLEAN, late => late',
           \A t \in Tasks : cancelled[t] => cancelled'[t]
    PROVE  GatewayInv'
<1>1. Types'
  BY DEF GatewayInv, Types, counters, book
<1>2. Sections' /\ Attempting' /\ Retries'
  BY DEF GatewayInv, Sections, Attempting, Retries, Mine, Current, book
<1>3. Tries'
  <2>1. \A d, n : Mine(d, n)' = Mine(d, n)
    BY DEF Mine, book
  <2>2. \A d : Mine(d, req[d].n)' = Mine(d, req[d].n)
    BY DEF Mine, book
  <2> QED BY <2>1, <2>2 DEF GatewayInv, Tries
<1>4. Counts'
  BY DEF GatewayInv, Counts, Attempts, Granted, counters, book
<1>5. Usages'
  BY DEF GatewayInv, Usages, Reported, Attempts, Recorded, Units, OnRequest, AtRoot, AtOwn, counters, book
<1>6. Marked'
  BY DEF GatewayInv, Marked, counters, book
<1>7. Overshoot'
  BY DEF GatewayInv, Overshoot, Committed, counters
<1> QED BY <1>1, <1>2, <1>3, <1>4, <1>5, <1>6, <1>7 DEF GatewayInv

\* The audits are locked for a caller whose task may go on and whose record fits.
LEMMA ReserveBeginInv ==
    ASSUME GatewayInv, NEW c \in Callers, ReserveBegin(c)
    PROVE  GatewayInv'
<1> USE TaskAssumption, QuotaAssumption
<1> DEFINE t == TaskOf[c]
           ok == ~IsCancelled(t) /\ CapacityFor(t, req[c].size) /\ Check(t)
<1>0. Types /\ req[c] \in Requests /\ t \in Tasks /\ pc[c] = "loop" /\ locked[t] = "none"
  BY DEF GatewayInv, Types, ReserveBegin
<1>1. CASE ~ok
  <2>a. /\ Others(c) /\ req' = req /\ pc'[c] = "idle" /\ pc' = [pc EXCEPT ![c] = "idle"]
        /\ UNCHANGED <<counters, env, book, locked>>
    BY <1>0, <1>1 DEF ReserveBegin, Return, Go, Types, Others
  <2>1. Types'
    BY <1>0, <2>a DEF Types, OpenPCs, LockPCs, counters, env, book
  <2>2. Sections'
    BY <1>0, <2>a DEF GatewayInv, Sections, Others, LockPCs, book
  <2>3. Attempting' /\ Retries' /\ Tries' /\ Usages' /\ Overshoot'
    BY <1>0, <2>a, ReturnStep DEF counters, book
  <2>4. Counts'
    <3>1. Granted' = Granted
      BY <1>0, <2>a, CallersIn DEF Granted
    <3> QED BY <3>1, <2>a DEF GatewayInv, Counts, Attempts, counters, book
  <2>5. Marked'
    BY <1>0, <2>a DEF GatewayInv, Marked, Others, counters, env, book
  <2> QED BY <2>1, <2>2, <2>3, <2>4, <2>5 DEF GatewayInv
<1>2. CASE ok
  <2>a. /\ Others(c) /\ req' = req /\ pc'[c] = "reserve" /\ pc' = [pc EXCEPT ![c] = "reserve"]
        /\ locked' = [locked EXCEPT ![t] = c] /\ UNCHANGED <<counters, env, book>>
        /\ tokens[Root] < MaxTokens /\ reserved[t] + req[c].size <= AuditCap
    BY <1>0, <1>2 DEF ReserveBegin, Return, Go, Types, Others, Check, CapacityFor
  <2> HIDE DEF ok
  <2>1. Types'
    BY <1>0, <2>a DEF Types, OpenPCs, LockPCs, counters, env, book
  <2>2. Sections'
    <3>1. ASSUME NEW u \in Tasks, NEW d \in Callers
          PROVE  locked'[u] = d <=> (TaskOf[d] = u /\ pc'[d] \in LockPCs)
      <4>1. locked[u] = d <=> (TaskOf[d] = u /\ pc[d] \in LockPCs)
        BY DEF GatewayInv, Sections
      <4>2. CASE d = c
        BY <4>1, <4>2, <1>0, <2>a DEF LockPCs, Types
      <4>3. CASE d # c
        BY <4>1, <4>3, <1>0, <2>a DEF LockPCs, Types, Others
      <4> QED BY <4>2, <4>3
    <3> QED BY <3>1, <1>0, <2>a DEF GatewayInv, Sections, Others, LockPCs, book
  <2>3. Attempting' /\ Retries' /\ Tries'
    <3>1. /\ \A i \in Mine(c, req[c].n) : audits[TaskOf[c]][i].failed /\ ~audits[TaskOf[c]][i].output
          /\ Cardinality(Mine(c, req[c].n)) <= req[c].retry
      BY <1>0 DEF GatewayInv, Retries, Tries
    <3>2. req[c].n \in Nat
      BY <1>0 DEF Requests
    <3> QED BY <3>1, <3>2, <1>0, <2>a, ClosedStep DEF OpenPCs, LockPCs, book
  <2>4. Counts'
    <3>1. Granted' = Granted
      BY <1>0, <2>a, CallersIn DEF Granted
    <3> QED BY <3>1, <2>a DEF GatewayInv, Counts, Attempts, counters, book
  <2>5. Usages'
    BY <1>0, <2>a, UsagesKept DEF GatewayInv, OwnPCs, RootPCs, counters, book
  <2>6. Marked'
    BY <1>0, <2>a DEF GatewayInv, Marked, Others, counters, env, book
  <2>7. Overshoot'
    <3>1. Committed' \in SUBSET Callers
      BY <1>0, <2>a, CallersIn DEF Committed
    <3> DEFINE k == Cardinality(Committed')
               m == Cardinality(Callers)
    <3>2. k \in Nat /\ m \in Nat /\ k <= m
      BY <3>1, CallersFinite
    <3>3. k * MaxUsage <= m * MaxUsage /\ k * MaxUsage \in Nat /\ m * MaxUsage \in Nat
      BY <3>2, Bounds
    <3>4. tokens'[Root] \in Nat /\ tokens'[Root] < MaxTokens
      BY <1>0, <2>a DEF Types, Tasks, counters
    <3> HIDE DEF k, m
    <3>5. tokens'[Root] + k * MaxUsage < MaxTokens + m * MaxUsage
      BY <3>3, <3>4
    <3> QED BY <3>5 DEF Overshoot, k, m
  <2> QED BY <2>1, <2>2, <2>3, <2>4, <2>5, <2>6, <2>7 DEF GatewayInv
<1> QED BY <1>1, <1>2

\* Whoever leaves a lock section leaves it to nobody else.
LEMMA SectionEnds ==
    ASSUME Types, Sections, NEW c \in Callers, Others(c), pc[c] \in LockPCs, pc'[c] \notin LockPCs,
           locked' = [locked EXCEPT ![TaskOf[c]] = "none"]
    PROVE  /\ \A t \in Tasks, d \in Callers : locked'[t] = d <=> (TaskOf[d] = t /\ pc'[d] \in LockPCs)
           /\ \A d \in Callers : TaskOf[d] = TaskOf[c] => pc'[d] \notin LockPCs
<1> USE TaskAssumption
<1>1. locked[TaskOf[c]] = c /\ TaskOf[c] \in Tasks
  BY DEF Sections
<1>2. ASSUME NEW d \in Callers, d # c PROVE TaskOf[d] = TaskOf[c] => pc'[d] \notin LockPCs
  BY <1>1, <1>2 DEF Sections, Others
<1>3. ASSUME NEW t \in Tasks, NEW d \in Callers
      PROVE  locked'[t] = d <=> (TaskOf[d] = t /\ pc'[d] \in LockPCs)
  <2>1. CASE t = TaskOf[c]
    <3>1. locked'[t] = "none"
      BY <2>1, <1>1 DEF Types
    <3> QED BY <3>1, <2>1, <1>2
  <2>2. CASE t # TaskOf[c]
    <3>1. locked'[t] = locked[t]
      BY <2>2, <1>1 DEF Types
    <3>2. CASE d = c
      BY <3>1, <3>2, <2>2, <1>1 DEF Sections
    <3>3. CASE d # c
      BY <3>1, <3>3, <1>1 DEF Sections, Others
    <3> QED BY <3>2, <3>3
  <2> QED BY <2>1, <2>2
<1> QED BY <1>2, <1>3

\* The root's quota grants the call, or the request is refused.
LEMMA ReserveRootInv ==
    ASSUME GatewayInv, NEW c \in Callers, ReserveRoot(c)
    PROVE  GatewayInv'
<1> USE TaskAssumption, QuotaAssumption
<1>0. Types /\ req[c] \in Requests /\ TaskOf[c] \in Tasks /\ pc[c] = "reserve" /\ Root \in Tasks
  BY DEF GatewayInv, Types, ReserveRoot, Tasks
<1>1. CASE calls[Root] >= MaxModelCalls
  <2>a. /\ Others(c) /\ req' = req /\ pc'[c] = "idle" /\ pc' = [pc EXCEPT ![c] = "idle"]
        /\ locked' = [locked EXCEPT ![TaskOf[c]] = "none"]
        /\ UNCHANGED <<counters, env, book>>
    BY <1>0, <1>1 DEF ReserveRoot, Return, Go, Types, Others, counters
  <2>1. Types'
    BY <1>0, <2>a DEF Types, OpenPCs, LockPCs, counters, env, book
  <2>2. Sections'
    <3>1. pc[c] \in LockPCs /\ pc'[c] \notin LockPCs
      BY <1>0, <2>a DEF LockPCs
    <3> QED BY ZenonT(40), <3>1, <1>0, <2>a, SectionEnds DEF GatewayInv, Sections, Others, LockPCs, book
  <2>3. Attempting' /\ Retries' /\ Tries' /\ Usages' /\ Overshoot'
    BY <1>0, <2>a, ReturnStep DEF counters, book, LockPCs
  <2>4. Counts'
    <3>1. Granted' = Granted
      BY <1>0, <2>a, CallersIn DEF Granted
    <3> QED BY <3>1, <2>a DEF GatewayInv, Counts, Attempts, counters, book
  <2>5. Marked'
    BY <1>0, <2>a DEF GatewayInv, Marked, Others, counters, env, book
  <2> QED BY <2>1, <2>2, <2>3, <2>4, <2>5 DEF GatewayInv
<1>2. CASE calls[Root] < MaxModelCalls
  <2>a. /\ Others(c) /\ req' = req /\ pc'[c] = "granted" /\ pc' = [pc EXCEPT ![c] = "granted"]
        /\ calls' = [calls EXCEPT ![Root] = @ + 1]
        /\ UNCHANGED <<tokens, incomplete, env, book, locked>>
    BY <1>0, <1>2 DEF ReserveRoot, Return, Go, Types, Others
  <2>1. Types'
    BY <1>0, <2>a DEF Types, OpenPCs, LockPCs, env, book
  <2>2. Sections'
    BY <1>0, <2>a DEF GatewayInv, Sections, Others, LockPCs, book
  <2>3. Attempting' /\ Retries' /\ Tries'
    <3>1. /\ \A i \in Mine(c, req[c].n) : audits[TaskOf[c]][i].failed /\ ~audits[TaskOf[c]][i].output
          /\ Cardinality(Mine(c, req[c].n)) <= req[c].retry
      BY <1>0 DEF GatewayInv, Retries, Tries, LockPCs
    <3>2. req[c].n \in Nat
      BY <1>0 DEF Requests
    <3> QED BY <3>1, <3>2, <1>0, <2>a, ClosedStep DEF OpenPCs, LockPCs, book
  <2>4. Counts'
    <3>1. Granted' = Granted \union {c} /\ c \notin Granted /\ Granted \in SUBSET Callers
      BY <1>0, <2>a, CallersIn DEF Granted
    <3>2. Cardinality(Granted') = Cardinality(Granted) + 1 /\ Cardinality(Granted) \in Nat
      BY <3>1, CallersFinite, FS_AddElement
    <3>3. Cardinality(Attempts(Tasks)) \in Nat /\ calls[Root] \in Nat
      BY <1>0, FS_CardinalityType DEF GatewayInv, Counts, Types
    <3>4. Attempts(Tasks)' = Attempts(Tasks)
      BY <2>a DEF Attempts, book
    <3>5. calls'[Root] = calls[Root] + 1 /\ \A t \in Branches : calls'[t] = calls[t]
      BY <1>0, <2>a DEF Types, Tasks
    <3>6. calls[Root] = Cardinality(Attempts(Tasks)) + Cardinality(Granted)
      BY DEF GatewayInv, Counts
    <3>7. calls'[Root] = Cardinality(Attempts(Tasks)) + Cardinality(Granted')
      BY <3>2, <3>3, <3>5, <3>6
    <3>8. calls'[Root] <= MaxModelCalls
      BY <1>2, <3>3, <3>5
    <3> QED BY <3>4, <3>5, <3>7, <3>8, <2>a DEF GatewayInv, Counts, book
  <2>5. Usages'
    BY <1>0, <2>a, UsagesKept DEF GatewayInv, OwnPCs, RootPCs, book
  <2>6. Marked'
    BY <1>0, <2>a DEF GatewayInv, Marked, Others, env, book
  <2>7. Overshoot'
    BY <1>0, <2>a, MarginKept DEF GatewayInv, CommittedPCs, LockPCs
  <2> QED BY <2>1, <2>2, <2>3, <2>4, <2>5, <2>6, <2>7 DEF GatewayInv
<1>3. calls[Root] \in Nat /\ MaxModelCalls \in Nat
  BY <1>0 DEF Types
<1> QED BY <1>1, <1>2, <1>3

\* The record of the attempt is made, and the section ends.
LEMMA ReserveEndInv ==
    ASSUME GatewayInv, NEW c \in Callers, ReserveEnd(c)
    PROVE  GatewayInv'
<1> USE TaskAssumption, QuotaAssumption
<1> DEFINE t == TaskOf[c]
           L == Len(audits[t])
           e == [caller |-> c, n |-> req[c].n, settled |-> FALSE, failed |-> FALSE, usage |-> 0, output |-> FALSE]
           r == [req[c] EXCEPT !.index = L + 1, !.output = FALSE, !.usage = 0, !.result = "none"]
<1>0. Types /\ req[c] \in Requests /\ t \in Tasks /\ pc[c] = "granted" /\ Root \in Tasks /\ audits[t] \in Seq(Records)
  BY DEF GatewayInv, Types, ReserveEnd, Tasks
<1>1. L \in Nat /\ e \in Records /\ req[c].n \in Nat /\ req[c].size \in Nat /\ req[c].retry \in 0..MaxRetries
  BY <1>0 DEF Records, Requests
<1>2. r \in Requests /\ r.n = req[c].n /\ r.size = req[c].size /\ r.retry = req[c].retry /\ r.index = L + 1
  <2>1. L + 1 \in Nat /\ 0 \in 0..MaxUsage
    BY <1>1
  <2>2. ASSUME NEW k \in Nat
        PROVE  [req[c] EXCEPT !.index = k, !.output = FALSE, !.usage = 0, !.result = "none"] \in Requests
    BY <1>0, <2>1 DEF Requests
  <2>3. r \in Requests
    BY <2>1, <2>2
  <2> QED BY <2>3, <1>0 DEF Requests
<1>3. /\ Others(c) /\ pc'[c] = "stream" /\ pc' = [pc EXCEPT ![c] = "stream"]
      /\ req' = [req EXCEPT ![c] = r] /\ req'[c] = r
  BY <1>0 DEF ReserveEnd, Go, Types, Others
<1>4. /\ audits' = [audits EXCEPT ![t] = Append(@, e)]
      /\ reserved' = [reserved EXCEPT ![t] = @ + req[c].size]
      /\ locked' = [locked EXCEPT ![t] = "none"]
      /\ calls' = IF t = Root THEN calls ELSE [calls EXCEPT ![t] = @ + 1]
      /\ tokens' = tokens /\ incomplete' = incomplete /\ cancelled' = cancelled /\ late' = late
  BY DEF ReserveEnd, env
<1>5. reserved[t] + req[c].size \in 0..AuditCap
  BY <1>0, <1>1 DEF GatewayInv, Sections, LockPCs, Types
<1>6. /\ \A u \in Tasks \ {t} : audits'[u] = audits[u]
      /\ DOMAIN audits'[t] = 1..(L + 1) /\ Len(audits'[t]) = L + 1 /\ audits'[t][L + 1] = e
      /\ DOMAIN audits[t] = 1..L /\ \A i \in 1..L : audits'[t][i] = audits[t][i]
      /\ audits'[t] \in Seq(Records)
  <2>1. audits'[t] = Append(audits[t], e) /\ \A u \in Tasks \ {t} : audits'[u] = audits[u]
    BY <1>0, <1>4 DEF Types
  <2> HIDE DEF e
  <2> QED BY <2>1, <1>0, <1>1
<1>7. \A i \in 1..(L + 1) : i \in 1..L \/ i = L + 1
  BY <1>1
<1>8. \A u \in Tasks : \A i \in DOMAIN audits'[u] :
        (i \in DOMAIN audits[u] /\ audits'[u][i] = audits[u][i]) \/ (u = t /\ i = L + 1 /\ audits'[u][i] = e)
  <2>1. ASSUME NEW u \in Tasks, NEW i, i \in DOMAIN audits'[u]
        PROVE  (i \in DOMAIN audits[u] /\ audits'[u][i] = audits[u][i]) \/ (u = t /\ i = L + 1 /\ audits'[u][i] = e)
    <3>1. CASE u = t
      <4>1. i \in 1..(L + 1)
        BY <2>1, <3>1, <1>6
      <4>2. i \in 1..L \/ i = L + 1
        BY <4>1, <1>7
      <4>3. audits'[u] = audits'[t] /\ audits[u] = audits[t]
        BY <3>1
      <4> HIDE DEF t
      <4> QED BY <4>2, <4>3, <3>1, <1>6, Zenon
    <3>2. CASE u # t
      <4>1. audits'[u] = audits[u]
        BY <3>2, <1>6
      <4> QED BY <4>1, <2>1
    <3> QED BY <3>1, <3>2
  <2> QED BY <2>1
<1>9. /\ \A u \in Tasks : \A i \in DOMAIN audits[u] : audits[u][i] \in Records
      /\ \A u \in Tasks : \A i \in DOMAIN audits[u] : i \in DOMAIN audits'[u] /\ audits'[u][i] = audits[u][i]
  <2>1. \A u \in Tasks : audits[u] \in Seq(Records)
    BY <1>0 DEF Types
  <2>2. \A u \in Tasks : \A i \in DOMAIN audits[u] : audits[u][i] \in Records
    BY <2>1
  <2>3. ASSUME NEW u \in Tasks, NEW i \in DOMAIN audits[u]
        PROVE  i \in DOMAIN audits'[u] /\ audits'[u][i] = audits[u][i]
    <3>1. CASE u = t
      <4>1. i \in 1..L /\ i \in 1..(L + 1)
        BY <3>1, <1>6, <1>1
      <4> QED BY <4>1, <3>1, <1>6
    <3>2. CASE u # t
      BY <3>2, <1>6
    <3> QED BY <3>1, <3>2
  <2> QED BY <2>2, <2>3
<1>b. /\ e.caller = c /\ e.n = req[c].n /\ ~e.settled /\ ~e.failed /\ e.usage = 0
      /\ e.output = FALSE
  OBVIOUS
<1> HIDE DEF r, e, L
<1>10. Types'
  <2>1. audits' \in [Tasks -> Seq(Records)]
    BY <1>0, <1>4, <1>6 DEF Types
  <2>2. calls' \in [Tasks -> Nat] /\ reserved' \in [Tasks -> 0..AuditCap] /\ locked' \in [Tasks -> Callers \union {"none"}]
    BY <1>0, <1>4, <1>5 DEF Types
  <2> QED BY <1>0, <1>2, <1>3, <1>4, <2>1, <2>2 DEF Types, OpenPCs, LockPCs
<1>11. Sections'
  <2>1. pc[c] \in LockPCs /\ pc'[c] \notin LockPCs
    BY <1>0, <1>3 DEF LockPCs
  <2>2. /\ \A u \in Tasks, d \in Callers : locked'[u] = d <=> (TaskOf[d] = u /\ pc'[d] \in LockPCs)
        /\ \A d \in Callers : TaskOf[d] = t => pc'[d] \notin LockPCs
    BY <2>1, <1>0, <1>3, <1>4, SectionEnds DEF GatewayInv
  <2>3. ASSUME NEW d \in Callers, pc'[d] \in LockPCs PROVE reserved'[TaskOf[d]] + req'[d].size <= AuditCap
    <3>1. TaskOf[d] # t /\ d # c
      BY <2>1, <2>2, <2>3
    <3>2. reserved'[TaskOf[d]] = reserved[TaskOf[d]] /\ req'[d] = req[d] /\ pc'[d] = pc[d]
      BY <3>1, <1>0, <1>3, <1>4 DEF Others, Types
    <3> QED BY <3>2, <2>3 DEF GatewayInv, Sections
  <2>4. \A d \in Callers : pc'[d] # "idle" => req'[d].size \in Sizes /\ req'[d].n \in 1..MaxRequests
    BY <1>0, <1>2, <1>3 DEF GatewayInv, Sections, Others
  <2> QED BY <2>2, <2>3, <2>4 DEF Sections
<1>12. Attempting'
  <2>1. ASSUME NEW u \in Tasks, NEW i \in DOMAIN audits'[u]
        PROVE  /\ TaskOf[audits'[u][i].caller] = u /\ audits'[u][i].n <= req'[audits'[u][i].caller].n
               /\ ~audits'[u][i].settled =>
                   /\ audits'[u][i].usage = 0 /\ ~audits'[u][i].failed
                   /\ pc'[audits'[u][i].caller] \in OpenPCs /\ req'[audits'[u][i].caller].index = i
    <3>1. CASE u = t /\ i = L + 1 /\ audits'[u][i] = e
      BY <3>1, <1>b, <1>1, <1>2, <1>3 DEF OpenPCs
    <3>2. CASE i \in DOMAIN audits[u] /\ audits'[u][i] = audits[u][i]
      <4> DEFINE d == audits[u][i].caller
      <4>1. /\ TaskOf[d] = u /\ audits[u][i].n <= req[d].n
            /\ ~audits[u][i].settled =>
                /\ audits[u][i].usage = 0 /\ ~audits[u][i].failed
                /\ pc[d] \in OpenPCs /\ req[d].index = i
        BY <3>2 DEF GatewayInv, Attempting
      <4>2. d \in Callers /\ pc[c] \notin OpenPCs
        BY <3>2, <1>0, <1>9 DEF Records, OpenPCs
      <4>3. req'[d].n = req[d].n
        BY <4>2, <1>2, <1>3 DEF Others
      <4>4. d # c => pc'[d] = pc[d] /\ req'[d] = req[d]
        BY <4>2, <1>3 DEF Others
      <4> HIDE DEF d
      <4>5. d = c => audits[u][i].settled
        BY <4>1, <4>2
      <4>6. /\ TaskOf[d] = u /\ audits[u][i].n <= req'[d].n
            /\ ~audits[u][i].settled =>
                /\ audits[u][i].usage = 0 /\ ~audits[u][i].failed
                /\ pc'[d] \in OpenPCs /\ req'[d].index = i
        BY <4>1, <4>3, <4>4, <4>5
      <4> QED BY <4>6, <3>2 DEF d
    <3> QED BY <3>1, <3>2, <1>8
  <2>2. ASSUME NEW d \in Callers, pc'[d] \in OpenPCs
        PROVE  /\ req'[d].index \in DOMAIN audits'[TaskOf[d]]
               /\ LET a == audits'[TaskOf[d]][req'[d].index] IN ~a.settled /\ a.caller = d /\ a.n = req'[d].n
    <3>1. CASE d = c
      BY <3>1, <1>b, <1>1, <1>2, <1>3, <1>6
    <3>2. CASE d # c
      <4>1. pc'[d] = pc[d] /\ req'[d] = req[d]
        BY <3>2, <1>3 DEF Others
      <4>2. /\ req[d].index \in DOMAIN audits[TaskOf[d]]
            /\ LET a == audits[TaskOf[d]][req[d].index] IN ~a.settled /\ a.caller = d /\ a.n = req[d].n
        BY <4>1, <2>2 DEF GatewayInv, Attempting, Current
      <4> QED BY <4>1, <4>2, <1>9
    <3> QED BY <3>1, <3>2
  <2>3. \A d \in Callers : pc'[d] \in {"rollup", "markup"} => TaskOf[d] # Root
    BY <1>3 DEF GatewayInv, Attempting, Others
  <2> QED BY <2>1, <2>2, <2>3 DEF Attempting, Current
<1>13. /\ Mine(c, req[c].n)' = Mine(c, req[c].n) \union {L + 1} /\ L + 1 \notin Mine(c, req[c].n)
       /\ \A n : \A d \in Callers : d # c \/ n # req[c].n => Mine(d, n)' = Mine(d, n)
  <2>1. Mine(c, req[c].n)' = Mine(c, req[c].n) \union {L + 1}
    BY <1>b, <1>2, <1>3, <1>6, <1>7, <1>1 DEF Mine
  <2>2. L + 1 \notin Mine(c, req[c].n)
    BY <1>1, <1>6 DEF Mine
  <2>3. ASSUME NEW d \in Callers, NEW n, d # c \/ n # req[c].n PROVE Mine(d, n)' = Mine(d, n)
    BY <2>3, <1>b, <1>8, <1>9 DEF Mine
  <2> QED BY <2>1, <2>2, <2>3
<1>14. Retries'
  <2>1. \A i \in Mine(c, req[c].n) : audits[t][i].failed /\ ~audits[t][i].output
    BY <1>0 DEF GatewayInv, Retries, LockPCs
  <2>2. ASSUME NEW d \in Callers, pc'[d] \in {"loop", "wait"} \union LockPCs
        PROVE  \A i \in Mine(d, req[d].n)' : audits'[TaskOf[d]][i].failed /\ ~audits'[TaskOf[d]][i].output
    <3>1. d # c
      BY <2>2, <1>3 DEF LockPCs
    <3>2. pc'[d] = pc[d] /\ req'[d] = req[d]
      BY <3>1, <1>3 DEF Others
    <3>3. \A i \in Mine(d, req[d].n) : audits[TaskOf[d]][i].failed /\ ~audits[TaskOf[d]][i].output
      BY <3>2, <2>2 DEF GatewayInv, Retries
    <3>4. Mine(d, req[d].n)' = Mine(d, req[d].n)
      BY <3>1, <3>2, <1>b, <1>8, <1>9 DEF Mine
    <3> QED BY <3>3, <3>4, <1>9 DEF Mine
  <2>3. ASSUME NEW u \in Tasks, NEW i \in DOMAIN audits'[u], NEW j \in DOMAIN audits'[u], i < j,
               audits'[u][i].caller = audits'[u][j].caller, audits'[u][i].n = audits'[u][j].n
        PROVE  ~audits'[u][i].output /\ audits'[u][i].failed
    <3>1. i \in DOMAIN audits[u] /\ audits'[u][i] = audits[u][i]
      <4>1. CASE u = t
        BY <4>1, <2>3, <1>6, <1>7, <1>1
      <4>2. CASE u # t
        BY <4>2, <1>6
      <4> QED BY <4>1, <4>2
    <3>2. CASE j \in DOMAIN audits[u] /\ audits'[u][j] = audits[u][j]
      BY <3>1, <3>2, <2>3 DEF GatewayInv, Retries
    <3>3. CASE u = t /\ audits'[u][j] = e
      <4>1. i \in Mine(c, req[c].n)
        BY <3>1, <3>3, <2>3, <1>b DEF Mine
      <4> QED BY <4>1, <2>1, <3>1, <3>3
    <3> QED BY <3>2, <3>3, <1>8
  <2> QED BY <2>2, <2>3 DEF Retries
<1>15. Tries'
  <2>0. Tries
    BY DEF GatewayInv
  <2>1. Cardinality(Mine(c, req[c].n)) <= req[c].retry /\ Cardinality(Mine(c, req[c].n)) \in Nat
        /\ IsFiniteSet(Mine(c, req[c].n))
    BY <1>0, <2>0, MineFinite DEF Tries, LockPCs
  <2>2. Cardinality(Mine(c, req[c].n) \union {L + 1}) = Cardinality(Mine(c, req[c].n)) + 1
    BY <2>1, <1>13, FS_AddElement
  <2>3. Mine(c, req[c].n)' = Mine(c, req[c].n) \union {L + 1}
    BY <1>13
  <2>4. Cardinality(Mine(c, req[c].n))' <= req'[c].retry + 1 /\ req'[c].retry <= MaxRetries /\ req'[c].retry \in Nat
    BY <2>1, <2>2, <2>3, <1>1, <1>2, <1>3
  <2>5. ASSUME NEW d \in Callers, NEW n \in Nat PROVE Cardinality(Mine(d, n))' <= MaxRetries + 1
    <3>1. CASE d # c \/ n # req[c].n
      BY <3>1, <1>13, <2>0 DEF Tries
    <3>2. CASE d = c /\ n = req[c].n
      <4>1. Mine(d, n)' = Mine(c, req[c].n) \union {L + 1}
        BY <3>2, <1>b, <1>2, <1>3, <1>6, <1>7, <1>1 DEF Mine
      <4> QED BY <4>1, <2>1, <2>2, <1>1
    <3> QED BY <3>1, <3>2
  <2>6. ASSUME NEW d \in Callers
        PROVE  /\ pc'[d] \in {"loop"} \union LockPCs => Cardinality(Mine(d, req[d].n))' <= req'[d].retry
               /\ pc'[d] = "wait" => req'[d].retry < MaxRetries /\ Cardinality(Mine(d, req[d].n))' <= req'[d].retry + 1
               /\ pc'[d] \in OpenPCs => Cardinality(Mine(d, req[d].n))' <= req'[d].retry + 1
    <3>1. CASE d = c
      BY <3>1, <2>4, <1>3 DEF LockPCs
    <3>2. CASE d # c
      <4>1. pc'[d] = pc[d] /\ req'[d] = req[d]
        BY <3>2, <1>3 DEF Others
      <4>2. Mine(d, req[d].n)' = Mine(d, req[d].n)
        BY <3>2, <4>1, <1>b, <1>8, <1>9 DEF Mine
      <4> QED BY <4>1, <4>2, <2>0 DEF Tries
    <3> QED BY <3>1, <3>2
  <2> QED BY <2>5, <2>6 DEF Tries
<1>16. Counts'
  <2>0. Counts
    BY DEF GatewayInv
  <2>1. Granted' = Granted \ {c} /\ c \in Granted /\ Granted \in SUBSET Callers
    BY <1>0, <1>3, CallersIn DEF Granted
  <2>2. Cardinality(Granted') = Cardinality(Granted) - 1 /\ Cardinality(Granted) \in Nat
    BY <2>1, CallersFinite, FS_RemoveElement
  <2>3. Attempts(Tasks)' = Attempts(Tasks) \union {<<t, L + 1>>}
    <3>1. ASSUME NEW a \in Attempts(Tasks)' PROVE a \in Attempts(Tasks) \union {<<t, L + 1>>}
      <4>1. PICK u \in Tasks : \E i \in DOMAIN audits'[u] : a = <<u, i>>
        BY <3>1 DEF Attempts
      <4> QED BY <4>1, <1>8 DEF Attempts
    <3>2. ASSUME NEW a \in Attempts(Tasks) PROVE a \in Attempts(Tasks)'
      <4>1. PICK u \in Tasks : \E i \in DOMAIN audits[u] : a = <<u, i>>
        BY <3>2 DEF Attempts
      <4> QED BY <4>1, <1>9 DEF Attempts
    <3>3. L + 1 \in DOMAIN audits'[t]
      BY <1>1, <1>6
    <3>4. <<t, L + 1>> \in Attempts(Tasks)'
      BY <3>3, <1>0 DEF Attempts
    <3> QED BY <3>1, <3>2, <3>4
  <2>4. <<t, L + 1>> \notin Attempts(Tasks)
    BY <1>6, <1>1 DEF Attempts
  <2>5. /\ IsFiniteSet(Attempts(Tasks)') /\ Cardinality(Attempts(Tasks)') = Cardinality(Attempts(Tasks)) + 1
        /\ Cardinality(Attempts(Tasks)) \in Nat
    BY <2>0, <2>3, <2>4, FS_AddElement, FS_CardinalityType DEF Counts
  <2>6. calls'[Root] = calls[Root] /\ \A u \in Branches : calls'[u] = IF u = t THEN calls[u] + 1 ELSE calls[u]
    BY <1>0, <1>4 DEF Types, Tasks
  <2>7. \A u \in Branches : calls'[u] = Len(audits'[u])
    BY <2>0, <2>6, <1>6 DEF Counts, Tasks, L
  <2>8. calls[Root] = Cardinality(Attempts(Tasks)) + Cardinality(Granted) /\ calls[Root] <= MaxModelCalls
    BY <2>0 DEF Counts
  <2>9. calls'[Root] = Cardinality(Attempts(Tasks)') + Cardinality(Granted')
    BY <2>2, <2>5, <2>6, <2>8
  <2> QED BY <2>5, <2>6, <2>7, <2>8, <2>9 DEF Counts
<1>17. Usages'
  <2>1. ASSUME NEW T \in SUBSET Tasks PROVE Reported(T)' = Reported(T)
    <3>1. ASSUME NEW z \in Reported(T)' PROVE z \in Reported(T)
      <4>0. PICK u \in T : \E i \in DOMAIN audits'[u] : \E k \in 1..audits'[u][i].usage : z = <<<<u, i>>, k>>
        BY <3>1 DEF Reported, Attempts
      <4>1. PICK i \in DOMAIN audits'[u] : \E k \in 1..audits'[u][i].usage : z = <<<<u, i>>, k>>
        BY <4>0
      <4>2. i \in DOMAIN audits[u] /\ audits'[u][i] = audits[u][i]
        BY <4>1, <1>8, <1>b
      <4> QED BY <4>1, <4>2 DEF Reported, Attempts
    <3>2. ASSUME NEW z \in Reported(T) PROVE z \in Reported(T)'
      <4>0. PICK u \in T : \E i \in DOMAIN audits[u] : \E k \in 1..audits[u][i].usage : z = <<<<u, i>>, k>>
        BY <3>2 DEF Reported, Attempts
      <4>1. PICK i \in DOMAIN audits[u] : \E k \in 1..audits[u][i].usage : z = <<<<u, i>>, k>>
        BY <4>0
      <4>2. i \in DOMAIN audits'[u] /\ audits'[u][i] = audits[u][i]
        BY <4>1, <1>9
      <4> QED BY <4>1, <4>2 DEF Reported, Attempts
    <3> QED BY <3>1, <3>2
  <2>2. AtRoot' = AtRoot /\ \A u : AtOwn(u)' = AtOwn(u)
    BY <1>0, <1>3, CallersIn DEF AtRoot, AtOwn, OwnPCs, RootPCs
  <2>3. \A d \in Callers : pc[d] \in OwnPCs \union RootPCs => req'[d] = req[d]
    BY <1>0, <1>3 DEF Others, OwnPCs, RootPCs
  <2>4. \A C \in SUBSET Callers : (\A d \in C : pc[d] \in OwnPCs \union RootPCs) => Units(C, OnRequest') = Units(C, OnRequest)
    BY <2>3 DEF Units, OnRequest
  <2>5. Recorded(AtRoot)' = Recorded(AtRoot)
    BY <2>2, <2>4 DEF Recorded, AtRoot
  <2>6. \A u : Recorded(AtOwn(u))' = Recorded(AtOwn(u))
    BY <2>2, <2>4 DEF Recorded, AtOwn
  <2>7. Reported(Tasks)' = Reported(Tasks) /\ \A u \in Branches : Reported({u})' = Reported({u})
    BY <2>1 DEF Tasks
  <2> QED BY <2>5, <2>6, <2>7, <1>4 DEF GatewayInv, Usages
<1>18. Marked'
  <2>1. \A d \in Callers : d # c => pc'[d] = pc[d] /\ req'[d] = req[d]
    BY <1>3 DEF Others
  <2>2. \A d \in Callers :
        /\ pc'[d] \in {"record", "rollup"} /\ req'[d].result = "dropped" => req'[d].usage = 0
        /\ pc'[d] \in {"mark", "markup", "settle"} /\ req'[d].usage = 0 => incomplete[Root]
        /\ pc'[d] \in {"record", "rollup"} => req'[d].result # "none"
        /\ pc'[d] = "settle" /\ req'[d].result # "reply" => incomplete[Root]
    BY <2>1, <1>3 DEF GatewayInv, Marked
  <2>3. ASSUME ~incomplete[Root], NEW u \in Tasks, NEW i \in DOMAIN audits'[u], audits'[u][i].settled
        PROVE /\ audits'[u][i].usage > 0
              /\ audits'[u][i].failed => late \/ \E w \in Tasks : cancelled[w] \/ tokens[w] >= MaxTokens
    <3>1. i \in DOMAIN audits[u] /\ audits'[u][i] = audits[u][i]
      BY <2>3, <1>8, <1>b
    <3> QED BY <3>1, <2>3 DEF GatewayInv, Marked
  <2> QED BY <2>2, <2>3, <1>4 DEF Marked
<1>19. Overshoot'
  BY <1>0, <1>3, <1>4, MarginKept DEF GatewayInv, CommittedPCs, LockPCs
<1> QED BY <1>10, <1>11, <1>12, <1>14, <1>15, <1>16, <1>17, <1>18, <1>19 DEF GatewayInv
\* The usage of an attempt is recorded on its task: on the root's account, or on a branch's.
LEMMA RecordOwnInv ==
    ASSUME GatewayInv, NEW c \in Callers, RecordOwn(c)
    PROVE  GatewayInv'
<1> USE TaskAssumption, QuotaAssumption
<1> DEFINE t == TaskOf[c]
           u == req[c].usage
<1>0. Types /\ t \in Tasks /\ pc[c] = "record" /\ Root \in Tasks /\ u \in 0..MaxUsage /\ u \in Nat
  <2>1. Types /\ pc[c] = "record"
    BY DEF GatewayInv, RecordOwn
  <2>2. u \in 0..MaxUsage
    BY <2>1 DEF Types, Requests
  <2> QED BY <2>1, <2>2 DEF Tasks
<1>1. /\ Others(c) /\ req' = req /\ pc'[c] \in {"rollup", "mark", "settle"}
      /\ pc' \in [Callers -> {"idle", "loop", "wait"} \union LockPCs \union OpenPCs]
      /\ pc'[c] = "rollup" <=> t # Root
      /\ pc'[c] = "settle" => req[c].result \notin {"retryable", "fatal"}
  BY <1>0 DEF RecordOwn, AfterRecord, Go, Types, Others, OpenPCs
<1>2. /\ tokens' = [tokens EXCEPT ![t] = @ + u]
      /\ incomplete' = IF u = 0 THEN [incomplete EXCEPT ![t] = TRUE] ELSE incomplete
      /\ calls' = calls /\ audits' = audits /\ reserved' = reserved /\ locked' = locked
      /\ cancelled' = cancelled /\ late' = late
  BY DEF RecordOwn, Counted, book, env
<1>3. \A w \in Tasks : /\ tokens'[w] = IF w = t THEN tokens[w] + u ELSE tokens[w]
                       /\ tokens[w] \in Nat /\ tokens'[w] \in Nat /\ tokens'[w] >= tokens[w]
                       /\ incomplete'[w] <=> (incomplete[w] \/ (w = t /\ u = 0))
  <2> HIDE DEF u
  <2>1. \A w \in Tasks : /\ tokens'[w] = IF w = t THEN tokens[w] + u ELSE tokens[w]
                         /\ tokens[w] \in Nat /\ tokens'[w] \in Nat /\ tokens'[w] >= tokens[w]
    BY <1>0, <1>2 DEF Types
  <2>2. \A w \in Tasks : incomplete'[w] <=> (incomplete[w] \/ (w = t /\ u = 0))
    BY <1>0, <1>2 DEF Types
  <2> QED BY <2>1, <2>2
<1>a. incomplete' \in [Tasks -> BOOLEAN] /\ tokens' \in [Tasks -> Nat]
  BY SMTT(30), <1>0, <1>2 DEF Types
<1>4. Types'
  BY <1>0, <1>1, <1>2, <1>a DEF Types
<1>5. Sections' /\ Attempting' /\ Retries' /\ Tries' /\ Counts'
  BY <1>0, <1>1, <1>2, OpenStep DEF OpenPCs
<1> HIDE DEF u
<1>6. Usages'
  <2>1. Usages
    BY DEF GatewayInv
  <2>2. \A T : Reported(T)' = Reported(T)
    BY <1>2 DEF Reported, Attempts
  <2>3. OnRequest' = OnRequest
    BY <1>1 DEF OnRequest
  <2>4. CASE t = Root
    <3>1. \A w \in Branches : AtOwn(w)' = AtOwn(w) /\ tokens'[w] = tokens[w]
      BY <2>4, <1>1, <1>3, CallersIn DEF AtOwn, Tasks
    <3>2. \A w \in Branches : Recorded(AtOwn(w))' = Recorded(AtOwn(w))
      BY <3>1, <2>3 DEF Recorded
    <3>3. pc[c] \notin RootPCs /\ pc'[c] \in RootPCs
      BY <2>4, <1>0, <1>1 DEF RootPCs
    <3>4. IsFiniteSet(Recorded(AtRoot)') /\ Cardinality(Recorded(AtRoot)') = Cardinality(Recorded(AtRoot)) + u
      BY <3>3, <2>1, <1>0, <1>1, RootRecorded DEF u
    <3>5. Cardinality(Reported(Tasks)) \in Nat /\ Cardinality(Recorded(AtRoot)) \in Nat
      BY <2>1, FS_CardinalityType DEF Usages
    <3>6. tokens[Root] = Cardinality(Reported(Tasks)) + Cardinality(Recorded(AtRoot))
      BY <2>1 DEF Usages
    <3>7. tokens'[Root] = Cardinality(Reported(Tasks)) + Cardinality(Recorded(AtRoot)')
      BY <3>4, <3>5, <3>6, <2>4, <1>0, <1>3
    <3>8. Reported(Tasks)' = Reported(Tasks) /\ \A w : Reported({w})' = Reported({w})
      BY <2>2
    <3> QED BY <3>1, <3>2, <3>4, <3>7, <3>8, <2>1 DEF Usages
  <2>5. CASE t # Root
    <3>1. t \in Branches /\ pc[c] \notin OwnPCs /\ pc'[c] \in OwnPCs /\ pc'[c] = "rollup"
      BY <2>5, <1>0, <1>1 DEF OwnPCs, Tasks
    <3>2. AtRoot' = AtRoot
      BY <3>1, <1>0, <1>1, CallersIn DEF AtRoot, RootPCs
    <3>3. Recorded(AtRoot)' = Recorded(AtRoot)
      BY <3>2, <2>3 DEF Recorded
    <3>4. IsFiniteSet(Recorded(AtOwn(t))') /\ Cardinality(Recorded(AtOwn(t))') = Cardinality(Recorded(AtOwn(t))) + u
      BY <3>1, <2>1, <1>0, <1>1, OwnRecorded DEF u
    <3>5. \A w \in Branches \ {t} : AtOwn(w)' = AtOwn(w) /\ tokens'[w] = tokens[w]
      BY <1>1, <1>3, CallersIn DEF AtOwn, Tasks
    <3>6. \A w \in Branches \ {t} : Recorded(AtOwn(w))' = Recorded(AtOwn(w))
      BY <3>5, <2>3 DEF Recorded
    <3>7. Reported(Tasks)' = Reported(Tasks) /\ \A w : Reported({w})' = Reported({w})
      BY <2>2
    <3>8. tokens'[Root] = tokens[Root]
      BY <2>5, <1>0, <1>3
    <3>9. Cardinality(Reported({t})) \in Nat /\ Cardinality(Recorded(AtOwn(t))) \in Nat
          /\ tokens[t] = Cardinality(Reported({t})) + Cardinality(Recorded(AtOwn(t)))
      BY <3>1, <2>1, FS_CardinalityType DEF Usages
    <3>10. tokens'[t] = Cardinality(Reported({t})) + Cardinality(Recorded(AtOwn(t))')
      BY <3>4, <3>9, <1>0, <1>3
    <3>11. ASSUME NEW w \in Branches
           PROVE  /\ IsFiniteSet(Reported({w})') /\ IsFiniteSet(Recorded(AtOwn(w))')
                  /\ tokens'[w] = Cardinality(Reported({w})') + Cardinality(Recorded(AtOwn(w))')
      <4>1. CASE w = t
        BY <4>1, <3>4, <3>7, <3>10, <2>1 DEF Usages
      <4>2. CASE w # t
        BY <4>2, <3>5, <3>6, <3>7, <2>1 DEF Usages
      <4> QED BY <4>1, <4>2
    <3> QED BY <3>3, <3>7, <3>8, <3>11, <2>1 DEF Usages
  <2> QED BY <2>4, <2>5
<1>7. Marked'
  <2>0. Marked
    BY DEF GatewayInv
  <2>1. \A d \in Callers : d # c => pc'[d] = pc[d]
    BY <1>1 DEF Others
  <2>2. incomplete[Root] => incomplete'[Root]
    BY <1>0, <1>3
  <2>3. req[c].result # "none" /\ (req[c].result = "dropped" => u = 0)
    BY <2>0, <1>0 DEF Marked, u
  <2>4. pc'[c] \in {"mark", "settle"} /\ u = 0 => incomplete'[Root]
    BY <1>0, <1>1, <1>3
  <2>5. req[c].result \in {"none", "reply", "retryable", "fatal", "dropped"}
    BY <1>0 DEF Types, Requests
  <2>6. ASSUME NEW d \in Callers
        PROVE  /\ pc'[d] \in {"record", "rollup"} /\ req[d].result = "dropped" => req[d].usage = 0
               /\ pc'[d] \in {"mark", "markup", "settle"} /\ req[d].usage = 0 => incomplete'[Root]
               /\ pc'[d] \in {"record", "rollup"} => req[d].result # "none"
               /\ pc'[d] = "settle" /\ req[d].result # "reply" => incomplete'[Root]
    <3>1. CASE d = c
      BY <3>1, <1>1, <2>3, <2>4, <2>5 DEF u
    <3>2. CASE d # c
      BY <3>2, <2>0, <2>1, <2>2 DEF Marked
    <3> QED BY <3>1, <3>2
  <2>7. ~incomplete'[Root] => \A w \in Tasks : \A i \in DOMAIN audits[w] : audits[w][i].settled =>
          /\ audits[w][i].usage > 0
          /\ audits[w][i].failed => late \/ \E v \in Tasks : cancelled[v] \/ tokens'[v] >= MaxTokens
    <3>1. \A v \in Tasks : tokens[v] >= MaxTokens => tokens'[v] >= MaxTokens
      BY <1>3
    <3> QED BY <3>1, <2>0, <2>2 DEF Marked
  <2> QED BY <2>6, <2>7, <1>1, <1>2 DEF Marked
<1>8. Overshoot'
  <2>1. CASE t = Root
    <3>1. pc[c] \in CommittedPCs /\ pc'[c] \notin CommittedPCs /\ tokens'[Root] = tokens[Root] + req[c].usage
      BY <2>1, <1>0, <1>1, <1>3 DEF CommittedPCs, LockPCs, u
    <3> QED BY <3>1, <1>0, <1>1, MarginSpent DEF GatewayInv
  <2>2. CASE t # Root
    <3>1. pc[c] \in CommittedPCs /\ tokens'[Root] = tokens[Root]
      BY <2>2, <1>0, <1>3 DEF CommittedPCs
    <3> QED BY <3>1, <1>0, <1>1, MarginKept DEF GatewayInv
  <2> QED BY <2>1, <2>2
<1> QED BY <1>4, <1>5, <1>6, <1>7, <1>8 DEF GatewayInv

\* And the usage of a branch's attempt on the root's account.
LEMMA RecordParentInv ==
    ASSUME GatewayInv, NEW c \in Callers, RecordParent(c)
    PROVE  GatewayInv'
<1> USE TaskAssumption, QuotaAssumption
<1> DEFINE u == req[c].usage
<1>0. Types /\ TaskOf[c] # Root /\ pc[c] = "rollup" /\ Root \in Tasks /\ u \in 0..MaxUsage /\ u \in Nat
  <2>1. Types /\ pc[c] = "rollup" /\ TaskOf[c] # Root
    BY DEF GatewayInv, RecordParent, Attempting
  <2>2. u \in 0..MaxUsage
    BY <2>1 DEF Types, Requests
  <2> QED BY <2>1, <2>2 DEF Tasks
<1>1. /\ Others(c) /\ req' = req /\ pc'[c] \in {"mark", "settle"}
      /\ pc' \in [Callers -> {"idle", "loop", "wait"} \union LockPCs \union OpenPCs]
      /\ pc'[c] = "settle" => req[c].result \notin {"retryable", "fatal"}
  BY <1>0 DEF RecordParent, AfterRecord, Go, Types, Others, OpenPCs
<1>2. /\ tokens' = [tokens EXCEPT ![Root] = @ + u]
      /\ incomplete' = IF u = 0 THEN [incomplete EXCEPT ![Root] = TRUE] ELSE incomplete
      /\ calls' = calls /\ audits' = audits /\ reserved' = reserved /\ locked' = locked
      /\ cancelled' = cancelled /\ late' = late
  BY DEF RecordParent, Counted, book, env
<1>a. incomplete' \in [Tasks -> BOOLEAN] /\ tokens' \in [Tasks -> Nat]
  BY <1>0, <1>2 DEF Types
<1> HIDE DEF u
<1>3. \A w \in Tasks : /\ tokens'[w] = IF w = Root THEN tokens[w] + u ELSE tokens[w]
                       /\ tokens[w] \in Nat /\ tokens'[w] \in Nat /\ tokens'[w] >= tokens[w]
  BY <1>0, <1>2 DEF Types
<1>4. Types'
  BY <1>0, <1>1, <1>2, <1>a DEF Types
<1>5. Sections' /\ Attempting' /\ Retries' /\ Tries' /\ Counts'
  BY <1>0, <1>1, <1>2, OpenStep DEF OpenPCs
<1>6. Usages'
  <2>1. Usages
    BY DEF GatewayInv
  <2>2. Reported(Tasks)' = Reported(Tasks) /\ \A w : Reported({w})' = Reported({w})
    BY <1>2 DEF Reported, Attempts
  <2>3. OnRequest' = OnRequest
    BY <1>1 DEF OnRequest
  <2>4. \A w \in Branches : AtOwn(w)' = AtOwn(w) /\ tokens'[w] = tokens[w]
    BY <1>0, <1>1, <1>3, CallersIn DEF AtOwn, Tasks, OwnPCs
  <2>5. \A w \in Branches : Recorded(AtOwn(w))' = Recorded(AtOwn(w))
    BY <2>3, <2>4 DEF Recorded
  <2>6. pc[c] \notin RootPCs /\ pc'[c] \in RootPCs
    BY <1>0, <1>1 DEF RootPCs
  <2>7. IsFiniteSet(Recorded(AtRoot)') /\ Cardinality(Recorded(AtRoot)') = Cardinality(Recorded(AtRoot)) + u
    BY <2>1, <2>6, <1>0, <1>1, RootRecorded DEF u
  <2>8. Cardinality(Reported(Tasks)) \in Nat /\ Cardinality(Recorded(AtRoot)) \in Nat
    BY <2>1, FS_CardinalityType DEF Usages
  <2>9. tokens[Root] = Cardinality(Reported(Tasks)) + Cardinality(Recorded(AtRoot))
    BY <2>1 DEF Usages
  <2>10. tokens'[Root] = Cardinality(Reported(Tasks)) + Cardinality(Recorded(AtRoot)')
    BY <2>7, <2>8, <2>9, <1>0, <1>3
  <2> QED BY <2>1, <2>2, <2>4, <2>5, <2>7, <2>10 DEF Usages
<1>7. Marked'
  <2>0. Marked
    BY DEF GatewayInv
  <2>1. \A d \in Callers : d # c => pc'[d] = pc[d]
    BY <1>1 DEF Others
  <2>2. (incomplete[Root] => incomplete'[Root]) /\ (u = 0 => incomplete'[Root])
    BY <1>0, <1>2 DEF Types
  <2>3. req[c].result # "none" /\ (req[c].result = "dropped" => u = 0)
    BY <2>0, <1>0 DEF Marked, u
  <2>5. req[c].result \in {"none", "reply", "retryable", "fatal", "dropped"}
    BY <1>0 DEF Types, Requests
  <2>6. ASSUME NEW d \in Callers
        PROVE  /\ pc'[d] \in {"record", "rollup"} /\ req[d].result = "dropped" => req[d].usage = 0
               /\ pc'[d] \in {"mark", "markup", "settle"} /\ req[d].usage = 0 => incomplete'[Root]
               /\ pc'[d] \in {"record", "rollup"} => req[d].result # "none"
               /\ pc'[d] = "settle" /\ req[d].result # "reply" => incomplete'[Root]
    <3>1. CASE d = c
      BY <3>1, <1>1, <2>2, <2>3, <2>5 DEF u
    <3>2. CASE d # c
      BY <3>2, <2>0, <2>1, <2>2 DEF Marked
    <3> QED BY <3>1, <3>2
  <2>7. ~incomplete'[Root] => \A w \in Tasks : \A i \in DOMAIN audits[w] : audits[w][i].settled =>
          /\ audits[w][i].usage > 0
          /\ audits[w][i].failed => late \/ \E v \in Tasks : cancelled[v] \/ tokens'[v] >= MaxTokens
    <3>1. \A v \in Tasks : tokens[v] >= MaxTokens => tokens'[v] >= MaxTokens
      BY <1>3
    <3> QED BY <3>1, <2>0, <2>2 DEF Marked
  <2> QED BY <2>6, <2>7, <1>1, <1>2 DEF Marked
<1>8. Overshoot'
  <2>1. pc[c] \in CommittedPCs /\ pc'[c] \notin CommittedPCs /\ tokens'[Root] = tokens[Root] + req[c].usage
    BY <1>0, <1>1, <1>3 DEF CommittedPCs, LockPCs, u
  <2> QED BY <2>1, <1>0, <1>1, MarginSpent DEF GatewayInv
<1> QED BY <1>4, <1>5, <1>6, <1>7, <1>8 DEF GatewayInv

\* The attempt is settled: its usage goes from what is recorded to what its entry reports.
LEMMA SettleInv ==
    ASSUME GatewayInv, NEW c \in Callers, Settle(c)
    PROVE  GatewayInv'
<1> USE TaskAssumption, QuotaAssumption
<1> DEFINE t == TaskOf[c]
           i == req[c].index
           old == audits[t][i]
           e == [old EXCEPT !.settled = TRUE, !.failed = ~Success(c), !.usage = req[c].usage, !.output = req[c].output]
<1>0. Types /\ req[c] \in Requests /\ t \in Tasks /\ pc[c] = "settle" /\ Root \in Tasks /\ audits[t] \in Seq(Records)
  BY DEF GatewayInv, Types, Settle, Tasks
<1>1. /\ i \in DOMAIN audits[t] /\ ~old.settled /\ old.caller = c /\ old.n = req[c].n
      /\ old.usage = 0 /\ ~old.failed
  BY <1>0 DEF GatewayInv, Attempting, Current, OpenPCs
<1>2. old \in Records /\ req[c].usage \in Nat /\ req[c].usage \in 0..MaxUsage /\ req[c].output \in BOOLEAN /\ req[c].n \in Nat
  <2>1. old \in Records
    BY <1>0, <1>1
  <2>2. req[c].usage \in 0..MaxUsage /\ req[c].output \in BOOLEAN /\ req[c].n \in Nat
    BY <1>0 DEF Requests
  <2> QED BY <2>1, <2>2
<1>3. /\ e \in Records /\ e.caller = c /\ e.n = req[c].n /\ e.settled /\ e.failed = ~Success(c)
      /\ e.usage = req[c].usage /\ e.output = req[c].output
  <2> DEFINE b == ~Success(c)
  <2>2. b \in BOOLEAN
    BY DEF Success
  <2>3. e = [old EXCEPT !.settled = TRUE, !.failed = b, !.usage = req[c].usage, !.output = req[c].output]
    OBVIOUS
  <2> HIDE DEF old, i, b, e
  <2>4. /\ e \in Records /\ e.caller = old.caller /\ e.n = old.n /\ e.settled /\ e.failed = b
        /\ e.usage = req[c].usage /\ e.output = req[c].output
    BY <2>2, <2>3, <1>2 DEF Records
  <2> QED BY <2>4, <1>1 DEF b
<1>4. /\ audits' = [audits EXCEPT ![t][i] = e] /\ req' = req
      /\ calls' = calls /\ tokens' = tokens /\ incomplete' = incomplete /\ cancelled' = cancelled /\ late' = late
      /\ reserved' = reserved /\ locked' = locked
  BY <1>0, <1>1 DEF Settle, counters, env, Types
<1>5. /\ Others(c) /\ pc'[c] \in {"idle", "wait"}
      /\ pc' \in [Callers -> {"idle", "loop", "wait"} \union LockPCs \union OpenPCs]
      /\ pc'[c] = "wait" => MayRetry(c)
  BY <1>0 DEF Settle, Return, Go, Types, Others
<1> HIDE DEF e
<1>6. /\ \A u \in Tasks \ {t} : audits'[u] = audits[u]
      /\ audits'[t] = [audits[t] EXCEPT ![i] = e]
  BY <1>0, <1>4 DEF Types
<1>7. /\ DOMAIN audits'[t] = DOMAIN audits[t] /\ Len(audits'[t]) = Len(audits[t]) /\ audits'[t][i] = e
      /\ \A j \in DOMAIN audits[t] \ {i} : audits'[t][j] = audits[t][j]
      /\ audits'[t] \in Seq(Records)
  <2> HIDE DEF i
  <2> QED BY <1>0, <1>1, <1>3, <1>6
<1> HIDE DEF i, old
<1>8. \A u \in Tasks :
        /\ DOMAIN audits'[u] = DOMAIN audits[u] /\ Len(audits'[u]) = Len(audits[u])
        /\ \A j \in DOMAIN audits[u] :
              (u = t /\ j = i /\ audits'[u][j] = e) \/ ((u # t \/ j # i) /\ audits'[u][j] = audits[u][j])
  <2>1. ASSUME NEW u \in Tasks
        PROVE  /\ DOMAIN audits'[u] = DOMAIN audits[u] /\ Len(audits'[u]) = Len(audits[u])
               /\ \A j \in DOMAIN audits[u] :
                     (u = t /\ j = i /\ audits'[u][j] = e) \/ ((u # t \/ j # i) /\ audits'[u][j] = audits[u][j])
    <3>1. CASE u = t
      BY <3>1, <1>7
    <3>2. CASE u # t
      <4>1. audits'[u] = audits[u]
        BY <3>2, <1>6
      <4> QED BY <3>2, <4>1
    <3> QED BY <3>1, <3>2
  <2> QED BY <2>1
<1>9. \A u \in Tasks : \A j \in DOMAIN audits[u] :
        /\ audits[u][j] \in Records
        /\ audits'[u][j].caller = audits[u][j].caller /\ audits'[u][j].n = audits[u][j].n
  <2>1. \A u \in Tasks : audits[u] \in Seq(Records)
    BY <1>0 DEF Types
  <2>2. \A u \in Tasks : \A j \in DOMAIN audits[u] : audits[u][j] \in Records
    BY <2>1
  <2> QED BY <2>2, <1>1, <1>3, <1>8 DEF old
<1>10. Types'
  <2>1. audits' \in [Tasks -> Seq(Records)]
    BY <1>0, <1>4, <1>6, <1>7 DEF Types
  <2> QED BY <2>1, <1>0, <1>4, <1>5 DEF Types
<1>11. Sections'
  BY SMTT(30), <1>0, <1>4, <1>5 DEF GatewayInv, Sections, Others, LockPCs
<1>12. Attempting'
  <2>1. ASSUME NEW u \in Tasks, NEW j \in DOMAIN audits'[u]
        PROVE  /\ TaskOf[audits'[u][j].caller] = u /\ audits'[u][j].n <= req[audits'[u][j].caller].n
               /\ ~audits'[u][j].settled =>
                   /\ audits'[u][j].usage = 0 /\ ~audits'[u][j].failed
                   /\ pc'[audits'[u][j].caller] \in OpenPCs /\ req[audits'[u][j].caller].index = j
    <3>0. j \in DOMAIN audits[u]
      BY <1>8
    <3>1. CASE u = t /\ j = i /\ audits'[u][j] = e
      <4>1. req[c].n <= req[c].n
        BY <1>2
      <4> QED BY <3>1, <4>1, <1>3
    <3>2. CASE (u # t \/ j # i) /\ audits'[u][j] = audits[u][j]
      <4> DEFINE d == audits[u][j].caller
      <4>1. /\ TaskOf[d] = u /\ audits[u][j].n <= req[d].n
            /\ ~audits[u][j].settled =>
                /\ audits[u][j].usage = 0 /\ ~audits[u][j].failed
                /\ pc[d] \in OpenPCs /\ req[d].index = j
        BY <3>0 DEF GatewayInv, Attempting
      <4>2. d \in Callers
        BY <3>0, <1>9 DEF Records
      <4>3. d # c => pc'[d] = pc[d]
        BY <4>2, <1>5 DEF Others
      <4> HIDE DEF d
      <4>4. d = c => audits[u][j].settled
        BY <4>1, <3>2 DEF i
      <4>5. /\ TaskOf[d] = u /\ audits[u][j].n <= req[d].n
            /\ ~audits[u][j].settled =>
                /\ audits[u][j].usage = 0 /\ ~audits[u][j].failed
                /\ pc'[d] \in OpenPCs /\ req[d].index = j
        BY <4>1, <4>3, <4>4
      <4> QED BY <4>5, <3>2 DEF d
    <3> QED BY <3>0, <3>1, <3>2, <1>8
  <2>2. ASSUME NEW d \in Callers, pc'[d] \in OpenPCs
        PROVE  /\ req[d].index \in DOMAIN audits'[TaskOf[d]]
               /\ LET a == audits'[TaskOf[d]][req[d].index] IN ~a.settled /\ a.caller = d /\ a.n = req[d].n
    <3>1. d # c /\ pc'[d] = pc[d]
      BY <2>2, <1>5 DEF Others, OpenPCs
    <3>2. /\ req[d].index \in DOMAIN audits[TaskOf[d]]
          /\ LET a == audits[TaskOf[d]][req[d].index] IN ~a.settled /\ a.caller = d /\ a.n = req[d].n
      BY <3>1, <2>2 DEF GatewayInv, Attempting, Current
    <3>3. TaskOf[d] # t \/ req[d].index # i
      BY <3>1, <3>2, <1>1 DEF old
    <3>4. TaskOf[d] \in Tasks
      OBVIOUS
    <3>5. audits'[TaskOf[d]][req[d].index] = audits[TaskOf[d]][req[d].index] /\ req[d].index \in DOMAIN audits'[TaskOf[d]]
      BY <3>2, <3>3, <3>4, <1>8
    <3> QED BY <3>2, <3>5
  <2>3. \A d \in Callers : pc'[d] \in {"rollup", "markup"} => TaskOf[d] # Root
    BY <1>5 DEF GatewayInv, Attempting, Others
  <2>4. \A u \in Tasks : \A j \in DOMAIN audits'[u] :
          /\ TaskOf[audits'[u][j].caller] = u /\ audits'[u][j].n <= req'[audits'[u][j].caller].n
          /\ ~audits'[u][j].settled =>
              /\ audits'[u][j].usage = 0 /\ ~audits'[u][j].failed
              /\ pc'[audits'[u][j].caller] \in OpenPCs /\ req'[audits'[u][j].caller].index = j
    BY <2>1, <1>4
  <2>5. \A d \in Callers : pc'[d] \in OpenPCs =>
          /\ req'[d].index \in DOMAIN audits'[TaskOf[d]]
          /\ LET a == audits'[TaskOf[d]][req'[d].index] IN ~a.settled /\ a.caller = d /\ a.n = req'[d].n
    BY <2>2, <1>4
  <2> QED BY <2>3, <2>4, <2>5 DEF Attempting, Current
<1>13. \A n : \A d \in Callers : Mine(d, n)' = Mine(d, n)
  BY <1>8, <1>9 DEF Mine
<1>14. \A d \in Callers : Mine(d, req[d].n)' = Mine(d, req[d].n)
  BY <1>4, <1>8, <1>9 DEF Mine
<1>15. \A j \in DOMAIN audits[t] : j \in Mine(c, req[c].n) /\ j # i => audits[t][j].failed /\ ~audits[t][j].output
  <2>1. ASSUME NEW j \in DOMAIN audits[t], j \in Mine(c, req[c].n), j # i
        PROVE  audits[t][j].failed /\ ~audits[t][j].output
    <3>1. audits[t][j].caller = audits[t][i].caller /\ audits[t][j].n = audits[t][i].n
      BY <2>1, <1>1 DEF Mine, old
    <3>2. i \in Nat /\ j \in Nat
      BY <1>0, <1>1
    <3>3. CASE j < i
      BY <3>1, <3>3, <1>1, <1>0 DEF GatewayInv, Retries
    <3>4. CASE i < j
      <4>1. audits[t][i].failed
        BY <3>1, <3>4, <1>1, <1>0 DEF GatewayInv, Retries
      <4> QED BY <4>1, <1>1 DEF old
    <3> QED BY <3>2, <3>3, <3>4, <2>1
  <2> QED BY <2>1
<1>16. Retries'
  <2>1. ASSUME NEW d \in Callers, pc'[d] \in {"loop", "wait"} \union LockPCs
        PROVE  \A j \in Mine(d, req[d].n)' : audits'[TaskOf[d]][j].failed /\ ~audits'[TaskOf[d]][j].output
    <3>1. CASE d = c
      <4>1. MayRetry(c)
        BY <3>1, <2>1, <1>5 DEF LockPCs
      <4>2. e.failed /\ ~e.output
        BY <4>1, <1>3 DEF MayRetry, Success
      <4>3. \A j \in Mine(c, req[c].n) : j \in DOMAIN audits[t]
        BY DEF Mine
      <4>4. \A j \in Mine(c, req[c].n) : audits'[t][j].failed /\ ~audits'[t][j].output
        BY <4>2, <4>3, <1>0, <1>8, <1>15
      <4> QED BY <4>4, <3>1, <1>14
    <3>2. CASE d # c
      <4>1. pc'[d] = pc[d] /\ Mine(d, req[d].n)' = Mine(d, req[d].n) /\ TaskOf[d] \in Tasks
        BY <3>2, <1>5, <1>14 DEF Others
      <4>2. ASSUME NEW j \in Mine(d, req[d].n)
            PROVE  audits'[TaskOf[d]][j].failed /\ ~audits'[TaskOf[d]][j].output
        <5>1. j \in DOMAIN audits[TaskOf[d]] /\ audits[TaskOf[d]][j].caller = d
          BY DEF Mine
        <5>2. TaskOf[d] # t \/ j # i
          BY <5>1, <3>2, <1>1 DEF old
        <5>3. audits'[TaskOf[d]][j] = audits[TaskOf[d]][j]
          BY <5>1, <5>2, <4>1, <1>8
        <5> QED BY <5>3, <4>1, <2>1 DEF GatewayInv, Retries
      <4> QED BY <4>1, <4>2
    <3> QED BY <3>1, <3>2
  <2>2. ASSUME NEW u \in Tasks, NEW j \in DOMAIN audits'[u], NEW k \in DOMAIN audits'[u], j < k,
               audits'[u][j].caller = audits'[u][k].caller, audits'[u][j].n = audits'[u][k].n
        PROVE  ~audits'[u][j].output /\ audits'[u][j].failed
    <3>1. j \in DOMAIN audits[u] /\ k \in DOMAIN audits[u]
      BY <1>8
    <3>2. audits[u][j].caller = audits[u][k].caller /\ audits[u][j].n = audits[u][k].n
      BY <3>1, <2>2, <1>9
    <3>3. ~audits[u][j].output /\ audits[u][j].failed
      BY <3>1, <3>2, <2>2 DEF GatewayInv, Retries
    <3>4. u # t \/ j # i
      BY <3>3, <1>1 DEF old
    <3> QED BY <3>1, <3>3, <3>4, <1>8
  <2> QED BY <2>1, <2>2, <1>4 DEF Retries
<1>17. Tries'
  <2>0. Tries
    BY DEF GatewayInv
  <2>1. \A d \in Callers, n \in Nat : Cardinality(Mine(d, n))' <= MaxRetries + 1
    BY <1>13, <2>0 DEF Tries
  <2>2. Cardinality(Mine(c, req[c].n)) <= req[c].retry + 1
    BY <2>0, <1>0 DEF Tries, OpenPCs
  <2>3. pc'[c] = "wait" => req[c].retry < MaxRetries
    BY <1>5 DEF MayRetry
  <2>4. ASSUME NEW d \in Callers
        PROVE  /\ pc'[d] \in {"loop"} \union LockPCs => Cardinality(Mine(d, req[d].n))' <= req'[d].retry
               /\ pc'[d] = "wait" => req'[d].retry < MaxRetries /\ Cardinality(Mine(d, req[d].n))' <= req'[d].retry + 1
               /\ pc'[d] \in OpenPCs => Cardinality(Mine(d, req[d].n))' <= req'[d].retry + 1
    <3>0. Mine(d, req[d].n)' = Mine(d, req[d].n) /\ req'[d] = req[d]
      BY <1>4, <1>14
    <3>1. CASE d = c
      BY <3>0, <3>1, <2>2, <2>3, <1>5 DEF LockPCs, OpenPCs
    <3>2. CASE d # c
      <4>1. pc'[d] = pc[d]
        BY <3>2, <1>5 DEF Others
      <4> QED BY <4>1, <3>0, <2>0 DEF Tries
    <3> QED BY <3>1, <3>2
  <2> QED BY <2>1, <2>4 DEF Tries
<1>18. \A T \in SUBSET Tasks : Attempts(T)' = Attempts(T)
  BY <1>8 DEF Attempts
<1>19. Counts'
  <2>1. Granted' = Granted
    BY <1>0, <1>5, CallersIn DEF Granted
  <2>2. Attempts(Tasks)' = Attempts(Tasks)
    BY <1>18
  <2>3. \A u \in Branches : Len(audits'[u]) = Len(audits[u])
    BY <1>8 DEF Tasks
  <2> QED BY <2>1, <2>2, <2>3, <1>4 DEF GatewayInv, Counts
<1> DEFINE x == <<t, i>>
           u0 == UsageOf
           u1 == UsageOf'
<1>20. /\ x \in Attempts(Tasks) /\ u0[x] = 0 /\ u1[x] = req[c].usage
       /\ \A a \in Attempts(Tasks) \ {x} : u1[a] = u0[a]
  <2>1. x \in Attempts(Tasks) /\ Attempts(Tasks)' = Attempts(Tasks)
    BY <1>0, <1>1, <1>18 DEF Attempts
  <2>2. \A a \in Attempts(Tasks) : u0[a] = audits[a[1]][a[2]].usage /\ u1[a] = audits'[a[1]][a[2]].usage
    BY <2>1 DEF UsageOf
  <2>3. u0[x] = 0
    BY <2>1, <2>2, <1>1 DEF old
  <2>4. u1[x] = req[c].usage
    BY <2>1, <2>2, <1>3, <1>7
  <2>5. ASSUME NEW a \in Attempts(Tasks), a # x PROVE u1[a] = u0[a]
    <3>1. PICK u \in Tasks : \E j \in DOMAIN audits[u] : a = <<u, j>>
      BY DEF Attempts
    <3>2. PICK j \in DOMAIN audits[u] : a = <<u, j>>
      BY <3>1
    <3>3. audits'[u][j] = audits[u][j] /\ a[1] = u /\ a[2] = j
      BY <3>2, <2>5, <1>8
    <3> QED BY <3>3, <2>2
  <2> QED BY <2>1, <2>3, <2>4, <2>5
<1>21. ASSUME NEW T \in SUBSET Tasks
       PROVE  Reported(T) = Units(Attempts(T), u0) /\ Reported(T)' = Units(Attempts(T), u1)
              /\ Attempts(T) \subseteq Attempts(Tasks)
  <2>1. Reported(T) = Units(Attempts(T), u0) /\ Attempts(T) \subseteq Attempts(Tasks)
    BY ReportedUnits
  <2>2. Reported(T)' = Units(Attempts(T)', u1)
    <3>1. Attempts(T)' \subseteq Attempts(Tasks)'
      BY DEF Attempts
    <3>2. \A a \in Attempts(T)' : u1[a] = audits'[a[1]][a[2]].usage
      BY <3>1 DEF UsageOf
    <3> HIDE DEF u1
    <3> QED BY <3>2 DEF Reported, Units
  <2> QED BY <2>1, <2>2, <1>18
<1> HIDE DEF x, u0, u1
<1>22. ASSUME NEW T \in SUBSET Tasks, t \in T, IsFiniteSet(Reported(T))
       PROVE  IsFiniteSet(Reported(T)') /\ Cardinality(Reported(T)') = Cardinality(Reported(T)) + req[c].usage
  <2>1. x \in Attempts(T)
    BY <1>22, <1>1 DEF Attempts, x
  <2>2. \A a \in Attempts(T) \ {x} : u1[a] = u0[a]
    BY <1>20, <1>21
  <2>3. IsFiniteSet(Units(Attempts(T), u0))
    BY <1>22, <1>21
  <2>4. u0[x] = 0 /\ u1[x] \in Nat
    BY <1>2, <1>20
  <2>5. /\ IsFiniteSet(Units(Attempts(T), u1))
        /\ Cardinality(Units(Attempts(T), u1)) = Cardinality(Units(Attempts(T), u0)) + u1[x]
    BY <2>1, <2>2, <2>3, <2>4, UnitsChange
  <2> QED BY <2>5, <1>20, <1>21
<1>23. ASSUME NEW T \in SUBSET Tasks, t \notin T
       PROVE  Reported(T)' = Reported(T)
  <2>1. x \notin Attempts(T)
    BY <1>23 DEF Attempts, x
  <2>2. \A a \in Attempts(T) : u1[a] = u0[a]
    BY <2>1, <1>20, <1>21
  <2>3. Units(Attempts(T), u1) = Units(Attempts(T), u0)
    BY <2>2, UnitsSame
  <2> QED BY <2>3, <1>21
<1>24. ASSUME NEW C \in SUBSET Callers, c \in C, IsFiniteSet(Recorded(C))
       PROVE  /\ IsFiniteSet(Units(C \ {c}, OnRequest))
              /\ Cardinality(Recorded(C)) = Cardinality(Units(C \ {c}, OnRequest)) + req[c].usage
  <2>1. OnRequest[c] = req[c].usage /\ OnRequest[c] \in Nat /\ IsFiniteSet(Units(C, OnRequest))
    BY <1>2, <1>24 DEF OnRequest, Recorded
  <2>2. ASSUME NEW w, w[c] \in Nat, IsFiniteSet(Units(C, w))
        PROVE  IsFiniteSet(Units(C \ {c}, w)) /\ Cardinality(Units(C, w)) = Cardinality(Units(C \ {c}, w)) + w[c]
    BY <2>2, <1>24, UnitsRemove
  <2>3. IsFiniteSet(Units(C \ {c}, OnRequest))
        /\ Cardinality(Units(C, OnRequest)) = Cardinality(Units(C \ {c}, OnRequest)) + OnRequest[c]
    BY <2>1, <2>2
  <2> QED BY <2>1, <2>3 DEF Recorded
<1>25. Usages'
  <2>0. Usages /\ OnRequest' = OnRequest
    BY <1>4 DEF GatewayInv, OnRequest
  <2>1. AtRoot' = AtRoot \ {c} /\ c \in AtRoot /\ AtRoot \in SUBSET Callers
    BY <1>0, <1>5, CallersIn DEF AtRoot, RootPCs
  <2>2. \A u : /\ AtOwn(u)' = AtOwn(u) \ {c} /\ AtOwn(u) \in SUBSET Callers
               /\ c \in AtOwn(u) <=> u = t
    BY <1>0, <1>5, CallersIn DEF AtOwn, OwnPCs
  <2>3. /\ IsFiniteSet(Recorded(AtRoot)')
        /\ Cardinality(Recorded(AtRoot)) = Cardinality(Recorded(AtRoot)') + req[c].usage
    BY <2>0, <2>1, <1>24 DEF Usages, Recorded
  <2>4. IsFiniteSet(Reported(Tasks)') /\ Cardinality(Reported(Tasks)') = Cardinality(Reported(Tasks)) + req[c].usage
    BY <2>0, <1>0, <1>22 DEF Usages
  <2>5. tokens'[Root] = Cardinality(Reported(Tasks)') + Cardinality(Recorded(AtRoot)')
    <3>1. tokens[Root] = Cardinality(Reported(Tasks)) + Cardinality(Recorded(AtRoot))
      BY <2>0 DEF Usages
    <3>2. Cardinality(Reported(Tasks)) \in Nat /\ Cardinality(Recorded(AtRoot)') \in Nat
      BY <2>0, <2>3, FS_CardinalityType DEF Usages
    <3> QED BY <3>1, <3>2, <2>3, <2>4, <1>2, <1>4
  <2>6. ASSUME NEW u \in Branches
        PROVE  /\ IsFiniteSet(Reported({u})') /\ IsFiniteSet(Recorded(AtOwn(u))')
               /\ tokens'[u] = Cardinality(Reported({u})') + Cardinality(Recorded(AtOwn(u))')
    <3>0. /\ IsFiniteSet(Reported({u})) /\ IsFiniteSet(Recorded(AtOwn(u))) /\ {u} \in SUBSET Tasks
          /\ tokens[u] = Cardinality(Reported({u})) + Cardinality(Recorded(AtOwn(u)))
      BY <2>0 DEF Usages, Tasks
    <3>1. CASE u = t
      <4>1. /\ IsFiniteSet(Recorded(AtOwn(u))')
            /\ Cardinality(Recorded(AtOwn(u))) = Cardinality(Recorded(AtOwn(u))') + req[c].usage
        BY <3>0, <3>1, <2>0, <2>2, <1>24 DEF Recorded
      <4>2. IsFiniteSet(Reported({u})') /\ Cardinality(Reported({u})') = Cardinality(Reported({u})) + req[c].usage
        <5>1. t \in {u}
          BY <3>1
        <5> QED BY <5>1, <3>0, <1>22
      <4>3. Cardinality(Reported({u})) \in Nat /\ Cardinality(Recorded(AtOwn(u))') \in Nat
        BY <3>0, <4>1, FS_CardinalityType
      <4> QED BY <3>0, <4>1, <4>2, <4>3, <1>2, <1>4
    <3>2. CASE u # t
      <4>1. AtOwn(u)' = AtOwn(u)
        BY <3>2, <2>2
      <4>2. Recorded(AtOwn(u))' = Recorded(AtOwn(u))
        BY <4>1, <2>0 DEF Recorded
      <4>3. Reported({u})' = Reported({u})
        <5>1. t \notin {u}
          BY <3>2
        <5> QED BY <5>1, <3>0, <1>23
      <4> QED BY <3>0, <4>2, <4>3, <1>4
    <3> QED BY <3>1, <3>2
  <2> QED BY <2>3, <2>4, <2>5, <2>6 DEF Usages
<1>26. Marked'
  <2>0. Marked
    BY DEF GatewayInv
  <2>1. \A d \in Callers : d # c => pc'[d] = pc[d]
    BY <1>5 DEF Others
  <2>2. \A d \in Callers :
        /\ pc'[d] \in {"record", "rollup"} /\ req[d].result = "dropped" => req[d].usage = 0
        /\ pc'[d] \in {"mark", "markup", "settle"} /\ req[d].usage = 0 => incomplete[Root]
        /\ pc'[d] \in {"record", "rollup"} => req[d].result # "none"
        /\ pc'[d] = "settle" /\ req[d].result # "reply" => incomplete[Root]
    BY <2>0, <2>1, <1>5 DEF Marked
  <2>3. ASSUME ~incomplete[Root], NEW u \in Tasks, NEW j \in DOMAIN audits'[u], audits'[u][j].settled
        PROVE /\ audits'[u][j].usage > 0
              /\ audits'[u][j].failed => late \/ \E w \in Tasks : cancelled[w] \/ tokens[w] >= MaxTokens
    <3>0. j \in DOMAIN audits[u]
      BY <1>8
    <3>1. CASE u = t /\ j = i /\ audits'[u][j] = e
      <4>1. req[c].usage # 0 /\ req[c].result = "reply"
        BY <2>0, <2>3, <1>0 DEF Marked
      <4>2. e.failed => ~Check(t)
        BY <4>1, <1>3 DEF Success
      <4>3. \A w \in Tasks : tokens[w] \in Nat
        BY <1>0 DEF Types
      <4>4. ~Check(t) => late \/ \E w \in Tasks : cancelled[w] \/ tokens[w] >= MaxTokens
        BY <4>3, <1>0 DEF Check, IsCancelled
      <4> QED BY <3>1, <4>1, <4>2, <4>4, <1>2, <1>3
    <3>2. CASE audits'[u][j] = audits[u][j]
      BY <3>0, <3>2, <2>0, <2>3 DEF Marked
    <3> QED BY <3>0, <3>1, <3>2, <1>8
  <2> QED BY <2>2, <2>3, <1>4 DEF Marked
<1>27. Overshoot'
  <2>1. pc'[c] \notin CommittedPCs
    BY <1>5 DEF CommittedPCs, LockPCs
  <2> QED BY <2>1, <1>0, <1>4, <1>5, MarginKept DEF GatewayInv
<1> QED BY <1>10, <1>11, <1>12, <1>16, <1>17, <1>19, <1>25, <1>26, <1>27 DEF GatewayInv

-----------------------------------------------------------------------------
(* The theorems                                                            *)

\* Nothing was called and nothing recorded.
LEMMA InitInv ==
    ASSUME Init
    PROVE  GatewayInv
<1> USE TaskAssumption, QuotaAssumption
<1>1. \A t \in Tasks : audits[t] = <<>> /\ DOMAIN audits[t] = {} /\ Len(audits[t]) = 0
  BY DEF Init
<1>2. Types
  <2>1. NoRequest \in Requests
    <3>1. 0 \in 0..MaxRetries /\ 0 \in 0..MaxUsage
      OBVIOUS
    <3> QED BY <3>1 DEF NoRequest, Requests
  <2>2. audits \in [Tasks -> Seq(Records)]
    BY DEF Init
  <2>3. calls \in [Tasks -> Nat] /\ tokens \in [Tasks -> Nat] /\ reserved \in [Tasks -> 0..AuditCap]
    BY DEF Init
  <2>4. /\ incomplete \in [Tasks -> BOOLEAN] /\ cancelled \in [Tasks -> BOOLEAN] /\ late \in BOOLEAN
        /\ locked \in [Tasks -> Callers \union {"none"}]
    BY DEF Init
  <2>5. pc \in [Callers -> {"idle", "loop", "wait"} \union LockPCs \union OpenPCs] /\ req \in [Callers -> Requests]
    BY <2>1 DEF Init
  <2> QED BY <2>2, <2>3, <2>4, <2>5 DEF Types
<1>3. Sections
  BY DEF Init, Sections, LockPCs, Tasks
<1>4. Attempting
  BY <1>1 DEF Init, Attempting, OpenPCs
<1>5. Retries
  BY <1>1 DEF Init, Retries, LockPCs
<1>6. Tries
  <2>1. \A n : \A c \in Callers : Mine(c, n) = {}
    BY <1>1 DEF Mine
  <2>2. Cardinality({}) = 0
    BY FS_EmptySet
  <2>3. \A c \in Callers, n \in Nat : Cardinality(Mine(c, n)) <= MaxRetries + 1
    BY <2>1, <2>2
  <2>4. \A c \in Callers : pc[c] = "idle"
    BY DEF Init
  <2> QED BY <2>3, <2>4 DEF Tries, LockPCs, OpenPCs
<1>7. \A T \in SUBSET Tasks : Attempts(T) = {} /\ Reported(T) = {}
  BY <1>1 DEF Attempts, Reported
<1>8. Counts
  <2>1. Granted = {}
    BY DEF Init, Granted
  <2>2. calls[Root] = 0 /\ \A t \in Branches : calls[t] = 0
    BY DEF Init, Tasks
  <2>3. Attempts(Tasks) = {}
    BY <1>7
  <2>4. IsFiniteSet(Attempts(Tasks)) /\ Cardinality(Attempts(Tasks)) = 0 /\ Cardinality(Granted) = 0
    BY <2>1, <2>3, FS_EmptySet
  <2>5. \A t \in Branches : Len(audits[t]) = 0
    BY <1>1 DEF Tasks
  <2> QED BY <2>2, <2>4, <2>5 DEF Counts
<1>9. Usages
  <2>1. AtRoot = {} /\ \A t : AtOwn(t) = {}
    BY DEF Init, AtRoot, AtOwn, RootPCs, OwnPCs
  <2>2. Recorded(AtRoot) = {} /\ \A t : Recorded(AtOwn(t)) = {}
    BY <2>1 DEF Recorded, Units
  <2>3. tokens[Root] = 0 /\ \A t \in Branches : tokens[t] = 0
    BY DEF Init, Tasks
  <2>4. Reported(Tasks) = {} /\ \A t \in Branches : Reported({t}) = {}
    BY <1>7 DEF Tasks
  <2> QED BY <2>2, <2>3, <2>4, FS_EmptySet DEF Usages
<1>10. Marked
  BY <1>1 DEF Init, Marked
<1>11. Overshoot
  <2>1. Committed = {} /\ tokens[Root] = 0
    BY DEF Init, Committed, CommittedPCs, LockPCs, Tasks
  <2>2. Cardinality(Committed) = 0
    BY <2>1, FS_EmptySet
  <2>3. Cardinality(Callers) \in Nat
    BY FS_CardinalityType
  <2>4. Cardinality(Callers) * MaxUsage \in Nat
    BY <2>3, Bounds
  <2>5. 0 * MaxUsage = 0
    OBVIOUS
  <2>6. ASSUME NEW q \in Nat PROVE 0 + 0 < MaxTokens + q
    OBVIOUS
  <2> QED BY <2>1, <2>2, <2>4, <2>5, <2>6 DEF Overshoot
<1> QED BY <1>2, <1>3, <1>4, <1>5, <1>6, <1>8, <1>9, <1>10, <1>11 DEF GatewayInv

\* Every step keeps the books.
LEMMA StepInv ==
    ASSUME GatewayInv, [Next]_vars
    PROVE  GatewayInv'
<1>1. ASSUME NEW c \in Callers, Complete(c) PROVE GatewayInv'
  BY <1>1, ReserveBeginInv, ReserveRootInv, ReserveEndInv, StreamEndInv, RecordOwnInv, RecordParentInv,
     MarkOwnInv, MarkParentInv, SettleInv, RetryInv DEF Complete
<1>2. ASSUME NEW c \in Callers, Stream(c) PROVE GatewayInv'
  BY <1>2, OutputInv, UsageInv DEF Stream
<1>3. ASSUME NEW t \in Tasks, Cancel(t) PROVE GatewayInv'
  <2>1. cancelled \in [Tasks -> BOOLEAN] /\ late \in BOOLEAN
    BY DEF GatewayInv, Types
  <2> QED BY <1>3, <2>1, EnvironmentInv DEF Cancel
<1>4. CASE DeadlinePasses
  <2>1. cancelled \in [Tasks -> BOOLEAN] /\ late \in BOOLEAN
    BY DEF GatewayInv, Types
  <2> QED BY <1>4, <2>1, EnvironmentInv DEF DeadlinePasses
<1>5. CASE UNCHANGED vars
  <2>1. cancelled \in [Tasks -> BOOLEAN] /\ late \in BOOLEAN
    BY DEF GatewayInv, Types
  <2> QED BY <1>5, <2>1, EnvironmentInv DEF vars, env
<1> QED BY <1>1, <1>2, <1>3, <1>4, <1>5, DropWaitingInv, BeginInv DEF Next

\* The invariant holds throughout.
LEMMA Inductive == Spec => []GatewayInv
<1> QED BY InitInv, StepInv, PTL DEF Spec

\* The books of the task tree are right, for any tree, number of callers, quota and retries:
\* every call of the tree is in the root's counter and on record, usage nobody reported is marked,
\* and the token budget is overshot by calls in flight only (reserve_model_call, record_attempt).
THEOREM AccountedHolds == Spec => []Accounted
<1>1. ASSUME GatewayInv PROVE Accounted
  <2> USE TaskAssumption, QuotaAssumption
  <2>0. Types
    BY <1>1 DEF GatewayInv
  <2>1. EveryCallCounted
    <3>1. ASSUME NEW t \in Tasks, NEW i \in DOMAIN audits[t], ~audits[t][i].settled
          PROVE  \E c \in Open : TaskOf[c] = t /\ req[c].index = i
      <4>1. audits[t] \in Seq(Records)
        BY <2>0 DEF Types
      <4>2. audits[t][i] \in Records
        BY <4>1
      <4>3. audits[t][i].caller \in Callers
        BY <4>2 DEF Records
      <4> QED BY <3>1, <4>3, <1>1 DEF GatewayInv, Attempting, Open, OpenPCs
    <3> QED BY <3>1, <1>1 DEF GatewayInv, Counts, EveryCallCounted
  <2>2. ASSUME Open = {} PROVE UsageHonest
    <3>1. AtRoot = {} /\ \A t : AtOwn(t) = {}
      BY <2>2 DEF Open, AtRoot, AtOwn, RootPCs, OwnPCs
    <3>2. Recorded(AtRoot) = {} /\ \A t : Recorded(AtOwn(t)) = {}
      BY <3>1 DEF Recorded, Units
    <3>3. Cardinality({}) = 0
      BY FS_EmptySet
    <3>4. Usages
      BY <1>1 DEF GatewayInv
    <3>5. tokens[Root] = Cardinality(Reported(Tasks))
      <4>1. Cardinality(Reported(Tasks)) \in Nat
        BY <3>4, FS_CardinalityType DEF Usages
      <4> QED BY <4>1, <3>2, <3>3, <3>4 DEF Usages
    <3>6. ASSUME NEW t \in Branches PROVE tokens[t] = Cardinality(Reported({t}))
      <4>1. Cardinality(Reported({t})) \in Nat /\ tokens[t] = Cardinality(Reported({t})) + Cardinality(Recorded(AtOwn(t)))
        BY <3>4, FS_CardinalityType DEF Usages
      <4>2. Cardinality(Recorded(AtOwn(t))) = 0
        BY <3>2, <3>3
      <4> QED BY <4>1, <4>2
    <3>7. \A t \in Tasks : \A i \in DOMAIN audits[t] : audits[t][i].settled
      BY <2>1, <2>2 DEF EveryCallCounted
    <3>8. ~incomplete[Root] => \A t \in Tasks : \A i \in DOMAIN audits[t] :
            /\ audits[t][i].usage > 0
            /\ audits[t][i].failed => late \/ \E u \in Tasks : cancelled[u] \/ tokens[u] >= MaxTokens
      BY <3>7, <1>1 DEF GatewayInv, Marked
    <3> QED BY <3>5, <3>6, <3>8 DEF UsageHonest
  <2>3. Open # {} => UsageHonest
    BY DEF UsageHonest
  <2>4. OvershootBounded
    <3>1. Committed \in SUBSET Callers
      BY DEF Committed
    <3>2. Cardinality(Committed) \in Nat /\ Cardinality(Callers) \in Nat
      BY <3>1, CallersFinite
    <3> DEFINE p == Cardinality(Committed) * MaxUsage
               q == Cardinality(Callers) * MaxUsage
    <3>3. p \in Nat /\ q \in Nat
      BY <3>2, Bounds
    <3>4. tokens[Root] \in Nat
      BY <2>0 DEF Types, Tasks
    <3>5. tokens[Root] + p < MaxTokens + q
      BY <1>1 DEF GatewayInv, Overshoot
    <3> HIDE DEF p, q
    <3>6. tokens[Root] < MaxTokens + q
      BY <3>3, <3>4, <3>5
    <3> QED BY <3>6 DEF OvershootBounded, q
  <2> QED BY <2>1, <2>2, <2>3, <2>4 DEF Accounted
<1> QED BY <1>1, Inductive, PTL

\* What a sink has seen is never produced a second time, and a request makes no more attempts than
\* it may (complete), whatever the other callers, the quota and the deadline do between them.
THEOREM NoSecondOutputHolds == Spec => []NoSecondOutput
<1>1. ASSUME GatewayInv PROVE NoSecondOutput
  <2>1. \A t \in Tasks : \A i, j \in DOMAIN audits[t] :
          (i < j /\ audits[t][i].caller = audits[t][j].caller /\ audits[t][i].n = audits[t][j].n) =>
              ~audits[t][i].output /\ audits[t][i].failed
    BY <1>1 DEF GatewayInv, Retries
  <2>2. \A c \in Callers, n \in 1..MaxRequests : n \in Nat /\ Cardinality(Mine(c, n)) <= MaxRetries + 1
    BY <1>1, QuotaAssumption DEF GatewayInv, Tries
  <2> QED BY <2>1, <2>2 DEF NoSecondOutput, Mine
<1> QED BY <1>1, Inductive, PTL
=============================================================================
