------------------------------ MODULE RunProofs -------------------------------
(***************************************************************************)
(* What a run tells others is true: proofs about Run for any number of     *)
(* steps, any inputs and tool calls, and any limits of the channel and of  *)
(* the history.                                                            *)
(*                                                                         *)
(* The argument.  Until drive has returned, what the channel took is first *)
(* what the history holds, then what is being committed, then what is      *)
(* queued (Steering); so a commit adds inputs in the order they came, and  *)
(* each once (Acknowledged).  A pair is open only from the admission of a  *)
(* reply to the results of its calls, and admission reserved the room for  *)
(* these (Pairs); so each path that ends the step can close it.  What drive*)
(* acts on was acknowledged by the sink at the step before (Snapshots).    *)
(***************************************************************************)
EXTENDS Run, FiniteSetTheorems, TLAPS

\* Where the spawned task is once drive has returned.
Terminal == {"ended", "transforms", "finish", "reported", "gone"}

-----------------------------------------------------------------------------
(* The inductive invariant                                                 *)

\* The types the proof needs.
Types ==
    /\ transcript \in Seq(Message) /\ bytes \in 0..HistoryLimit
    /\ pc \in {"loop", "inputs", "input", "room", "project", "recover", "before", "model",
               "after", "batch", "tools"} \union Terminal
    /\ queue \in Seq(Inputs) /\ taken \in Seq(Inputs) /\ accepted \in Seq(Inputs)
    /\ ack \in [Inputs -> {"unsent", "waiting", "ok", "failed", "closed", "full"}]

\* What the channel took and the run has been through with.
Drained == Len(accepted) - Len(taken) - Len(queue)

\* What the channel took is in the history, taken or queued, in this order, until drive has ended;
\* whoever waits for an answer is not in the history.
Steering ==
    /\ \A p, q \in DOMAIN accepted : accepted[p] = accepted[q] => p = q
    /\ \A p \in DOMAIN accepted : ack[accepted[p]] \notin {"unsent", "full"}
    /\ \A k \in DOMAIN queue : ack[queue[k]] = "waiting"
    /\ \A k \in DOMAIN taken : ack[taken[k]] = "waiting"
    /\ pc # "input" => taken = <<>>
    /\ pc = "input" => bytes + Len(taken) <= HistoryLimit
    /\ pc \notin Terminal =>
        /\ Drained \in Nat
        /\ \A k \in DOMAIN taken : taken[k] = accepted[Drained + k]
        /\ \A k \in DOMAIN queue : queue[k] = accepted[Drained + Len(taken) + k]
        /\ \A q \in 1..Drained : \E j \in DOMAIN transcript : transcript[j] = Input(accepted[q])

\* An input is in the history exactly if its caller was told so, and there once, behind all that the
\* channel took before it.
Acknowledged ==
    /\ \A i \in Inputs : ack[i] = "ok" <=> \E k \in DOMAIN transcript : transcript[k] = Input(i)
    /\ \A j, k \in DOMAIN transcript :
        transcript[j].role = "user" /\ transcript[j] = transcript[k] => j = k
    /\ \A k \in DOMAIN transcript : transcript[k].role = "user" =>
        \E p \in DOMAIN accepted :
            /\ transcript[k] = Input(accepted[p])
            /\ \A q \in 1..(p - 1) : \E j \in 1..(k - 1) : transcript[j] = Input(accepted[q])

\* Every reply is closed and every result belongs to a reply.
Closed(t) == Valid(t) /\ SettledIn(t) \subseteq Called(t)
\* Closed up to a last reply whose calls are its own, with room for their results.
Opened ==
    \E u \in Seq(Message), calls \in SUBSET CallIds :
        /\ transcript = Append(u, Reply(calls)) /\ Closed(u) /\ calls \intersect Called(u) = {}
        /\ bytes + Cardinality(calls) <= HistoryLimit
\* Where a pair may be open: from the admission of a reply to the results of its calls.
Pairs ==
    /\ pc \in {"after", "batch"} => Opened
    /\ pc = "ended" => Closed(transcript) \/ Opened
    /\ pc \notin {"after", "batch", "ended"} => Closed(transcript)

\* What the sink was handed last, and what it has stored, at the points that rely on it.
Snapshots ==
    /\ ~limbo => durable = current
    /\ configured /\ ~ckptError =>
        /\ pc = "before" => current = [phase |-> "BeforeModel", transcript |-> transcript, status |-> "none"]
        /\ pc = "after" => current = [phase |-> "AfterModel", transcript |-> transcript, status |-> "none"]
        /\ pc = "finish" => current = [phase |-> "RunFinished", transcript |-> transcript, status |-> status]
    /\ configured /\ pc \in {"model", "batch"} =>
        /\ ~limbo /\ current.transcript = transcript
        /\ current.phase = IF pc = "model" THEN "BeforeModel" ELSE "AfterModel"
    /\ configured /\ pc \in {"reported", "gone"} /\ status = "Completed" =>
        ~limbo /\ current = [phase |-> "RunFinished", transcript |-> transcript, status |-> "Completed"]

\* The inductive invariant of a run.
RunInv == Types /\ Steering /\ Acknowledged /\ Pairs /\ Snapshots

-----------------------------------------------------------------------------
(* Replies, their results and what a longer history says of both           *)

\* The statuses of a result.
Outcomes == {"Success", "Skipped", "Unknown"}

\* A reply carries finitely many calls.
LEMMA CallsFinite ==
  ASSUME NEW calls \in SUBSET CallIds
  PROVE  IsFiniteSet(calls) /\ Cardinality(calls) \in Nat
BY CallIdsAssumption, FS_Subset, FS_CardinalityType

\* What messages carry.
LEMMA MessageFields ==
  ASSUME NEW m \in Message
  PROVE  /\ m.role \in {"user", "assistant", "tool"}
         /\ m.role = "user" => m.input \in Inputs /\ m = Input(m.input)
         /\ m.role = "assistant" => m.calls \in SUBSET CallIds /\ m = Reply(m.calls)
         /\ m.role = "tool" => m.call \in CallIds /\ m.status \in Outcomes
BY DEF Message, Input, Reply, Outcomes

\* The messages a run adds, by their role.
LEMMA MessagesBuilt ==
  /\ \A i \in Inputs : Input(i) \in Message /\ Input(i).role = "user"
  /\ \A i, j \in Inputs : Input(i) = Input(j) => i = j
  /\ \A calls \in SUBSET CallIds :
       Reply(calls) \in Message /\ Reply(calls).role = "assistant" /\ Reply(calls).calls = calls
  /\ \A c \in CallIds, s \in Outcomes :
       Result(c, s) \in Message /\ Result(c, s).role = "tool" /\ Result(c, s).call = c
       /\ Result(c, s).status = s
<1>1. \A i, j \in Inputs : Input(i) = Input(j) => i = j
  <2> SUFFICES ASSUME NEW i \in Inputs, NEW j \in Inputs, Input(i) = Input(j) PROVE i = j
    OBVIOUS
  <2>1. Input(i).input = i /\ Input(j).input = j
    BY DEF Input
  <2> QED
    BY <2>1
<1> QED
  BY <1>1 DEF Message, Input, Reply, Result, Outcomes

\* SetToSeq lists every element of a finite set once.
LEMMA SetToSeqLists ==
  ASSUME NEW S, IsFiniteSet(S)
  PROVE  /\ SetToSeq(S) \in [1..Cardinality(S) -> S]
         /\ {SetToSeq(S)[k] : k \in 1..Cardinality(S)} = S
<1> DEFINE n == Cardinality(S)
           s == SetToSeq(S)
<1>1. n \in Nat /\ ExistsBijection(1..n, S)
  BY FS_CardinalityType
<1>2. \E f \in [1..n -> S] : IsInjective(f)
  BY <1>1 DEF ExistsBijection, Bijection, Injection
<1>3. s \in [1..n -> S] /\ IsInjective(s)
  BY <1>2 DEF SetToSeq
<1> HIDE DEF s
<1>4. s \in Injection(1..n, S)
  BY <1>3 DEF Injection
<1>5. Cardinality(1..n) = Cardinality(S)
  BY <1>1, FS_Interval
<1>6. s \in Surjection(1..n, S)
  BY <1>4, <1>5, FS_Injection
<1> QED
  BY <1>3, <1>6 DEF Surjection, s

\* execute_batch and repair_unsettled answer each of the calls.
LEMMA ResultsAnswer ==
  ASSUME NEW calls \in SUBSET CallIds, NEW of \in [calls -> Outcomes]
  PROVE  /\ Results(of) \in Seq(Message) /\ Len(Results(of)) = Cardinality(calls)
         /\ \A k \in 1..Cardinality(calls) :
              Results(of)[k] \in [role : {"tool"}, call : calls, status : Outcomes]
         /\ {Results(of)[k].call : k \in 1..Cardinality(calls)} = calls
<1> DEFINE n == Cardinality(calls)
           s == SetToSeq(calls)
           r == Results(of)
<1>1. n \in Nat
  BY CallsFinite
<1>2. s \in [1..n -> calls] /\ {s[k] : k \in 1..n} = calls
  BY CallsFinite, SetToSeqLists
<1>3. r = [k \in DOMAIN s |-> Result(s[k], of[s[k]])]
  BY DEF Results
<1> HIDE DEF s, n
<1>4. r = [k \in 1..n |-> Result(s[k], of[s[k]])]
  BY <1>2, <1>3
<1> HIDE DEF r
<1>5. \A k \in 1..n : r[k] \in [role : {"tool"}, call : calls, status : Outcomes] /\ r[k].call = s[k]
  BY <1>2, <1>4 DEF Result
<1>6. \A k \in 1..n : r[k] \in Message
  BY <1>5 DEF Message, Outcomes
<1>7. r \in Seq(Message) /\ Len(r) = n
  BY <1>1, <1>4, <1>6
<1>8. {r[k].call : k \in 1..n} = calls
  BY <1>2, <1>5
<1> QED
  BY <1>5, <1>7, <1>8 DEF r, n

\* A reply that is closed stays so when the history grows.
LEMMA ClosedByGrows ==
  ASSUME NEW t \in Seq(Message), NEW u \in Seq(Message), NEW k \in Replies(t), ClosedBy(t, k)
  PROVE  k \in Replies(t \o u) /\ ClosedBy(t \o u, k)
<1> DEFINE n == Cardinality(t[k].calls)
<1>1. k \in 1..Len(t) /\ (t \o u)[k] = t[k]
  BY DEF Replies
<1>2. n \in Nat /\ k + n <= Len(t)
  BY <1>1, CallsFinite, MessageFields DEF ClosedBy, Replies
<1>3. \A j \in (k + 1)..(k + n) : (t \o u)[j] = t[j]
  BY <1>1, <1>2
<1>4. Len(t \o u) >= Len(t)
  OBVIOUS
<1> HIDE DEF n
<1>5. /\ {(t \o u)[j] : j \in (k + 1)..(k + n)} = {t[j] : j \in (k + 1)..(k + n)}
      /\ {(t \o u)[j].call : j \in (k + 1)..(k + n)} = {t[j].call : j \in (k + 1)..(k + n)}
  BY <1>3
<1>6. k \in Replies(t \o u)
  BY <1>1, <1>4 DEF Replies
<1> QED
  BY SMTT(30), <1>1, <1>2, <1>4, <1>5, <1>6 DEF ClosedBy, n

\* The calls and the results of a history that grew are those of both its parts.
LEMMA PartsOfGrown ==
  ASSUME NEW t \in Seq(Message), NEW u \in Seq(Message)
  PROVE  /\ Called(t \o u) = Called(t) \union Called(u)
         /\ SettledIn(t \o u) = SettledIn(t) \union SettledIn(u)
         /\ \A k \in Replies(t \o u) : k \in Replies(t) \/ k - Len(t) \in Replies(u)
<1>1. /\ DOMAIN (t \o u) = 1..(Len(t) + Len(u)) /\ DOMAIN t = 1..Len(t) /\ DOMAIN u = 1..Len(u)
      /\ \A k \in 1..Len(t) : (t \o u)[k] = t[k]
      /\ \A k \in 1..Len(u) : (t \o u)[Len(t) + k] = u[k]
      /\ Len(t) \in Nat /\ Len(u) \in Nat
  OBVIOUS
<1>2. \A k \in DOMAIN (t \o u) : k \in DOMAIN t \/ (k - Len(t) \in DOMAIN u /\ (t \o u)[k] = u[k - Len(t)])
  <2> SUFFICES ASSUME NEW k \in DOMAIN (t \o u), k \notin DOMAIN t
               PROVE  k - Len(t) \in DOMAIN u /\ (t \o u)[k] = u[k - Len(t)]
    OBVIOUS
  <2>1. k - Len(t) \in 1..Len(u) /\ Len(t) + (k - Len(t)) = k
    BY <1>1
  <2> QED
    BY <1>1, <2>1
<1>3. /\ \A k \in DOMAIN t : k \in DOMAIN (t \o u) /\ (t \o u)[k] = t[k]
      /\ \A k \in DOMAIN u : Len(t) + k \in DOMAIN (t \o u) /\ (t \o u)[Len(t) + k] = u[k]
  BY <1>1
<1> DEFINE w == t \o u
<1>4. /\ \A k \in DOMAIN w : k \in DOMAIN t \/ (k - Len(t) \in DOMAIN u /\ w[k] = u[k - Len(t)])
      /\ \A k \in DOMAIN t : k \in DOMAIN w /\ w[k] = t[k]
      /\ \A k \in DOMAIN u : Len(t) + k \in DOMAIN w /\ w[Len(t) + k] = u[k]
  BY <1>2, <1>3
<1> HIDE DEF w
<1>5. Called(w) = Called(t) \union Called(u)
  BY <1>4 DEF Called, Replies
<1>6. SettledIn(w) = SettledIn(t) \union SettledIn(u)
  BY <1>4 DEF SettledIn
<1>7. \A k \in Replies(w) : k \in Replies(t) \/ k - Len(t) \in Replies(u)
  BY <1>4 DEF Replies
<1> QED
  BY <1>5, <1>6, <1>7 DEF w

\* Inputs close what was closed.
LEMMA InputsClosed ==
  ASSUME NEW t \in Seq(Message), Closed(t), NEW s \in Seq(Inputs)
  PROVE  Additions(s) \in Seq(Message) /\ Closed(t \o Additions(s))
<1> DEFINE u == Additions(s)
<1>1. u = [k \in 1..Len(s) |-> Input(s[k])] /\ \A k \in 1..Len(s) : u[k] \in Message /\ u[k].role = "user"
  BY MessagesBuilt DEF Additions
<1>2. u \in Seq(Message) /\ DOMAIN u = 1..Len(s)
  BY <1>1
<1> HIDE DEF u
<1>3. Called(u) = {} /\ SettledIn(u) = {} /\ Replies(u) = {}
  BY <1>1, <1>2 DEF Called, SettledIn, Replies
<1>4. Valid(t \o u)
  BY <1>2, <1>3, PartsOfGrown, ClosedByGrows DEF Valid, Closed
<1>5. SettledIn(t \o u) \subseteq Called(t \o u)
  BY <1>2, <1>3, PartsOfGrown DEF Closed
<1> QED
  BY <1>2, <1>4, <1>5 DEF Closed, u

\* A reply is the one open end of the history it is added to.
LEMMA ReplyOpens ==
  ASSUME NEW u \in Seq(Message), Closed(u), NEW calls \in SUBSET CallIds
  PROVE  LET t == Append(u, Reply(calls))
         IN  /\ t \in Seq(Message) /\ Len(t) = Len(u) + 1 /\ Last(t) = Reply(calls) /\ Last(t).calls = calls
             /\ Called(t) = Called(u) \union calls /\ SettledIn(t) = SettledIn(u)
             /\ \A k \in Replies(t) : ClosedBy(t, k) \/ k = Len(t)
<1> DEFINE r == <<Reply(calls)>>
           t == u \o r
<1>1. r \in Seq(Message) /\ DOMAIN r = {1} /\ r[1] = Reply(calls) /\ Append(u, Reply(calls)) = t
  BY MessagesBuilt
<1>2. Called(r) = calls /\ SettledIn(r) = {} /\ Replies(r) = {1}
  BY <1>1, MessagesBuilt DEF Called, SettledIn, Replies
<1>3. t \in Seq(Message) /\ Len(t) = Len(u) + 1 /\ Last(t) = Reply(calls)
  BY <1>1 DEF Last
<1> HIDE DEF r
<1>4. \A k \in Replies(t) : ClosedBy(t, k) \/ k = Len(t)
  <2>1. ASSUME NEW k \in Replies(t), k - Len(u) = 1 PROVE k = Len(t)
    BY <1>3, <2>1 DEF Replies
  <2> QED
    BY <1>1, <1>2, <2>1, PartsOfGrown, ClosedByGrows DEF Closed, Valid
<1>5. Called(t) = Called(u) \union calls /\ SettledIn(t) = SettledIn(u)
  <2>1. Called(t) = Called(u) \union Called(r) /\ SettledIn(t) = SettledIn(u) \union SettledIn(r)
    BY <1>1, PartsOfGrown, Zenon
  <2> QED
    BY <1>2, <2>1, Zenon
<1>6. Last(t).calls = calls
  BY <1>3, MessagesBuilt
<1> HIDE DEF t
<1> QED
  BY <1>1, <1>3, <1>4, <1>5, <1>6

\* The results of its calls close it.
LEMMA ResultsClose ==
  ASSUME NEW u \in Seq(Message), Closed(u), NEW calls \in SUBSET CallIds, NEW of \in [calls -> Outcomes]
  PROVE  LET t == Append(u, Reply(calls))
         IN  t \o Results(of) \in Seq(Message) /\ Closed(t \o Results(of))
<1> DEFINE t == Append(u, Reply(calls))
           r == Results(of)
           n == Cardinality(calls)
           w == t \o r
<1>1. /\ t \in Seq(Message) /\ Len(t) = Len(u) + 1 /\ Last(t) = Reply(calls) /\ Last(t).calls = calls
      /\ Called(t) = Called(u) \union calls /\ SettledIn(t) = SettledIn(u)
      /\ \A k \in Replies(t) : ClosedBy(t, k) \/ k = Len(t)
  BY ReplyOpens
<1>2. /\ r \in Seq(Message) /\ Len(r) = n /\ n \in Nat
      /\ \A k \in 1..n : r[k] \in [role : {"tool"}, call : calls, status : Outcomes]
      /\ {r[k].call : k \in 1..n} = calls
  BY ResultsAnswer, CallsFinite
<1> HIDE DEF t, r, n
<1>3. DOMAIN r = 1..n /\ \A k \in 1..n : r[k].role = "tool"
  BY <1>2
<1>4. Called(r) = {} /\ Replies(r) = {} /\ SettledIn(r) = calls
  BY <1>2, <1>3 DEF Called, SettledIn, Replies
<1>5. w \in Seq(Message) /\ Len(w) = Len(t) + n /\ \A k \in 1..n : w[Len(t) + k] = r[k]
  <2>1. t \in Seq(Message) /\ r \in Seq(Message) /\ Len(r) = n
    BY <1>1, <1>2
  <2> QED
    BY ONLY <2>1
<1>6. w[Len(t)] = Reply(calls)
  BY <1>1, <1>2 DEF Last
<1>7. SettledIn(w) \subseteq Called(w)
  BY <1>1, <1>2, <1>4, PartsOfGrown DEF Closed
<1>8. ASSUME Len(t) \in Replies(w) PROVE ClosedBy(w, Len(t))
  <2>1. w[Len(t)].calls = calls
    BY <1>6, MessagesBuilt
  <2>2. \A j \in (Len(t) + 1)..(Len(t) + n) : j - Len(t) \in 1..n /\ w[j] = r[j - Len(t)]
    <3> SUFFICES ASSUME NEW j \in (Len(t) + 1)..(Len(t) + n)
                 PROVE  j - Len(t) \in 1..n /\ w[j] = r[j - Len(t)]
      OBVIOUS
    <3>1. j - Len(t) \in 1..n /\ Len(t) + (j - Len(t)) = j
      BY <1>1, <1>2
    <3> QED
      BY <1>5, <3>1
  <2>3. \A k \in 1..n : Len(t) + k \in (Len(t) + 1)..(Len(t) + n)
    BY <1>1, <1>2
  <2> HIDE DEF w
  <2>4. {w[j].call : j \in (Len(t) + 1)..(Len(t) + n)} = {r[k].call : k \in 1..n}
    BY SMTT(30), <1>5, <2>2, <2>3
  <2>5. {w[j] : j \in (Len(t) + 1)..(Len(t) + n)} \subseteq [role : {"tool"}, call : calls, status : Outcomes]
    BY <1>2, <2>2
  <2>6. Cardinality(w[Len(t)].calls) = n /\ Len(t) + n <= Len(w)
    BY <1>1, <1>2, <1>5, <2>1 DEF n
  <2>7. {w[j].call : j \in (Len(t) + 1)..(Len(t) + n)} = w[Len(t)].calls
    BY <1>2, <2>1, <2>4
  <2>8. {w[j] : j \in (Len(t) + 1)..(Len(t) + n)} \subseteq
          [role : {"tool"}, call : w[Len(t)].calls, status : {"Success", "Skipped", "Unknown"}]
    BY <2>1, <2>5 DEF Outcomes
  <2> QED
    BY <2>6, <2>7, <2>8, Zenon DEF ClosedBy
<1>9. \A k \in Replies(w) : ClosedBy(w, k)
  <2> SUFFICES ASSUME NEW k \in Replies(w) PROVE ClosedBy(w, k)
    OBVIOUS
  <2>1. k \in Replies(t)
    BY <1>1, <1>2, <1>4, PartsOfGrown
  <2>2. CASE k = Len(t)
    BY <1>8, <2>2
  <2>3. CASE ClosedBy(t, k)
    BY <1>1, <1>2, <2>1, <2>3, ClosedByGrows
  <2> QED
    BY <1>1, <2>1, <2>2, <2>3
<1> QED
  BY <1>5, <1>7, <1>9 DEF Closed, Valid, t, r

\* In a closed history nothing is outstanding; in an open one, the calls of the last reply.
LEMMA Outstanding ==
  /\ \A t \in Seq(Message) : Closed(t) => Called(t) \ SettledIn(t) = {}
  /\ \A u \in Seq(Message), calls \in SUBSET CallIds :
       Closed(u) /\ calls \intersect Called(u) = {} =>
         Called(Append(u, Reply(calls))) \ SettledIn(Append(u, Reply(calls))) = calls
<1>1. ASSUME NEW t \in Seq(Message), Closed(t) PROVE Called(t) \subseteq SettledIn(t)
  <2> SUFFICES ASSUME NEW k \in Replies(t), NEW c \in t[k].calls PROVE c \in SettledIn(t)
    BY DEF Called
  <2> DEFINE n == Cardinality(t[k].calls)
  <2>1. ClosedBy(t, k) /\ k \in 1..Len(t) /\ n \in Nat
    BY <1>1, CallsFinite, MessageFields DEF Closed, Valid, Replies
  <2>2. PICK j \in (k + 1)..(k + n) : t[j].call = c
    BY <2>1 DEF ClosedBy
  <2>3. t[j] \in [role : {"tool"}, call : t[k].calls, status : {"Success", "Skipped", "Unknown"}]
    BY <2>1 DEF ClosedBy
  <2>4. j \in DOMAIN t /\ t[j].role = "tool"
    BY <2>1, <2>3 DEF ClosedBy
  <2> QED
    BY <2>2, <2>4 DEF SettledIn
<1>2. ASSUME NEW u \in Seq(Message), NEW calls \in SUBSET CallIds,
             Closed(u), calls \intersect Called(u) = {}
      PROVE  Called(Append(u, Reply(calls))) \ SettledIn(Append(u, Reply(calls))) = calls
  BY <1>1, <1>2, ReplyOpens DEF Closed
<1> QED
  BY <1>1, <1>2

\* A reply without calls is closed as it stands.
LEMMA NoCallsClosed ==
  ASSUME NEW u \in Seq(Message), Closed(u)
  PROVE  Closed(Append(u, Reply({})))
<1> DEFINE t == Append(u, Reply({}))
           of == Uniform({}, "Skipped")
<1>1. of \in [{} -> Outcomes] /\ t \in Seq(Message)
  BY ReplyOpens DEF Uniform, Outcomes
<1>2. Results(of) \in Seq(Message) /\ Len(Results(of)) = 0
  BY <1>1, ResultsAnswer, FS_EmptySet
<1>3. Closed(t \o Results(of))
  BY <1>1, ResultsClose
<1> HIDE DEF t
<1>4. t \o Results(of) = t
  BY <1>1, <1>2
<1> QED
  BY <1>3, <1>4 DEF t

-----------------------------------------------------------------------------
(* Initial states and steps                                                *)

\* A run starts with nothing added to its history, nothing sent and nothing stored.
LEMMA RunInit == Init => RunInv
<1> SUFFICES ASSUME Init PROVE RunInv
  OBVIOUS
<1>1. Types
  BY HistoryAssumption DEF Init, Types
<1>2. Steering /\ Acknowledged
  BY DEF Init, Steering, Acknowledged, Drained, Terminal
<1>3. Pairs
  BY DEF Init, Pairs, Closed, Valid, Replies, SettledIn, Called
<1>4. Snapshots
  BY DEF Init, Snapshots
<1> QED
  BY <1>1, <1>2, <1>3, <1>4 DEF RunInv

\* The history as a step leaves it: longer by inputs, by a reply, or by the results of the open one.
HistoryKept == UNCHANGED history
InputsAdded ==
    /\ pc = "input" /\ pc' \in {"loop", "room"} /\ transcript' = transcript \o Additions(taken)
    /\ bytes' = bytes + Len(taken)
ReplyAdded ==
    /\ pc = "model" /\ pc' = "after"
    /\ \E calls \in SUBSET CallIds :
         /\ calls \intersect Called(transcript) = {} /\ transcript' = Append(transcript, Reply(calls))
         /\ bytes' = bytes + 1 /\ bytes + 1 + Cardinality(calls) <= HistoryLimit
ResultsAdded ==
    /\ Opened /\ pc' \notin {"after", "batch"}
    /\ \E of \in [Pending -> Outcomes] : transcript' = transcript \o Results(of)
    /\ bytes' \in (bytes + Cardinality(Pending))..HistoryLimit

\* Types of the history, and its pairs, survive each of these.
LEMMA PairsKept ==
  ASSUME Types, Pairs, HistoryKept,
         \/ pc' = pc
         \/ (pc \notin {"after", "batch", "ended"} \/ Closed(transcript)) /\ pc' \notin {"after", "batch"}
         \/ pc = "after" /\ pc' \in {"batch", "ended"}
         \/ pc = "batch" /\ pc' = "ended"
  PROVE  Pairs'
<1>1. transcript' = transcript /\ bytes' = bytes
  BY DEF HistoryKept, history
<1>2. Closed(transcript)' <=> Closed(transcript)
  BY <1>1 DEF Closed, Valid, ClosedBy, Replies, SettledIn, Called
<1>3. Opened' <=> Opened
  BY <1>1 DEF Opened
<1> QED
  BY <1>2, <1>3 DEF Pairs

\* Inputs and results leave no pair open; a reply opens one and reserves the room to close it.
LEMMA PairsAdded ==
  ASSUME Types, Pairs, InputsAdded \/ ReplyAdded \/ ResultsAdded,
         pc = "input" => bytes + Len(taken) <= HistoryLimit
  PROVE  Pairs' /\ transcript' \in Seq(Message) /\ bytes' \in 0..HistoryLimit
<1>1. CASE InputsAdded
  <2>1. Closed(transcript)
    BY <1>1 DEF InputsAdded, Pairs
  <2>2. Closed(transcript') /\ transcript' \in Seq(Message)
    BY <1>1, <2>1, InputsClosed DEF InputsAdded, Types
  <2>3. bytes' \in 0..HistoryLimit
    BY <1>1, HistoryAssumption DEF InputsAdded, Types
  <2> QED
    BY <1>1, <2>2, <2>3 DEF InputsAdded, Pairs, Closed, Valid, ClosedBy, Replies, SettledIn, Called
<1>2. CASE ReplyAdded
  <2>1. Closed(transcript)
    BY <1>2 DEF ReplyAdded, Pairs
  <2>2. PICK calls \in SUBSET CallIds :
          /\ calls \intersect Called(transcript) = {} /\ transcript' = Append(transcript, Reply(calls))
          /\ bytes' = bytes + 1 /\ bytes + 1 + Cardinality(calls) <= HistoryLimit
    BY <1>2 DEF ReplyAdded
  <2>3. Cardinality(calls) \in Nat /\ transcript \in Seq(Message) /\ bytes \in 0..HistoryLimit
    BY CallsFinite DEF Types
  <2>4. bytes' \in 0..HistoryLimit /\ bytes' + Cardinality(calls) <= HistoryLimit
    BY <2>2, <2>3, HistoryAssumption
  <2>5. transcript' \in Seq(Message)
    BY <2>1, <2>2, <2>3, ReplyOpens
  <2>6. Opened'
    BY <2>1, <2>2, <2>3, <2>4 DEF Opened
  <2> QED
    BY <1>2, <2>4, <2>5, <2>6 DEF ReplyAdded, Pairs
<1>3. CASE ResultsAdded
  <2>1. PICK u \in Seq(Message), calls \in SUBSET CallIds :
          /\ transcript = Append(u, Reply(calls)) /\ Closed(u) /\ calls \intersect Called(u) = {}
          /\ bytes + Cardinality(calls) <= HistoryLimit
    BY <1>3 DEF ResultsAdded, Opened
  <2>2. Pending = calls
    BY <2>1, ReplyOpens DEF Pending
  <2>3. PICK of \in [calls -> Outcomes] : transcript' = transcript \o Results(of)
    BY <1>3, <2>2 DEF ResultsAdded
  <2>4. transcript' \in Seq(Message) /\ Closed(transcript')
    BY <2>1, <2>3, ResultsClose
  <2>5. bytes' \in 0..HistoryLimit
    <3>1. /\ Cardinality(calls) \in Nat /\ bytes \in 0..HistoryLimit
          /\ bytes' \in (bytes + Cardinality(calls))..HistoryLimit
      BY <1>3, <2>2, CallsFinite DEF ResultsAdded, Types
    <3> QED
      BY <3>1, HistoryAssumption
  <2> QED
    BY <1>3, <2>4, <2>5 DEF ResultsAdded, Pairs, Closed, Valid, ClosedBy, Replies, SettledIn, Called
<1> QED
  BY <1>1, <1>2, <1>3

\* The calls of the reply that is open, and the bytes reserved for them.
LEMMA PendingFits ==
  ASSUME Types, Opened
  PROVE  /\ Pending \in SUBSET CallIds /\ Cardinality(Pending) \in Nat
         /\ bytes + Cardinality(Pending) <= HistoryLimit
         /\ Unsettled = Pending
         /\ Pending = {} => Closed(transcript)
<1>1. PICK u \in Seq(Message), calls \in SUBSET CallIds :
        /\ transcript = Append(u, Reply(calls)) /\ Closed(u) /\ calls \intersect Called(u) = {}
        /\ bytes + Cardinality(calls) <= HistoryLimit
  BY DEF Opened
<1>2. Pending = calls
  BY <1>1, ReplyOpens DEF Pending
<1>3. Unsettled = calls
  BY <1>1, Outstanding DEF Unsettled
<1>4. calls = {} => Closed(transcript)
  BY <1>1, NoCallsClosed
<1> QED
  BY <1>1, <1>2, <1>3, <1>4, CallsFinite

\* Settle appends a result for each open call; there is always room for it.
LEMMA SettleAdds ==
  ASSUME Types, Opened, pc' \notin {"after", "batch"}, NEW s \in Outcomes,
         Settle(Uniform(Pending, s))
  PROVE  ResultsAdded
<1>1. /\ Pending \in SUBSET CallIds /\ Cardinality(Pending) \in Nat
      /\ bytes + Cardinality(Pending) <= HistoryLimit
  BY PendingFits
<1> DEFINE of == Uniform(Pending, s)
<1>2. of \in [Pending -> Outcomes] /\ DOMAIN of = Pending
  BY DEF Uniform
<1> HIDE DEF of
<1>3. transcript' = transcript \o Results(of) /\ bytes' = bytes + Cardinality(Pending)
  BY <1>1, <1>2 DEF Settle, of
<1>4. bytes' \in (bytes + Cardinality(Pending))..HistoryLimit
  <2>1. bytes \in 0..HistoryLimit
    BY DEF Types
  <2> HIDE DEF Pending
  <2> QED
    BY <1>1, <1>3, <2>1, HistoryAssumption
<1> QED
  BY <1>2, <1>3, <1>4 DEF ResultsAdded

\* How a step moves the history and the program counter.
Still ==
    /\ HistoryKept
    /\ \/ pc' = pc
       \/ (pc \notin {"after", "batch", "ended"} \/ Closed(transcript)) /\ pc' \notin {"after", "batch"}
       \/ pc = "after" /\ pc' \in {"batch", "ended"}
       \/ pc = "batch" /\ pc' = "ended"

\* A step adds to the history what its point in drive calls for: the inputs that were committed, the
\* reply that was admitted, or a result for each call of the reply that is open (history.rs extend).
LEMMA HistoryStep ==
  ASSUME RunInv, [Next]_vars
  PROVE  Still \/ InputsAdded \/ ReplyAdded \/ ResultsAdded
<1> USE DEF RunInv, history, HistoryKept
<1>1. CASE Terminate
  <2>1. CASE Ended
    <3>1. pc = "ended" /\ pc' = "transforms" /\ Settle(Uniform(Unsettled, "Unknown"))
      BY <2>1 DEF Ended
    <3>2. CASE Opened
      BY <3>1, <3>2, SettleAdds, PendingFits DEF Outcomes
    <3>3. CASE Closed(transcript)
      <4>1. Unsettled = {}
        BY <3>3, Outstanding DEF Unsettled, Types
      <4> DEFINE of == Uniform({}, "Unknown")
      <4>2. of \in [{} -> Outcomes] /\ DOMAIN of = {}
        BY DEF Uniform, Outcomes
      <4>3. Results(of) \in Seq(Message) /\ Len(Results(of)) = 0
        BY <4>2, ResultsAnswer, FS_EmptySet
      <4>4. Settle(of)
        BY <3>1, <4>1
      <4> HIDE DEF of
      <4>5. transcript \o Results(of) = transcript /\ bytes + Cardinality(DOMAIN of) = bytes
        BY <4>2, <4>3, FS_EmptySet DEF Types
      <4>6. HistoryKept
        BY <4>4, <4>5 DEF Settle
      <4> QED
        BY <3>1, <3>3, <4>6 DEF Still
    <3> QED
      BY <3>1, <3>2, <3>3 DEF Pairs
  <2>2. CASE TransformsFinished \/ FinishSaved \/ FinishNotSaved \/ TaskEnds
    BY <2>2 DEF TransformsFinished, FinishSaved, FinishNotSaved, TaskEnds, Goto, Still
  <2> QED
    BY <1>1, <2>1, <2>2 DEF Terminate
<1>2. CASE LoopTop \/ NoInputs \/ InputsTooLarge \/ TakeInputs \/ InputNotSaved
  BY <1>2 DEF LoopTop, NoInputs, InputsTooLarge, TakeInputs, InputNotSaved, Goto, Fail, Still
<1>3. CASE InputSaved
  BY <1>3 DEF InputSaved, Goto, InputsAdded
<1>4. CASE Room \/ Project \/ ProjectFails \/ BeforeSaved \/ BeforeNotSaved \/ ModelFails
  BY <1>4 DEF Room, Project, ProjectFails, BeforeSaved, BeforeNotSaved, ModelFails, Goto, Fail, Still
<1>5. ASSUME NEW calls \in SUBSET CallIds, ModelReplies(calls)
      PROVE  Still \/ ReplyAdded
  BY <1>5 DEF ModelReplies, Acceptable, Admits, Goto, Fail, Still, ReplyAdded
<1>6. CASE AfterSaved \/ AfterNotSaved
  <2>1. Opened /\ pc = "after"
    BY <1>6 DEF AfterSaved, AfterNotSaved, Pairs
  <2>2. CASE pc' = "ended" /\ Settle(Uniform(Pending, "Skipped"))
    BY <2>1, <2>2, SettleAdds DEF Outcomes
  <2>3. CASE HistoryKept /\ pc' = "batch"
    BY <2>1, <2>3 DEF Still
  <2>4. CASE HistoryKept /\ pc' = "inputs" /\ Pending = {}
    <3> DEFINE of == Uniform({}, "Skipped")
    <3>1. of \in [Pending -> Outcomes]
      BY <2>4 DEF Uniform, Outcomes
    <3>2. Results(of) \in Seq(Message) /\ Len(Results(of)) = 0 /\ Cardinality(Pending) = 0
      BY <2>4, <3>1, ResultsAnswer, FS_EmptySet
    <3> HIDE DEF of
    <3>3. transcript' = transcript \o Results(of)
      BY <2>4, <3>2 DEF Types
    <3>4. bytes' \in (bytes + Cardinality(Pending))..HistoryLimit
      BY <2>4, <3>2, HistoryAssumption DEF Types
    <3> QED
      BY <2>1, <2>4, <3>1, <3>3, <3>4 DEF ResultsAdded
  <2>5. \/ pc' = "ended" /\ Settle(Uniform(Pending, "Skipped"))
        \/ HistoryKept /\ pc' = "batch"
        \/ HistoryKept /\ pc' = "inputs" /\ Pending = {}
    BY <1>6 DEF AfterSaved, AfterNotSaved, Goto, Fail
  <2> QED
    BY <2>2, <2>3, <2>4, <2>5
<1>7. CASE BatchEnds
  <2>1. pc = "batch" /\ pc' = "tools" /\ Opened
    BY <1>7 DEF BatchEnds, Pairs
  <2>2. PICK of \in [Pending -> {"Success", "Unknown"}] :
          /\ transcript' = transcript \o Results(of)
          /\ bytes' \in (bytes + Cardinality(Pending))..HistoryLimit
    BY <1>7 DEF BatchEnds
  <2>3. of \in [Pending -> Outcomes]
    BY DEF Outcomes
  <2> QED
    BY <2>1, <2>2, <2>3 DEF ResultsAdded
<1>8. CASE ToolsSaved \/ ToolsNotSaved \/ DriverPanics
  BY <1>8 DEF ToolsSaved, ToolsNotSaved, DriverPanics, Goto, Fail, Still
<1>9. CASE Cancel \/ Expire \/ Land \/ Gone \/ (\E i \in Inputs : Steer(i)) \/ UNCHANGED vars
  BY <1>9 DEF Cancel, Expire, Land, Gone, Steer, vars, flow, Still
<1> QED
  BY <1>1, <1>2, <1>3, <1>4, <1>5, <1>6, <1>7, <1>8, <1>9 DEF Next, Drive

\* Pairs are closed before the model sees the history, and room for closing them was reserved.
LEMMA PairsStep == RunInv /\ [Next]_vars => Pairs' /\ transcript' \in Seq(Message) /\ bytes' \in 0..HistoryLimit
<1> SUFFICES ASSUME RunInv, [Next]_vars
             PROVE  Pairs' /\ transcript' \in Seq(Message) /\ bytes' \in 0..HistoryLimit
  OBVIOUS
<1>1. CASE Still
  BY <1>1, PairsKept DEF Still, HistoryKept, history, RunInv, Types
<1>2. CASE InputsAdded \/ ReplyAdded \/ ResultsAdded
  BY <1>2, PairsAdded DEF RunInv, Steering
<1> QED
  BY <1>1, <1>2, HistoryStep

\* What the run appends besides inputs are no inputs.
LEMMA Grown ==
  ASSUME RunInv, Still \/ ReplyAdded \/ ResultsAdded
  PROVE  /\ DOMAIN transcript \subseteq DOMAIN transcript'
         /\ \A j \in DOMAIN transcript : transcript'[j] = transcript[j]
         /\ \A j \in DOMAIN transcript' : transcript'[j].role = "user" => j \in DOMAIN transcript
<1>1. transcript \in Seq(Message)
  BY DEF RunInv, Types
<1>2. CASE Still
  BY <1>2 DEF Still, HistoryKept, history
<1>3. ASSUME NEW v \in Seq(Message), \A k \in DOMAIN v : v[k].role # "user", transcript' = transcript \o v
      PROVE  /\ DOMAIN transcript \subseteq DOMAIN transcript'
             /\ \A j \in DOMAIN transcript : transcript'[j] = transcript[j]
             /\ \A j \in DOMAIN transcript' : transcript'[j].role = "user" => j \in DOMAIN transcript
  <2>1. /\ DOMAIN transcript' = 1..(Len(transcript) + Len(v))
        /\ \A j \in 1..Len(transcript) : transcript'[j] = transcript[j]
        /\ \A j \in DOMAIN transcript' : j \notin 1..Len(transcript) =>
             j - Len(transcript) \in 1..Len(v) /\ transcript'[j] = v[j - Len(transcript)]
    BY <1>1, <1>3
  <2> QED
    BY <1>1, <1>3, <2>1
<1>4. CASE ReplyAdded
  <2>1. PICK calls \in SUBSET CallIds : transcript' = Append(transcript, Reply(calls))
    BY <1>4 DEF ReplyAdded
  <2> DEFINE v == <<Reply(calls)>>
  <2>2. v \in Seq(Message) /\ \A k \in DOMAIN v : v[k].role # "user"
    BY MessagesBuilt
  <2>3. transcript' = transcript \o v
    BY <1>1, <2>1
  <2> QED
    BY <1>3, <2>2, <2>3
<1>5. CASE ResultsAdded
  <2>1. Opened /\ Pending \in SUBSET CallIds
    BY <1>5, PendingFits DEF ResultsAdded, RunInv
  <2>2. PICK of \in [Pending -> Outcomes] : transcript' = transcript \o Results(of)
    BY <1>5 DEF ResultsAdded
  <2>3. /\ Results(of) \in Seq(Message) /\ Len(Results(of)) = Cardinality(Pending)
        /\ \A k \in 1..Cardinality(Pending) :
             Results(of)[k] \in [role : {"tool"}, call : Pending, status : Outcomes]
    BY <2>1, ResultsAnswer
  <2>4. \A k \in DOMAIN Results(of) : Results(of)[k].role # "user"
    BY <2>3
  <2> QED
    BY <1>3, <2>2, <2>3, <2>4
<1> QED
  BY <1>2, <1>4, <1>5

\* What was said of the inputs in the history stays true while no input is added to it.
LEMMA AcknowledgedKept ==
  ASSUME RunInv, Still \/ ReplyAdded \/ ResultsAdded,
         \A i \in Inputs : ack'[i] = "ok" <=> ack[i] = "ok",
         DOMAIN accepted \subseteq DOMAIN accepted',
         \A p \in DOMAIN accepted : accepted'[p] = accepted[p]
  PROVE  Acknowledged'
<1>1. /\ DOMAIN transcript \subseteq DOMAIN transcript'
      /\ \A j \in DOMAIN transcript : transcript'[j] = transcript[j]
      /\ \A j \in DOMAIN transcript' : transcript'[j].role = "user" => j \in DOMAIN transcript
  BY Grown
<1>2. DOMAIN transcript = 1..Len(transcript) /\ DOMAIN accepted = 1..Len(accepted)
      /\ Len(transcript) \in Nat /\ Len(accepted) \in Nat
  BY DEF RunInv, Types
<1>3. \A i \in Inputs : ack'[i] = "ok" <=> \E k \in DOMAIN transcript' : transcript'[k] = Input(i)
  BY <1>1, MessagesBuilt DEF RunInv, Acknowledged
<1>4. \A j, k \in DOMAIN transcript' :
        transcript'[j].role = "user" /\ transcript'[j] = transcript'[k] => j = k
  BY <1>1 DEF RunInv, Acknowledged
<1>5. ASSUME NEW k \in DOMAIN transcript', transcript'[k].role = "user"
      PROVE  \E p \in DOMAIN accepted' :
               /\ transcript'[k] = Input(accepted'[p])
               /\ \A q \in 1..(p - 1) : \E j \in 1..(k - 1) : transcript'[j] = Input(accepted'[q])
  <2>1. k \in DOMAIN transcript /\ transcript[k].role = "user"
    BY <1>1, <1>5
  <2>2. PICK p \in DOMAIN accepted :
          /\ transcript[k] = Input(accepted[p])
          /\ \A q \in 1..(p - 1) : \E j \in 1..(k - 1) : transcript[j] = Input(accepted[q])
    BY <2>1 DEF RunInv, Acknowledged
  <2>3. /\ \A q \in 1..(p - 1) : q \in DOMAIN accepted
        /\ \A j \in 1..(k - 1) : j \in DOMAIN transcript
    BY <1>2, <2>1
  <2> QED
    BY <1>1, <2>1, <2>2, <2>3
<1> QED
  BY <1>3, <1>4, <1>5 DEF Acknowledged

\* What the channel took and the run has not answered waits in order, while the history grows.
LEMMA SteeringKept ==
  ASSUME RunInv, Still \/ ReplyAdded \/ ResultsAdded, UNCHANGED <<queue, taken, accepted, ack>>,
         pc' = "input" => pc = "input" /\ bytes' = bytes,
         pc = "input" /\ pc' # "input" => taken = <<>>,
         pc \in Terminal => pc' \in Terminal
  PROVE  Steering'
<1>1. /\ DOMAIN transcript \subseteq DOMAIN transcript'
      /\ \A j \in DOMAIN transcript : transcript'[j] = transcript[j]
  BY Grown
<1> USE DEF RunInv, Steering, Types
<1>2. Drained' = Drained
  BY DEF Drained
<1>3. \A q \in 1..Drained : (\E j \in DOMAIN transcript : transcript[j] = Input(accepted[q]))
        => \E j \in DOMAIN transcript' : transcript'[j] = Input(accepted[q])
  BY <1>1
<1> HIDE DEF Drained
<1> QED
  BY <1>2, <1>3

\* A caller of steer is told at once that the channel is closed or full, or is the last in it.
LEMMA SteerStep ==
  ASSUME RunInv, NEW i \in Inputs, Steer(i)
  PROVE  /\ Steering' /\ Types'
         /\ \A j \in Inputs : ack'[j] = "ok" <=> ack[j] = "ok"
         /\ DOMAIN accepted \subseteq DOMAIN accepted'
         /\ \A p \in DOMAIN accepted : accepted'[p] = accepted[p]
<1> USE DEF RunInv, Types, flow, history
<1>1. ack[i] = "unsent" /\ UNCHANGED <<pc, transcript, bytes, taken>>
  BY DEF Steer
<1>2. \A p \in DOMAIN accepted : accepted[p] # i
  BY <1>1 DEF Steering
<1>3. \A k \in DOMAIN queue : queue[k] # i
  BY <1>1 DEF Steering
<1>4. \A k \in DOMAIN taken : taken[k] # i
  BY <1>1 DEF Steering
<1>5. CASE ack' = [ack EXCEPT ![i] = "closed"] /\ UNCHANGED <<queue, accepted>>
  <2>1. Types' /\ \A j \in Inputs : ack'[j] = "ok" <=> ack[j] = "ok"
    BY <1>1, <1>5
  <2>2. Drained' = Drained
    BY <1>1, <1>5 DEF Drained
  <2> HIDE DEF Drained
  <2>3. Steering'
    BY <1>1, <1>2, <1>3, <1>4, <1>5, <2>2 DEF Steering
  <2> QED
    BY <1>5, <2>1, <2>3
<1>6. CASE ack' = [ack EXCEPT ![i] = "full"] /\ UNCHANGED <<queue, accepted>>
  <2>1. Types' /\ \A j \in Inputs : ack'[j] = "ok" <=> ack[j] = "ok"
    BY <1>1, <1>6
  <2>2. Drained' = Drained
    BY <1>1, <1>6 DEF Drained
  <2> HIDE DEF Drained
  <2>3. Steering'
    BY <1>1, <1>2, <1>3, <1>4, <1>6, <2>2 DEF Steering
  <2> QED
    BY <1>6, <2>1, <2>3
<1>7. CASE ack' = [ack EXCEPT ![i] = "waiting"] /\ queue' = Append(queue, i) /\ accepted' = Append(accepted, i)
  <2>1. Types' /\ \A j \in Inputs : ack'[j] = "ok" <=> ack[j] = "ok"
    BY <1>1, <1>7
  <2>2. /\ DOMAIN accepted = 1..Len(accepted) /\ DOMAIN accepted' = 1..(Len(accepted) + 1)
        /\ \A p \in 1..Len(accepted) : accepted'[p] = accepted[p]
        /\ accepted'[Len(accepted) + 1] = i /\ Len(accepted) \in Nat /\ Len(accepted') = Len(accepted) + 1
    BY <1>7
  <2>3. /\ DOMAIN queue = 1..Len(queue) /\ DOMAIN queue' = 1..(Len(queue) + 1)
        /\ \A p \in 1..Len(queue) : queue'[p] = queue[p]
        /\ queue'[Len(queue) + 1] = i /\ Len(queue) \in Nat /\ Len(queue') = Len(queue) + 1
    BY <1>7
  <2>4. Drained' = Drained /\ taken' = taken /\ DOMAIN taken = 1..Len(taken) /\ Len(taken) \in Nat
    BY <1>1, <2>2, <2>3 DEF Drained
  <2>5. /\ \A p, q \in DOMAIN accepted' : accepted'[p] = accepted'[q] => p = q
        /\ \A p \in DOMAIN accepted' : ack'[accepted'[p]] \notin {"unsent", "full"}
    BY <1>2, <1>7, <2>2 DEF Steering
  <2>6. /\ \A k \in DOMAIN queue' : ack'[queue'[k]] = "waiting"
        /\ \A k \in DOMAIN taken' : ack'[taken'[k]] = "waiting"
    BY <1>3, <1>4, <1>7, <2>3, <2>4 DEF Steering
  <2>7. ASSUME pc \notin Terminal
        PROVE  /\ Drained \in Nat
               /\ \A k \in DOMAIN taken : taken[k] = accepted'[Drained + k]
               /\ \A k \in DOMAIN queue' : queue'[k] = accepted'[Drained + Len(taken) + k]
               /\ \A q \in 1..Drained : \E j \in DOMAIN transcript : transcript[j] = Input(accepted'[q])
    <3>1. /\ Drained \in Nat
          /\ \A k \in DOMAIN taken : taken[k] = accepted[Drained + k]
          /\ \A k \in DOMAIN queue : queue[k] = accepted[Drained + Len(taken) + k]
          /\ \A q \in 1..Drained : \E j \in DOMAIN transcript : transcript[j] = Input(accepted[q])
      BY <2>7 DEF Steering
    <3>2. Drained + Len(taken) + Len(queue) = Len(accepted)
      BY <2>2, <2>3, <2>4 DEF Drained
    <3> HIDE DEF Drained
    <3>3. \A q \in 1..Drained : q \in 1..Len(accepted)
      BY <2>3, <2>4, <3>1, <3>2
    <3>4. \A k \in DOMAIN taken : Drained + k \in 1..Len(accepted)
      BY <2>3, <2>4, <3>1, <3>2
    <3>5. \A k \in 1..Len(queue) : Drained + Len(taken) + k \in 1..Len(accepted)
      BY <2>3, <2>4, <3>1, <3>2
    <3>6. \A k \in DOMAIN queue' : queue'[k] = accepted'[Drained + Len(taken) + k]
      <4> SUFFICES ASSUME NEW k \in DOMAIN queue' PROVE queue'[k] = accepted'[Drained + Len(taken) + k]
        OBVIOUS
      <4>1. CASE k \in 1..Len(queue)
        BY <2>2, <2>3, <3>1, <3>5, <4>1
      <4>2. CASE k = Len(queue) + 1
        BY <2>2, <2>3, <2>4, <3>1, <3>2, <4>2
      <4> QED
        BY <2>3, <4>1, <4>2
    <3> QED
      BY <2>2, <3>1, <3>3, <3>4, <3>6
  <2> HIDE DEF Drained
  <2>8. Steering'
    BY <1>1, <2>4, <2>5, <2>6, <2>7 DEF Steering
  <2> QED
    BY <2>1, <2>2, <2>8
<1> QED
  BY <1>5, <1>6, <1>7 DEF Steer

\* What Answer tells whom.
LEMMA Answered ==
  ASSUME Types, NEW s \in Seq(Inputs), NEW a
  PROVE  /\ DOMAIN Answer(ToSet(s), a) = Inputs
         /\ \A i \in Inputs : Answer(ToSet(s), a)[i] = IF \E k \in DOMAIN s : s[k] = i THEN a ELSE ack[i]
BY DEF Answer, ToSet, Types

\* The inputs that are taken wait no longer in the channel.
LEMMA TakenApart ==
  ASSUME RunInv, pc \notin Terminal
  PROVE  \A k \in DOMAIN taken, j \in DOMAIN queue : taken[k] # queue[j]
<1> SUFFICES ASSUME NEW k \in DOMAIN taken, NEW j \in DOMAIN queue, taken[k] = queue[j] PROVE FALSE
  OBVIOUS
<1> DEFINE a == Drained
<1>1. /\ a \in Nat /\ a + Len(taken) + Len(queue) = Len(accepted)
      /\ Len(taken) \in Nat /\ Len(queue) \in Nat /\ k \in 1..Len(taken) /\ j \in 1..Len(queue)
      /\ DOMAIN accepted = 1..Len(accepted)
  BY DEF RunInv, Types, Steering, Drained
<1>2. taken[k] = accepted[a + k] /\ queue[j] = accepted[a + Len(taken) + j]
  BY DEF RunInv, Steering
<1> HIDE DEF a
<1>3. a + k \in DOMAIN accepted /\ a + Len(taken) + j \in DOMAIN accepted /\ a + k # a + Len(taken) + j
  BY <1>1
<1> QED
  BY <1>2, <1>3 DEF RunInv, Steering

\* Draining the channel keeps its order.
LEMMA TakeInputsStep ==
  ASSUME RunInv, TakeInputs
  PROVE  Steering'
<1>1. /\ pc = "inputs" /\ pc' = "input" /\ taken' = queue /\ queue' = <<>>
      /\ UNCHANGED <<transcript, bytes, accepted, ack>> /\ bytes + Len(queue) <= HistoryLimit
  BY DEF TakeInputs, Goto, history
<1>2. taken = <<>> /\ pc \notin Terminal
  BY <1>1 DEF RunInv, Steering, Terminal
<1>3. Len(taken) = 0 /\ Len(queue') = 0 /\ DOMAIN queue' = {} /\ Len(queue) \in Nat /\ Len(accepted) \in Nat
  BY <1>1, <1>2 DEF RunInv, Types
<1>4. Drained' = Drained
  BY <1>1, <1>3 DEF Drained
<1>5. \A k \in DOMAIN queue : queue[k] = accepted[Drained + k]
  <2>1. Drained \in Nat /\ \A k \in DOMAIN queue : queue[k] = accepted[Drained + Len(taken) + k]
    BY <1>2 DEF RunInv, Steering
  <2>2. Drained + Len(taken) = Drained
    BY <1>3, <2>1
  <2> QED
    BY <2>1, <2>2
<1> HIDE DEF Drained
<1> QED
  BY <1>1, <1>2, <1>3, <1>4, <1>5 DEF RunInv, Steering

\* Inputs that do not fit are refused together.
LEMMA InputsTooLargeStep ==
  ASSUME RunInv, InputsTooLarge
  PROVE  Steering' /\ ack' \in [Inputs -> {"unsent", "waiting", "ok", "failed", "closed", "full"}]
         /\ \A i \in Inputs : ack'[i] = "ok" <=> ack[i] = "ok"
<1>1. /\ pc = "inputs" /\ pc' = "ended" /\ ack' = Answer(ToSet(queue), "failed") /\ queue' = <<>>
      /\ UNCHANGED <<transcript, bytes, accepted, taken>>
  BY DEF InputsTooLarge, Fail, history
<1>2. \A i \in Inputs : ack'[i] = IF \E k \in DOMAIN queue : queue[k] = i THEN "failed" ELSE ack[i]
  BY <1>1, Answered DEF RunInv, Types
<1>3. ack' \in [Inputs -> {"unsent", "waiting", "ok", "failed", "closed", "full"}]
  BY <1>1, <1>2, Answered DEF Answer, RunInv, Types
<1>4. \A i \in Inputs : ack'[i] = "ok" <=> ack[i] = "ok"
  BY <1>2 DEF RunInv, Steering, Types
<1>5. taken = <<>> /\ DOMAIN queue' = {} /\ DOMAIN taken = {}
  BY <1>1 DEF RunInv, Steering
<1>6. Steering'
  BY <1>1, <1>2, <1>5 DEF RunInv, Types, Steering, Terminal
<1> QED
  BY <1>3, <1>4, <1>6

\* Inputs whose commit failed are refused, and those behind them still wait.
LEMMA InputNotSavedStep ==
  ASSUME RunInv, InputNotSaved
  PROVE  Steering' /\ ack' \in [Inputs -> {"unsent", "waiting", "ok", "failed", "closed", "full"}]
         /\ \A i \in Inputs : ack'[i] = "ok" <=> ack[i] = "ok"
<1>1. /\ pc = "input" /\ pc' = "ended" /\ ack' = Answer(ToSet(taken), "failed") /\ taken' = <<>>
      /\ UNCHANGED <<transcript, bytes, accepted, queue>>
  BY DEF InputNotSaved, Fail, history
<1>2. \A i \in Inputs : ack'[i] = IF \E k \in DOMAIN taken : taken[k] = i THEN "failed" ELSE ack[i]
  BY <1>1, Answered DEF RunInv, Types
<1>3. ack' \in [Inputs -> {"unsent", "waiting", "ok", "failed", "closed", "full"}]
  BY <1>1, <1>2, Answered DEF Answer, RunInv, Types
<1>4. \A i \in Inputs : ack'[i] = "ok" <=> ack[i] = "ok"
  BY <1>2 DEF RunInv, Steering, Types
<1>5. \A k \in DOMAIN queue : ack'[queue[k]] = "waiting"
  BY <1>1, <1>2, TakenApart DEF RunInv, Types, Steering, Terminal
<1>6. Steering'
  BY <1>1, <1>2, <1>5 DEF RunInv, Types, Steering, Terminal
<1> QED
  BY <1>3, <1>4, <1>6

\* The channel is dropped with what is in it.
LEMMA TaskEndsStep ==
  ASSUME RunInv, TaskEnds
  PROVE  Steering' /\ ack' \in [Inputs -> {"unsent", "waiting", "ok", "failed", "closed", "full"}]
         /\ \A i \in Inputs : ack'[i] = "ok" <=> ack[i] = "ok"
<1>1. /\ pc = "reported" /\ pc' = "gone" /\ ack' = Answer(ToSet(queue), "closed") /\ queue' = <<>>
      /\ UNCHANGED <<transcript, bytes, accepted, taken>>
  BY DEF TaskEnds, Goto, history
<1>2. \A i \in Inputs : ack'[i] = IF \E k \in DOMAIN queue : queue[k] = i THEN "closed" ELSE ack[i]
  BY <1>1, Answered DEF RunInv, Types
<1>3. ack' \in [Inputs -> {"unsent", "waiting", "ok", "failed", "closed", "full"}]
  BY <1>1, <1>2, Answered DEF Answer, RunInv, Types
<1>4. \A i \in Inputs : ack'[i] = "ok" <=> ack[i] = "ok"
  BY <1>2 DEF RunInv, Steering, Types
<1>5. taken = <<>> /\ DOMAIN queue' = {} /\ DOMAIN taken = {}
  BY <1>1 DEF RunInv, Steering
<1>6. Steering'
  BY <1>1, <1>2, <1>5 DEF RunInv, Types, Steering, Terminal
<1> QED
  BY <1>3, <1>4, <1>6

\* Acknowledged inputs enter the history once, behind all that were taken before them.
LEMMA InputSavedStep ==
  ASSUME RunInv, InputSaved
  PROVE  Steering' /\ Acknowledged'
         /\ ack' \in [Inputs -> {"unsent", "waiting", "ok", "failed", "closed", "full"}]
<1> DEFINE L == Len(transcript)
           n == Len(taken)
           a == Drained
<1>1. /\ pc = "input" /\ pc' \in {"loop", "room"} /\ ack' = Answer(ToSet(taken), "ok") /\ taken' = <<>>
      /\ transcript' = transcript \o Additions(taken)
      /\ UNCHANGED <<accepted, queue>>
  BY DEF InputSaved, Goto
<1>2. /\ L \in Nat /\ DOMAIN transcript = 1..L /\ n \in Nat /\ DOMAIN taken = 1..n
      /\ DOMAIN accepted = 1..Len(accepted) /\ Len(accepted) \in Nat
      /\ Len(queue) \in Nat /\ DOMAIN queue = 1..Len(queue)
      /\ \A k \in 1..n : taken[k] \in Inputs
      /\ \A k \in 1..Len(accepted) : accepted[k] \in Inputs
  BY DEF RunInv, Types
<1>3. /\ DOMAIN transcript' = 1..(L + n)
      /\ \A j \in 1..L : transcript'[j] = transcript[j]
      /\ \A k \in 1..n : transcript'[L + k] = Input(taken[k])
  <2>1. /\ transcript \in Seq(Message) /\ Additions(taken) \in Seq(Message)
        /\ Len(Additions(taken)) = n /\ \A k \in 1..n : Additions(taken)[k] = Input(taken[k])
    <3>1. Additions(taken) = [k \in 1..n |-> Input(taken[k])]
      BY DEF Additions, RunInv, Types
    <3>2. \A k \in 1..n : Input(taken[k]) \in Message
      BY <1>2, MessagesBuilt
    <3> HIDE DEF n
    <3> QED
      BY <1>2, <3>1, <3>2 DEF RunInv, Types
  <2>2. transcript' = transcript \o Additions(taken)
    BY <1>1
  <2> HIDE DEF n
  <2> QED
    <3> DEFINE v == Additions(taken)
    <3>1. v \in Seq(Message) /\ Len(v) = n /\ transcript \in Seq(Message) /\ n \in Nat /\ L \in Nat
      BY <1>2, <2>1
    <3>2. \A k \in 1..n : v[k] = Input(taken[k])
      BY <2>1
    <3> HIDE DEF v
    <3>3. /\ DOMAIN (transcript \o v) = 1..(L + n)
          /\ \A j \in 1..L : (transcript \o v)[j] = transcript[j]
          /\ \A k \in 1..n : (transcript \o v)[L + k] = v[k]
      BY <3>1
    <3> QED
      BY <2>2, <3>2, <3>3 DEF v
<1>4. \A j \in 1..(L + n) : j \in 1..L \/ (j - L \in 1..n /\ transcript'[j] = Input(taken[j - L]))
  <2> SUFFICES ASSUME NEW j \in 1..(L + n), j \notin 1..L
               PROVE  j - L \in 1..n /\ transcript'[j] = Input(taken[j - L])
    OBVIOUS
  <2>1. j - L \in 1..n /\ L + (j - L) = j
    BY <1>2
  <2> QED
    BY <1>3, <2>1
<1>5. /\ a \in Nat /\ a + n + Len(queue) = Len(accepted)
      /\ \A k \in 1..n : taken[k] = accepted[a + k]
      /\ \A k \in 1..Len(queue) : queue[k] = accepted[a + n + k]
      /\ \A q \in 1..a : \E j \in 1..L : transcript[j] = Input(accepted[q])
  <2>1. a + n + Len(queue) = Len(accepted)
    BY <1>2 DEF Drained
  <2>2. pc \notin Terminal
    BY <1>1 DEF Terminal
  <2> HIDE DEF a
  <2>3. /\ Drained \in Nat
        /\ \A k \in DOMAIN taken : taken[k] = accepted[Drained + k]
        /\ \A k \in DOMAIN queue : queue[k] = accepted[Drained + Len(taken) + k]
        /\ \A q \in 1..Drained : \E j \in DOMAIN transcript : transcript[j] = Input(accepted[q])
    BY <2>2 DEF RunInv, Steering
  <2> QED
    BY <1>2, <2>1, <2>3 DEF a
<1>6. \A m \in 1..n : a + m \in DOMAIN accepted /\ taken[m] = accepted[a + m]
  <2>1. n \in Nat /\ Len(queue) \in Nat /\ a \in Nat /\ a + n + Len(queue) = Len(accepted)
    BY <1>2, <1>5
  <2> HIDE DEF a, n
  <2>2. \A m \in 1..n : a + m \in 1..Len(accepted)
    BY ONLY <2>1
  <2> QED
    BY <1>2, <1>5, <2>2
<1>7. accepted' = accepted
  BY <1>1
<1>8. Drained' = a + n /\ DOMAIN taken' = {} /\ Len(taken') = 0
  <2>1. DOMAIN taken' = {} /\ Len(taken') = 0
    BY <1>1
  <2>2. Drained' = Len(accepted) - 0 - Len(queue)
    BY <1>1, <2>1 DEF Drained
  <2> HIDE DEF a, n
  <2>3. Len(accepted) \in Nat /\ Len(queue) \in Nat /\ n \in Nat /\ a \in Nat
    BY <1>2, <1>5
  <2>4. a + n + Len(queue) = Len(accepted)
    BY <1>5
  <2>5. Drained' = a + n
    BY ONLY <2>2, <2>3, <2>4
  <2> QED
    BY <2>1, <2>5
<1>9. \A i \in Inputs : ack'[i] = IF \E k \in 1..n : taken[k] = i THEN "ok" ELSE ack[i]
  <2>1. \A i \in Inputs : ack'[i] = IF \E k \in DOMAIN taken : taken[k] = i THEN "ok" ELSE ack[i]
    BY <1>1, Answered DEF RunInv, Types
  <2> QED
    BY <1>2, <2>1
<1> HIDE DEF L, n, a
<1>10. ack' \in [Inputs -> {"unsent", "waiting", "ok", "failed", "closed", "full"}]
  BY <1>1, <1>9, Answered DEF Answer, RunInv, Types
<1>11. \A k \in 1..n, j \in 1..Len(queue) : taken[k] # queue[j]
  <2>1. pc \notin Terminal
    BY <1>1 DEF Terminal
  <2> QED
    BY <1>2, <2>1, TakenApart
<1>12. \A q \in 1..(a + n) : \E j \in DOMAIN transcript' : transcript'[j] = Input(accepted[q])
  <2> SUFFICES ASSUME NEW q \in 1..(a + n)
               PROVE  \E j \in DOMAIN transcript' : transcript'[j] = Input(accepted[q])
    OBVIOUS
  <2>1. CASE q \in 1..a
    <3>1. PICK j \in 1..L : transcript[j] = Input(accepted[q])
      BY <1>5, <2>1
    <3>2. j \in DOMAIN transcript'
      BY <1>2, <1>3
    <3> QED
      BY <1>3, <3>1, <3>2
  <2>2. CASE q \notin 1..a
    <3>1. q - a \in 1..n /\ a + (q - a) = q /\ L + (q - a) \in 1..(L + n)
      BY <1>2, <1>5, <2>2
    <3>2. transcript'[L + (q - a)] = Input(accepted[q])
      BY <1>3, <1>5, <3>1
    <3> QED
      BY <1>3, <3>1, <3>2
  <2> QED
    BY <2>1, <2>2
<1>13. Steering'
  <2>1. /\ \A p \in DOMAIN accepted' : ack'[accepted'[p]] \notin {"unsent", "full"}
        /\ \A p, q \in DOMAIN accepted' : accepted'[p] = accepted'[q] => p = q
    BY <1>1, <1>2, <1>9 DEF RunInv, Steering
  <2>2. \A k \in DOMAIN queue' : ack'[queue'[k]] = "waiting"
    BY <1>1, <1>2, <1>9, <1>11 DEF RunInv, Steering, Types
  <2>3. \A k \in DOMAIN queue' : queue'[k] = accepted'[Drained' + Len(taken') + k]
    BY <1>1, <1>2, <1>5, <1>8
  <2>4. Drained' \in Nat /\ \A q \in 1..Drained' : \E j \in DOMAIN transcript' : transcript'[j] = Input(accepted'[q])
    BY <1>1, <1>2, <1>5, <1>8, <1>12
  <2> QED
    BY <1>1, <1>8, <2>1, <2>2, <2>3, <2>4 DEF Steering
<1>14. \A i \in Inputs : ack'[i] = "ok" <=> \E k \in DOMAIN transcript' : transcript'[k] = Input(i)
  <2> SUFFICES ASSUME NEW i \in Inputs
               PROVE  ack'[i] = "ok" <=> \E k \in DOMAIN transcript' : transcript'[k] = Input(i)
    OBVIOUS
  <2>1. ack[i] = "ok" <=> \E k \in 1..L : transcript[k] = Input(i)
    BY <1>2 DEF RunInv, Acknowledged
  <2>2. (\E k \in DOMAIN transcript' : transcript'[k] = Input(i))
          <=> (\E k \in 1..L : transcript[k] = Input(i)) \/ (\E k \in 1..n : taken[k] = i)
    <3>1. ASSUME NEW k \in DOMAIN transcript', transcript'[k] = Input(i)
          PROVE  (\E j \in 1..L : transcript[j] = Input(i)) \/ (\E j \in 1..n : taken[j] = i)
      BY <1>2, <1>3, <1>4, <3>1, MessagesBuilt
    <3>2. ASSUME NEW k \in 1..L, transcript[k] = Input(i)
          PROVE  k \in DOMAIN transcript' /\ transcript'[k] = Input(i)
      BY <1>2, <1>3, <3>2
    <3>3. ASSUME NEW k \in 1..n, taken[k] = i
          PROVE  L + k \in DOMAIN transcript' /\ transcript'[L + k] = Input(i)
      BY <1>2, <1>3, <3>3
    <3> QED
      BY <3>1, <3>2, <3>3
  <2> QED
    BY <1>9, <2>1, <2>2
<1>15. ASSUME NEW j \in DOMAIN transcript', NEW k \in DOMAIN transcript',
              transcript'[j].role = "user", transcript'[j] = transcript'[k]
       PROVE  j = k
  <2>1. ASSUME NEW l \in 1..L, NEW m \in 1..n, transcript[l] = Input(taken[m]) PROVE FALSE
    <3>1. ack[taken[m]] = "ok"
      BY <1>2, <2>1 DEF RunInv, Acknowledged
    <3> QED
      BY <1>2, <3>1 DEF RunInv, Steering
  <2>2. CASE j \in 1..L /\ k \in 1..L
    BY <1>2, <1>3, <1>15, <2>2 DEF RunInv, Acknowledged
  <2>3. CASE j \in 1..L /\ k \notin 1..L
    BY <1>3, <1>4, <1>15, <2>1, <2>3
  <2>4. CASE j \notin 1..L /\ k \in 1..L
    BY <1>3, <1>4, <1>15, <2>1, <2>4
  <2>5. CASE j \notin 1..L /\ k \notin 1..L
    <3>1. /\ j - L \in 1..n /\ k - L \in 1..n /\ taken[j - L] = taken[k - L]
      BY <1>2, <1>3, <1>4, <1>15, <2>5, MessagesBuilt
    <3>2. /\ a + (j - L) \in DOMAIN accepted /\ a + (k - L) \in DOMAIN accepted
          /\ accepted[a + (j - L)] = accepted[a + (k - L)]
      BY <1>6, <3>1
    <3>3. a + (j - L) = a + (k - L)
      BY <3>2 DEF RunInv, Steering
    <3> QED
      BY <1>2, <1>3, <1>5, <3>3
  <2> QED
    BY <2>2, <2>3, <2>4, <2>5
<1>16. ASSUME NEW k \in DOMAIN transcript', transcript'[k].role = "user"
       PROVE  \E p \in DOMAIN accepted' :
                /\ transcript'[k] = Input(accepted'[p])
                /\ \A q \in 1..(p - 1) : \E j \in 1..(k - 1) : transcript'[j] = Input(accepted'[q])
  <2>1. CASE k \in 1..L
    <3>1. PICK p \in DOMAIN accepted :
            /\ transcript[k] = Input(accepted[p])
            /\ \A q \in 1..(p - 1) : \E j \in 1..(k - 1) : transcript[j] = Input(accepted[q])
      BY <1>2, <1>3, <1>16, <2>1 DEF RunInv, Acknowledged
    <3>2. \A j \in 1..(k - 1) : transcript'[j] = transcript[j]
      BY <1>2, <1>3, <2>1
    <3>3. transcript'[k] = Input(accepted[p])
      BY <1>3, <2>1, <3>1
    <3>4. \A q \in 1..(p - 1) : \E j \in 1..(k - 1) : transcript'[j] = Input(accepted[q])
      BY <3>1, <3>2, Zenon
    <3> QED
      BY <1>7, <3>3, <3>4, Zenon
  <2>2. CASE k \notin 1..L
    <3> DEFINE p == a + (k - L)
    <3>1. k - L \in 1..n /\ transcript'[k] = Input(taken[k - L]) /\ k \in Nat
      BY <1>2, <1>3, <1>4, <2>2
    <3>2. p \in DOMAIN accepted' /\ transcript'[k] = Input(accepted'[p])
      BY <1>6, <1>7, <3>1
    <3>3. ASSUME NEW q \in 1..(p - 1)
          PROVE  \E j \in 1..(k - 1) : transcript'[j] = Input(accepted'[q])
      <4>1. CASE q \in 1..a
        <5>1. PICK j \in 1..L : transcript[j] = Input(accepted[q])
          BY <1>5, <4>1
        <5>2. j \in 1..(k - 1) /\ transcript'[j] = transcript[j]
          BY <1>2, <1>3, <3>1, <5>1
        <5> QED
          BY <1>7, <5>1, <5>2
      <4>2. CASE q \notin 1..a
        <5>1. q - a \in 1..n /\ a + (q - a) = q /\ L + (q - a) \in 1..(k - 1)
          BY <1>2, <1>5, <3>1, <3>3, <4>2
        <5>2. transcript'[L + (q - a)] = Input(accepted'[q])
          <6> DEFINE m == q - a
          <6>1. m \in 1..n /\ a + m = q
            BY <5>1
          <6> HIDE DEF m
          <6>2. taken[m] = accepted[q] /\ transcript'[L + m] = Input(taken[m])
            BY <1>3, <1>6, <6>1
          <6> QED
            BY <1>7, <6>2 DEF m
        <5> QED
          BY <5>1, <5>2
      <4> QED
        BY <4>1, <4>2
    <3> HIDE DEF p
    <3> QED
      BY <3>2, <3>3
  <2> QED
    BY <2>1, <2>2
<1>17. Acknowledged'
  BY <1>14, <1>15, <1>16 DEF Acknowledged
<1> QED
  BY <1>10, <1>13, <1>17

\* A step that is none of those that answer a caller or drain the channel.
Unheard == Still \/ ReplyAdded \/ ResultsAdded

\* It keeps what callers of steer were told.
LEMMA UnheardStep ==
  ASSUME RunInv, Unheard, UNCHANGED <<queue, taken, accepted, ack>>,
         transcript' \in Seq(Message), bytes' \in 0..HistoryLimit,
         pc' # "input" \/ (pc' = pc /\ bytes' = bytes), pc = "input" => pc' = "input",
         pc \in Terminal => pc' \in Terminal,
         pc' \in {"loop", "inputs", "input", "room", "project", "recover", "before", "model",
                  "after", "batch", "tools"} \union Terminal
  PROVE  Types' /\ Steering' /\ Acknowledged'
<1>1. Types'
  BY DEF RunInv, Types
<1>2. Steering'
  BY SteeringKept DEF Unheard
<1>3. Acknowledged'
  BY AcknowledgedKept DEF Unheard
<1> QED
  BY <1>1, <1>2, <1>3

\* Every step keeps what callers of steer were told (engine.rs steer, apply_inputs).
LEMMA SteeringStep == RunInv /\ [Next]_vars => Types' /\ Steering' /\ Acknowledged'
<1> SUFFICES ASSUME RunInv, [Next]_vars PROVE Types' /\ Steering' /\ Acknowledged'
  OBVIOUS
<1>1. transcript' \in Seq(Message) /\ bytes' \in 0..HistoryLimit
  BY PairsStep
<1>2. CASE InputSaved
  <2>1. Types'
    BY <1>1, <1>2, InputSavedStep DEF InputSaved, Goto, RunInv, Types
  <2> QED
    BY <1>2, <2>1, InputSavedStep
<1>3. CASE InputsTooLarge
  <2>1. UNCHANGED <<transcript, bytes, accepted, taken>> /\ pc = "inputs" /\ pc' = "ended" /\ queue' = <<>>
    BY <1>3 DEF InputsTooLarge, Fail, history
  <2>2. Still
    BY <2>1 DEF Still, HistoryKept, history
  <2>3. Types'
    BY <1>1, <1>3, <2>1, InputsTooLargeStep DEF RunInv, Types, Terminal
  <2> QED
    BY <1>3, <2>1, <2>2, <2>3, InputsTooLargeStep, AcknowledgedKept
<1>4. CASE InputNotSaved
  <2>1. UNCHANGED <<transcript, bytes, accepted, queue>> /\ pc = "input" /\ pc' = "ended" /\ taken' = <<>>
    BY <1>4 DEF InputNotSaved, Fail, history
  <2>2. Still
    BY <2>1 DEF Still, HistoryKept, history
  <2>3. Types'
    BY <1>1, <1>4, <2>1, InputNotSavedStep DEF RunInv, Types, Terminal
  <2> QED
    BY <1>4, <2>1, <2>2, <2>3, InputNotSavedStep, AcknowledgedKept
<1>5. CASE TaskEnds
  <2>1. UNCHANGED <<transcript, bytes, accepted, taken>> /\ pc = "reported" /\ pc' = "gone" /\ queue' = <<>>
    BY <1>5 DEF TaskEnds, Goto, history
  <2>2. Still
    BY <2>1 DEF Still, HistoryKept, history
  <2>3. Types'
    BY <1>1, <1>5, <2>1, TaskEndsStep DEF RunInv, Types, Terminal
  <2> QED
    BY <1>5, <2>1, <2>2, <2>3, TaskEndsStep, AcknowledgedKept
<1>6. CASE TakeInputs
  <2>1. UNCHANGED <<transcript, bytes, accepted, ack>> /\ pc = "inputs" /\ pc' = "input"
        /\ taken' = queue /\ queue' = <<>>
    BY <1>6 DEF TakeInputs, Goto, history
  <2>2. Still
    BY <2>1 DEF Still, HistoryKept, history
  <2>3. Types'
    BY <1>1, <2>1 DEF RunInv, Types
  <2> QED
    BY <1>6, <2>1, <2>2, <2>3, TakeInputsStep, AcknowledgedKept
<1>7. ASSUME NEW i \in Inputs, Steer(i) PROVE Types' /\ Steering' /\ Acknowledged'
  <2>1. Still
    BY <1>7 DEF Steer, flow, Still, HistoryKept
  <2> QED
    BY <1>7, <2>1, SteerStep, AcknowledgedKept
<1>8. CASE LoopTop \/ NoInputs \/ Room \/ Project \/ ProjectFails \/ BeforeSaved \/ BeforeNotSaved
           \/ ModelFails \/ AfterSaved \/ AfterNotSaved \/ BatchEnds \/ ToolsSaved \/ ToolsNotSaved
  <2>1. /\ UNCHANGED <<queue, taken, accepted, ack>> /\ pc # "input" /\ pc' # "input" /\ pc \notin Terminal
        /\ pc' \in {"loop", "inputs", "room", "project", "recover", "before", "model",
                    "after", "batch", "tools", "ended"}
    BY <1>8 DEF LoopTop, NoInputs, Room, Project, ProjectFails, BeforeSaved, BeforeNotSaved, ModelFails,
                AfterSaved, AfterNotSaved, BatchEnds, ToolsSaved, ToolsNotSaved, Goto, Fail, steering, Terminal
  <2>2. Unheard
    BY <2>1, HistoryStep DEF Unheard, InputsAdded
  <2> QED
    BY <1>1, <2>1, <2>2, UnheardStep DEF Terminal
<1>9. ASSUME NEW calls \in SUBSET CallIds, ModelReplies(calls) PROVE Types' /\ Steering' /\ Acknowledged'
  <2>1. /\ UNCHANGED <<queue, taken, accepted, ack>> /\ pc = "model" /\ pc' \in {"after", "ended"}
    BY <1>9 DEF ModelReplies, Goto, Fail, steering
  <2>2. Unheard
    BY <2>1, HistoryStep DEF Unheard, InputsAdded
  <2> QED
    BY <1>1, <2>1, <2>2, UnheardStep DEF Terminal
<1>10. CASE DriverPanics \/ Ended \/ TransformsFinished \/ FinishSaved \/ FinishNotSaved
  <2>1. /\ UNCHANGED <<queue, taken, accepted, ack>> /\ pc # "input" /\ pc' \in Terminal
    BY <1>10 DEF DriverPanics, Ended, TransformsFinished, FinishSaved, FinishNotSaved, Goto, Fail, steering,
                 Terminal
  <2>2. Unheard
    BY <2>1, HistoryStep DEF Unheard, InputsAdded
  <2> QED
    BY <1>1, <2>1, <2>2, UnheardStep DEF Terminal
<1>11. CASE Gone \/ Cancel \/ Expire \/ Land \/ UNCHANGED vars
  <2>1. UNCHANGED <<queue, taken, accepted, ack, pc, transcript, bytes>>
    BY <1>11 DEF Gone, Cancel, Expire, Land, vars, flow, history, steering
  <2>2. Unheard
    BY <2>1 DEF Unheard, Still, HistoryKept, history
  <2> QED
    BY <1>1, <2>1, <2>2, UnheardStep DEF RunInv, Types
<1> QED
  BY <1>2, <1>3, <1>4, <1>5, <1>6, <1>7, <1>8, <1>9, <1>10, <1>11 DEF Next, Drive, Terminate

\* Nothing is sent before the sink has stored what it rests on, and what is stored stays.
LEMMA SnapshotsStep == RunInv /\ [Next]_vars => Snapshots'
<1> SUFFICES ASSUME RunInv, [Next]_vars PROVE Snapshots'
  OBVIOUS
<1> USE DEF RunInv, Snapshots, flow, history, ckpt
<1>1. CASE LoopTop \/ NoInputs \/ InputsTooLarge \/ InputSaved \/ Room \/ ProjectFails \/ ModelFails
  BY <1>1 DEF LoopTop, NoInputs, InputsTooLarge, InputSaved, Room, ProjectFails, ModelFails, Saved, Goto, Fail
<1>2. CASE TakeInputs \/ Project
  BY <1>2 DEF TakeInputs, Project, Write, Goto, Quiet
<1>3. CASE InputNotSaved \/ BeforeNotSaved \/ AfterNotSaved \/ ToolsNotSaved
  BY <1>3 DEF InputNotSaved, BeforeNotSaved, AfterNotSaved, ToolsNotSaved, NotSaved, Fail, Quiet
<1>4. CASE BeforeSaved
  BY <1>4 DEF BeforeSaved, Saved, Goto, Quiet
<1>5. CASE AfterSaved
  BY <1>5 DEF AfterSaved, Saved, Goto, Fail, Quiet
<1>6. CASE ToolsSaved
  BY <1>6 DEF ToolsSaved, Saved, Goto, Fail, Quiet
<1>7. ASSUME NEW calls \in SUBSET CallIds, ModelReplies(calls) PROVE Snapshots'
  BY <1>7 DEF ModelReplies, Write, Goto, Fail, Quiet
<1>8. CASE BatchEnds
  BY <1>8 DEF BatchEnds, Write, Quiet
<1>9. CASE DriverPanics
  BY <1>9 DEF DriverPanics, Fail, Quiet
<1>10. CASE Ended
  BY <1>10 DEF Ended
<1>11. CASE TransformsFinished
  BY <1>11 DEF TransformsFinished, Write, Quiet
<1>12. CASE FinishSaved \/ FinishNotSaved
  BY <1>12 DEF FinishSaved, FinishNotSaved, Saved, NotSaved, Goto, Quiet
<1>13. CASE TaskEnds
  BY <1>13 DEF TaskEnds, Goto, Quiet
<1>14. CASE Land
  BY <1>14 DEF Land
<1>15. CASE Gone \/ Cancel \/ Expire \/ (\E i \in Inputs : Steer(i)) \/ UNCHANGED vars
  BY <1>15 DEF Gone, Cancel, Expire, Steer, vars
<1> QED
  BY <1>1, <1>2, <1>3, <1>4, <1>5, <1>6, <1>7, <1>8, <1>9, <1>10, <1>11, <1>12, <1>13, <1>14, <1>15
  DEF Next, Drive, Terminate

\* The invariant says what a run has told others, at every point of drive.
LEMMA RunInvImplies == RunInv => HistoryHonest
<1> SUFFICES ASSUME RunInv PROVE HistoryHonest
  OBVIOUS
<1>1. AckHonest
  <2>1. ASSUME NEW i \in Inputs
        PROVE  Cardinality({k \in DOMAIN transcript : transcript[k] = Input(i)})
                 = IF ack[i] = "ok" THEN 1 ELSE 0
    <3> DEFINE S == {k \in DOMAIN transcript : transcript[k] = Input(i)}
    <3>1. CASE ack[i] = "ok"
      <4>1. PICK k \in DOMAIN transcript : transcript[k] = Input(i)
        BY <3>1 DEF RunInv, Acknowledged
      <4>2. S = {k}
        BY <4>1, MessagesBuilt DEF RunInv, Acknowledged
      <4> QED
        BY <3>1, <4>2, FS_Singleton
    <3>2. CASE ack[i] # "ok"
      <4>1. S = {}
        BY <3>2 DEF RunInv, Acknowledged
      <4> QED
        BY <3>2, <4>1, FS_EmptySet
    <3> QED
      BY <3>1, <3>2
  <2> QED
    BY <2>1 DEF AckHonest, RunInv, Acknowledged
<1>2. HistoryClosed
  <2>1. pc \notin {"after", "batch", "ended"} => Valid(transcript)
    BY DEF RunInv, Pairs, Closed
  <2>2. ASSUME pc = "ended" PROVE bytes + Cardinality(Unsettled) <= HistoryLimit
    <3>1. CASE Closed(transcript)
      <4>1. Unsettled = {} /\ bytes \in 0..HistoryLimit
        BY <3>1, Outstanding DEF Unsettled, RunInv, Types
      <4> QED
        BY <4>1, FS_EmptySet, HistoryAssumption
    <3>2. CASE Opened
      BY <3>2, PendingFits DEF RunInv
    <3> QED
      BY <2>2, <3>1, <3>2 DEF RunInv, Pairs
  <2> QED
    BY <2>1, <2>2 DEF HistoryClosed
<1>3. StoredBeforeActing /\ CompletedIsStored
  BY DEF RunInv, Snapshots, StoredBeforeActing, CompletedIsStored
<1> QED
  BY <1>1, <1>2, <1>3 DEF HistoryHonest

\* Whatever the limits, the inputs and the calls: what a run has told others is true of its history
\* and of its stored snapshots (engine.rs drive, apply_inputs; checkpoint.rs write; history.rs).
THEOREM HistoryHonestHolds == Spec => []HistoryHonest
<1>1. RunInv /\ [Next]_vars => RunInv'
  BY PairsStep, SteeringStep, SnapshotsStep DEF RunInv
<1> QED
  BY <1>1, RunInit, RunInvImplies, PTL DEF Spec
===============================================================================
