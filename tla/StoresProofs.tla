-------------------------- MODULE StoresProofs --------------------------------
(***************************************************************************)
(* What the server stores survives what happens to it: proofs about        *)
(* SessionStore for any turns, any number of runs, edits, failed saves and *)
(* crashes, and about the stores that MCStores sets beside it.  Each part  *)
(* states its own invariant where it begins: the session, the projects,    *)
(* the search index, memory, spilled results, compaction.                  *)
(*                                                                         *)
(* A session's file.  What a client reads of a file is always its archive and  *)
(* what the last turn has said since: its prompt and what its checkpoint   *)
(* holds or implies (Spoken), because a checkpoint is of the last turn and *)
(* holds its base, that prompt and a prefix of the run's script (Shape,    *)
(* Checked).  The log has one entry for each revision, so a client that    *)
(* read revision n and is let through has seen every turn (Logged).  A run *)
(* has one turn, and a turn one run (Owned).  A commit that waits for the  *)
(* lock or holds it is of the last turn, which is running, or of a task    *)
(* that was cancelled and can have no answer (Tasks); the checkpoint on    *)
(* disk is the acknowledged one or the one after it (Stored).  So whether  *)
(* a save lands, fails or lands and is reported failed, the file keeps its *)
(* shape, and a turn that has ended keeps its place (Fixed).  "Was not     *)
(* dispatched" gets into the history only of a turn whose run can have no  *)
(* further checkpoint (Denied).                                            *)
(***************************************************************************)
EXTENDS MCStores, SequenceTheorems, WellFoundedInduction, FiniteSetTheorems, TLAPS

\* What a history is made of.
Messages == {Seed, Summary} \union {Prompt(t) : t \in TurnIds} \union {Call(r) : r \in RunIds}
            \union {Answer(r) : r \in RunIds} \union {Outcome(r, s) : r \in RunIds, s \in {"ok", "skipped", "unknown"}}

\* The records of the file, and those of the process.
Turns == [id : TurnIds, run : 0..MaxRuns, status : Statuses, start : Nat, end : Nat]
Checkpoints == [run : 0..MaxRuns, rev : Nat, turn : Nat, msgs : Seq(Messages),
                call : {"none", "pending", "intent", "settled"}, final : {"none", "completed", "failed"}]
Bases == [set : BOOLEAN, input : Seq(Messages), pending : BOOLEAN]
Docs == [rev : Nat, status : Statuses \union {"idle"}, turns : Seq(Turns), cp : Checkpoints,
         archive : Seq(Messages), base : Bases, origin : {0, 1}]
Admissions == [pc : {"idle", "starting", "failing", "binding"}, turn : TurnIds \union {0}, run : 0..MaxRuns,
               input : Seq(Messages)]
RunRecords == [turn : TurnIds \union {0}, pc : {"unused", "live", "settling", "over", "dead"}, input : Seq(Messages),
               acked : 0..LastStage, op : {"none", "queued", "writing", "done", "error", "refused"},
               cancelled : BOOLEAN, want : {"none", "completed", "failed"},
               report : {"none", "completed", "failed"}, told : {"none", "completed", "failed", "error"}]

-----------------------------------------------------------------------------
(* The inductive invariant                                                 *)

Types ==
    /\ up \in BOOLEAN /\ present \in BOOLEAN /\ created \in BOOLEAN /\ (present => created)
    /\ gate \in 0..MaxRuns /\ adm \in Admissions /\ runs \in [RunIds -> RunRecords]
    /\ doc \in Docs /\ log \in Seq(Nat) /\ sentOn \in [TurnIds -> Nat]
    /\ edits \in Nat /\ crashes \in Nat /\ faults \in Nat

\* What the last turn has added to a file's history: its prompt, and what its checkpoint holds or implies.
Body(cp) ==
    CASE cp.final = "none" -> Said(cp.run, cp.rev)
      [] cp.final = "failed" -> Closed(cp.run, cp.rev - 1)
      [] cp.final = "completed" -> Append(Closed(cp.run, cp.rev - 1), Answer(cp.run))
Rest(cp) == IF cp.run = 0 THEN <<>> ELSE Body(cp) \o Recovered(cp)
Spoken(d) == IF d.turns = <<>> THEN <<>> ELSE <<Prompt(Last(d.turns).id)>> \o Rest(d.cp)

\* A file without a base is new; without a turn it is new or seeded; a turn's archive is all that was
\* said before it, and its end all there is now.
Shape(d) ==
    /\ d.status = (IF d.turns = <<>> THEN "idle" ELSE Last(d.turns).status)
    /\ ~d.base.set => d.turns = <<>> /\ d.archive = <<>> /\ d.origin = 0
    /\ d.turns = <<>> => /\ d.cp.run = 0
                         /\ d.base.set => d.archive = d.base.input /\ Len(d.archive) = d.origin /\ d.base.pending
    /\ d.turns # <<>> => /\ Len(d.archive) = Last(d.turns).start
                         /\ Last(d.turns).end = Len(d.archive) + Len(Spoken(d))
                         /\ d.cp.run = 0 => d.base.pending
    /\ \A i \in DOMAIN d.turns : i < Len(d.turns) => d.turns[i].end <= Last(d.turns).start
\* A checkpoint is of the last turn, and holds what its run was given and what it said.
Checked(d) ==
    d.cp.run # 0 =>
        /\ d.turns # <<>> /\ d.cp.turn = Len(d.turns) /\ Last(d.turns).run = d.cp.run
        /\ d.cp.msgs = d.base.input \o (<<Prompt(Last(d.turns).id)>> \o Body(d.cp))
        /\ d.cp.call = (IF d.cp.final = "none" THEN CallState(d.cp.rev) ELSE "none")
        /\ d.cp.final # "none" => d.status = d.cp.final
\* What a history is read from.
Rooted(d) ==
    /\ ~d.base.set => d.turns = <<>> /\ d.archive = <<>>
    /\ d.turns = <<>> => d.cp.run = 0
    /\ d.cp.run # 0 => d.cp.msgs = d.base.input \o (<<Prompt(Last(d.turns).id)>> \o Body(d.cp))
FileInv == TurnsFit(doc) /\ Shape(doc) /\ Checked(doc)

\* The log has the number of turns of every revision; there is no file but a created one.
Logged ==
    /\ present => Len(log) = doc.rev /\ doc.rev > 0 /\ log[doc.rev] = Len(doc.turns)
    /\ ~present => doc = Blank /\ log = <<>>
    /\ \A i \in DOMAIN doc.turns : sentOn[doc.turns[i].id] = i - 1

\* The run is of the last turn of the file.
Current(r) == present /\ doc.turns # <<>> /\ LastTurn.id = runs[r].turn

\* A run belongs to one admitted turn, an admission to the last.
Owned ==
    /\ \A r \in RunIds : runs[r].pc = "unused" => runs[r] = Unused
    /\ ~created => \A r \in RunIds : runs[r].pc = "unused"
    /\ \A r \in RunIds : runs[r].pc # "unused" =>
        runs[r].turn \in TurnIds /\ (present => runs[r].turn \in TurnSet)
    /\ \A r, q \in RunIds : runs[r].pc # "unused" /\ runs[q].pc # "unused" /\ runs[r].turn = runs[q].turn => r = q
    /\ adm.pc \in {"starting", "failing"} =>
        /\ present /\ doc.turns # <<>> /\ LastTurn.id = adm.turn /\ doc.status = "running" /\ LastTurn.run = 0
        /\ \A r \in RunIds : runs[r].turn # adm.turn
        /\ adm.pc = "starting" => doc.base.input = adm.input
    /\ adm.pc = "binding" => adm.run \in RunIds /\ adm.turn \in TurnIds /\ runs[adm.run].turn = adm.turn
                             /\ runs[adm.run].pc # "unused"
    /\ ~up => gate = 0 /\ adm = Idle /\ \A r \in RunIds : runs[r].pc \in {"unused", "dead"}

\* The run is of the last turn, which runs, and it has had the answer to the checkpoint on disk.
Running(r) == Current(r) /\ doc.status = "running" /\ (doc.cp.run = r => doc.cp.rev = runs[r].acked)
\* The file has the run's turn as completed, and its answer.
Done(r) == present => \E i \in DOMAIN doc.turns : doc.turns[i].id = runs[r].turn /\ doc.turns[i].status = "completed"
                                                  /\ Answer(r) \in Range(History(doc))
\* What the state of a task's commit, its answer and its report say of the file.
TaskOk(r) ==
    /\ gate = r <=> runs[r].op = "writing"
    /\ runs[r].pc = "live" => ~runs[r].cancelled
    /\ runs[r].pc \in {"unused", "dead"} => runs[r].op = "none" /\ runs[r].report = "none"
    /\ runs[r].pc = "live" /\ runs[r].op = "none" => runs[r].want = "none"
    /\ runs[r].pc = "settling" => runs[r].report # "none"
    /\ runs[r].op \in {"queued", "writing"} /\ runs[r].pc # "live" => runs[r].cancelled
    /\ runs[r].op # "refused" /\ (runs[r].op = "error" => faults > 0)
    /\ runs[r].want = "none" /\ runs[r].op # "none" => runs[r].acked < LastStage
    /\ runs[r].pc = "live" /\ runs[r].op \in {"none", "queued", "writing"} => Running(r)
    /\ gate = r => Running(r)
    /\ runs[r].pc = "live" /\ runs[r].op = "done" /\ runs[r].want = "none" =>
        /\ Current(r) /\ doc.status = "running"
        /\ doc.cp.run = r /\ doc.cp.rev = runs[r].acked + 1
    /\ runs[r].pc = "live" /\ runs[r].op = "done" /\ runs[r].want = "completed" => Done(r)
    /\ runs[r].report = "completed" \/ runs[r].told = "completed" => Done(r)
Tasks == \A r \in RunIds : TaskOk(r)

\* What the file has of the run of its last turn.
StoredOk(r) ==
    /\ LastTurn.run \in {0, r}
    /\ runs[r].acked > 0 => doc.cp.run = r
    /\ doc.cp.run = r => /\ runs[r].acked \in {doc.cp.rev - 1, doc.cp.rev} /\ doc.cp.rev > 0
                         /\ doc.cp.final # "none" => runs[r].acked = doc.cp.rev - 1
    /\ runs[r].pc \notin {"unused", "dead"} => doc.base.input = runs[r].input
Stored ==
    /\ present /\ doc.cp.run # 0 => runs[doc.cp.run].pc # "unused" /\ runs[doc.cp.run].turn = LastTurn.id
    /\ \A r \in RunIds : Current(r) => StoredOk(r)

\* Only a run that can have no further checkpoint is remembered as not dispatched.
Denied ==
    \A r \in RunIds : Outcome(r, "skipped") \in Range(doc.archive) =>
        runs[r].pc # "unused" /\ runs[r].acked <= 2 /\ ~Current(r)

SessionInv == Types /\ FileInv /\ Logged /\ Owned /\ Tasks /\ Stored /\ Denied

-----------------------------------------------------------------------------
(* Sequences                                                               *)

\* What a concatenation holds, and where.
LEMMA ConcatFacts ==
    ASSUME NEW S, NEW s \in Seq(S), NEW t \in Seq(S)
    PROVE  /\ s \o t \in Seq(S) /\ Len(s \o t) = Len(s) + Len(t)
           /\ \A i \in 1..Len(s) : (s \o t)[i] = s[i]
           /\ \A i \in 1..Len(t) : (s \o t)[Len(s) + i] = t[i]
           /\ Range(s \o t) = Range(s) \union Range(t)
<1>1. s \o t \in Seq(S) /\ Len(s \o t) = Len(s) + Len(t)
  OBVIOUS
<1>2. /\ \A i \in 1..Len(s) : (s \o t)[i] = s[i]
      /\ \A i \in 1..Len(t) : (s \o t)[Len(s) + i] = t[i]
  OBVIOUS
<1>3. ASSUME NEW x \in Range(s \o t) PROVE x \in Range(s) \union Range(t)
  <2>1. PICK i \in 1..(Len(s) + Len(t)) : x = (s \o t)[i]
    BY <1>1 DEF Range
  <2>2. CASE i <= Len(s)
    BY <2>1, <2>2, <1>2 DEF Range
  <2>3. CASE i > Len(s)
    <3>1. (i - Len(s)) \in 1..Len(t) /\ i = Len(s) + (i - Len(s))
      BY <2>1, <2>3
    <3> QED BY <2>1, <3>1, <1>2 DEF Range
  <2> QED BY <2>1, <2>2, <2>3
<1>4. ASSUME NEW x \in Range(s) \union Range(t) PROVE x \in Range(s \o t)
  <2>1. CASE x \in Range(s)
    <3>1. PICK i \in 1..Len(s) : x = s[i]
      BY <2>1 DEF Range
    <3>2. i \in 1..Len(s \o t) /\ x = (s \o t)[i]
      BY <3>1, <1>1, <1>2
    <3> QED BY <3>2, <1>1 DEF Range
  <2>2. CASE x \in Range(t)
    <3>1. PICK i \in 1..Len(t) : x = t[i]
      BY <2>2 DEF Range
    <3>2. Len(s) + i \in 1..Len(s \o t) /\ x = (s \o t)[Len(s) + i]
      BY <3>1, <1>1, <1>2
    <3> QED BY <3>2, <1>1 DEF Range
  <2> QED BY <1>4, <2>1, <2>2
<1> QED BY <1>1, <1>2, <1>3, <1>4

\* A prefix of a concatenation that is cut off.
LEMMA ConcatCut ==
    ASSUME NEW S, NEW s \in Seq(S), NEW t \in Seq(S)
    PROVE  /\ SubSeq(s \o t, Len(s) + 1, Len(s \o t)) = t
           /\ SubSeq(s \o t, 1, Len(s)) = SubSeq(s, 1, Len(s))
           /\ \A i, j \in Nat : i >= 1 /\ j <= Len(s) => SubSeq(s \o t, i, j) = SubSeq(s, i, j)
<1> DEFINE u == s \o t
<1>1. u \in Seq(S) /\ Len(u) = Len(s) + Len(t)
  OBVIOUS
<1>2. /\ \A i \in 1..Len(s) : u[i] = s[i]
      /\ \A i \in 1..Len(t) : u[Len(s) + i] = t[i]
  OBVIOUS
<1> HIDE DEF u
<1>3. SubSeq(u, Len(s) + 1, Len(u)) = t
  <2> DEFINE v == SubSeq(u, Len(s) + 1, Len(u))
  <2>1. v \in Seq(S) /\ Len(v) = Len(t)
    BY <1>1
  <2>2. \A i \in 1..Len(t) : v[i] = u[Len(s) + i]
    BY <1>1
  <2> HIDE DEF v
  <2>3. v = t
    BY <2>1, <2>2, <1>2
  <2> QED BY <2>3 DEF v
<1>4. ASSUME NEW i \in Nat, NEW j \in Nat, i >= 1, j <= Len(s) PROVE SubSeq(u, i, j) = SubSeq(s, i, j)
  <2>1. \A k \in 1..(j - i + 1) : u[i + k - 1] = s[i + k - 1]
    BY <1>2, <1>4
  <2> DEFINE v == SubSeq(u, i, j)
             w == SubSeq(s, i, j)
  <2>2. v = [k \in 1..(j - i + 1) |-> u[i + k - 1]]
    BY <1>1, <1>4
  <2>3. w = [k \in 1..(j - i + 1) |-> s[i + k - 1]]
    BY <1>1, <1>4
  <2> HIDE DEF v, w
  <2>4. v = w
    BY <2>1, <2>2, <2>3
  <2> QED BY <2>4 DEF v, w
<1>5. SubSeq(u, 1, Len(s)) = SubSeq(s, 1, Len(s))
  BY <1>4
<1> QED BY <1>3, <1>4, <1>5 DEF u

\* Concatenation is associative.
LEMMA ConcatAssoc ==
    ASSUME NEW S, NEW s \in Seq(S), NEW t \in Seq(S), NEW u \in Seq(S)
    PROVE  (s \o t) \o u = s \o (t \o u)
  OBVIOUS

-----------------------------------------------------------------------------
(* What a file says                                                        *)

\* The kinds of messages.
LEMMA Kinds ==
    /\ \A t \in TurnIds : Prompt(t) \in Messages
    /\ \A r \in RunIds : Call(r) \in Messages /\ Answer(r) \in Messages
    /\ \A r \in RunIds, s \in {"ok", "skipped", "unknown"} : Outcome(r, s) \in Messages
    /\ Seed \in Messages /\ Summary \in Messages
  BY DEF Messages

\* One or two messages.
LEMMA ShortSeqs ==
    ASSUME NEW x \in Messages, NEW y \in Messages
    PROVE  /\ <<>> \in Seq(Messages) /\ <<x>> \in Seq(Messages) /\ <<x, y>> \in Seq(Messages)
           /\ Range(<<>>) = {} /\ Range(<<x>>) = {x} /\ Range(<<x, y>>) = {x, y}
           /\ Len(<<x>>) = 1
<1>1. /\ <<>> \in Seq(Messages) /\ <<x>> \in Seq(Messages) /\ <<x, y>> \in Seq(Messages)
      /\ Len(<<x>>) = 1 /\ Len(<<>>) = 0 /\ Len(<<x, y>>) = 2
  OBVIOUS
<1>2. Range(<<>>) = {} /\ Range(<<x>>) = {x}
  BY DEF Range
<1>3. Range(<<x, y>>) = {x, y}
  BY DEF Range
<1> QED BY <1>1, <1>2, <1>3

\* What a run has said, and what closes it.
LEMMA SaidFacts ==
    ASSUME NEW r \in RunIds, NEW n \in Int
    PROVE  /\ Said(r, n) \in Seq(Messages) /\ Closed(r, n) \in Seq(Messages)
           /\ Range(Said(r, n)) \subseteq {Call(r), Outcome(r, "ok")}
           /\ Range(Closed(r, n)) \subseteq {Call(r), Outcome(r, "ok"), Outcome(r, "unknown"), Outcome(r, "skipped")}
           /\ n # 2 => Range(Closed(r, n)) \subseteq {Call(r), Outcome(r, "ok"), Outcome(r, "unknown")}
<1>1. /\ Call(r) \in Messages /\ Outcome(r, "ok") \in Messages /\ Outcome(r, "unknown") \in Messages
      /\ Outcome(r, "skipped") \in Messages
  BY Kinds
<1>2. Said(r, n) \in {<<>>, <<Call(r)>>, <<Call(r), Outcome(r, "ok")>>}
  BY DEF Said
<1>3. Closed(r, n) \in {<<>>, <<Call(r), Outcome(r, "skipped")>>, <<Call(r), Outcome(r, "unknown")>>,
                        <<Call(r), Outcome(r, "ok")>>}
  BY DEF Closed
<1>4. n # 2 => Closed(r, n) \in {<<>>, <<Call(r), Outcome(r, "unknown")>>, <<Call(r), Outcome(r, "ok")>>}
  BY DEF Closed
<1>4a. /\ Range(<<>>) = {} /\ Range(<<Call(r)>>) = {Call(r)}
       /\ Range(<<Call(r), Outcome(r, "ok")>>) = {Call(r), Outcome(r, "ok")}
       /\ Range(<<Call(r), Outcome(r, "unknown")>>) = {Call(r), Outcome(r, "unknown")}
       /\ Range(<<Call(r), Outcome(r, "skipped")>>) = {Call(r), Outcome(r, "skipped")}
  <2> HIDE DEF Call, Outcome
  <2> QED BY <1>1, ShortSeqs
<1> HIDE DEF Call, Outcome, Said, Closed
<1>5. Said(r, n) \in Seq(Messages) /\ Closed(r, n) \in Seq(Messages)
  BY ZenonT(40), <1>1, <1>2, <1>3, ShortSeqs
<1>6. Range(Said(r, n)) \subseteq {Call(r), Outcome(r, "ok")}
  BY <1>2, <1>4a
<1>7. Range(Closed(r, n)) \subseteq {Call(r), Outcome(r, "ok"), Outcome(r, "unknown"), Outcome(r, "skipped")}
  BY <1>3, <1>4a
<1>8. n # 2 => Range(Closed(r, n)) \subseteq {Call(r), Outcome(r, "ok"), Outcome(r, "unknown")}
  BY <1>4, <1>4a
<1> QED BY <1>5, <1>6, <1>7, <1>8

\* An answer is nothing else, and is that of one run.
LEMMA Answers ==
    ASSUME NEW r \in RunIds, NEW q \in RunIds
    PROVE  /\ Answer(q) # Call(r) /\ (Answer(q) = Answer(r) => q = r) /\ Answer(q) # Seed
           /\ \A s \in {"ok", "skipped", "unknown"} : Answer(q) # Outcome(r, s)
           /\ \A t \in TurnIds : Answer(q) # Prompt(t)
<1>1. /\ Answer(q).role = "answer" /\ Answer(q).of = q /\ Answer(r).of = r /\ Call(r).role = "call"
      /\ Seed.role = "seed" /\ \A s : Outcome(r, s).role = "tool" /\ \A t : Prompt(t).role = "user"
  BY DEF Answer, Call, Seed, Outcome, Prompt
<1> HIDE DEF Answer, Call, Seed, Outcome, Prompt
<1> QED BY <1>1

\* A result "not dispatched" is nothing else, and is that of one run.
LEMMA Skips ==
    ASSUME NEW r \in RunIds, NEW q \in RunIds
    PROVE  /\ \A s \in {"ok", "skipped", "unknown"} : Outcome(q, "skipped") = Outcome(r, s) => q = r /\ s = "skipped"
           /\ Outcome(q, "skipped") # Call(r) /\ Outcome(q, "skipped") # Answer(r) /\ Outcome(q, "skipped") # Seed
           /\ \A t \in TurnIds : Outcome(q, "skipped") # Prompt(t)
<1>1. /\ Outcome(q, "skipped").role = "tool" /\ Outcome(q, "skipped").of = q /\ Outcome(q, "skipped").status = "skipped"
      /\ Answer(r).role = "answer" /\ Call(r).role = "call" /\ Seed.role = "seed"
      /\ \A s : Outcome(r, s).of = r /\ Outcome(r, s).status = s /\ \A t : Prompt(t).role = "user"
  BY DEF Answer, Call, Seed, Outcome, Prompt
<1> HIDE DEF Answer, Call, Seed, Outcome, Prompt
<1> QED BY <1>1

\* What a checkpoint says, and implies.
LEMMA RestFacts ==
    ASSUME NEW cp \in Checkpoints, cp.run # 0
    PROVE  /\ cp.run \in RunIds
           /\ Body(cp) \in Seq(Messages) /\ Recovered(cp) \in Seq(Messages) /\ Rest(cp) = Body(cp) \o Recovered(cp)
           /\ Rest(cp) \in Seq(Messages)
           /\ \A q \in RunIds : Answer(q) \in Range(Rest(cp)) => q = cp.run
           /\ cp.final = "completed" => Answer(cp.run) \in Range(Rest(cp))
           /\ \A q \in RunIds : Outcome(q, "skipped") \in Range(Rest(cp)) =>
               q = cp.run /\ (IF cp.final = "none" THEN cp.call = "pending" ELSE cp.rev = 3 \/ cp.call # "none")
<1>a. cp.run \in RunIds /\ cp.rev \in Int /\ cp.rev - 1 \in Int
  BY RunsAssumption DEF Checkpoints, RunIds
<1>b. PICK r \in RunIds : r = cp.run
  BY <1>a
<1>c. PICK m \in Int : m = cp.rev - 1
  BY <1>a
<1>d. PICK n \in Int : n = cp.rev
  BY <1>a
<1> DEFINE body == Body(cp)
           rec == Recovered(cp)
           plain == {Call(r), Outcome(r, "ok"), Outcome(r, "unknown")}
           ours == plain \union {Outcome(r, "skipped")}
<1>0. r \in RunIds /\ cp.rev \in Nat /\ cp.final \in {"none", "completed", "failed"}
      /\ cp.call \in {"none", "pending", "intent", "settled"}
  BY <1>a, <1>b DEF Checkpoints
<1>1. /\ Call(r) \in Messages /\ Answer(r) \in Messages /\ Outcome(r, "ok") \in Messages
      /\ Outcome(r, "unknown") \in Messages /\ Outcome(r, "skipped") \in Messages
  BY <1>0, Kinds
<1>2. /\ Said(r, n) \in Seq(Messages) /\ Closed(r, m) \in Seq(Messages)
      /\ Range(Said(r, n)) \subseteq plain
      /\ Range(Closed(r, m)) \subseteq ours
      /\ m # 2 => Range(Closed(r, m)) \subseteq plain
  BY <1>0, SaidFacts
<1>3. /\ cp.final = "none" => body = Said(r, n)
      /\ cp.final = "failed" => body = Closed(r, m)
      /\ cp.final = "completed" => body = Append(Closed(r, m), Answer(r))
  BY <1>b, <1>c, <1>d DEF Body
<1>4. rec \in {<<>>, <<Outcome(r, "skipped")>>, <<Outcome(r, "unknown")>>, <<Outcome(r, "ok")>>}
      /\ (cp.call # "pending" => rec \in {<<>>, <<Outcome(r, "unknown")>>, <<Outcome(r, "ok")>>})
      /\ (cp.call = "none" => rec = <<>>)
  BY <1>0, <1>b DEF Recovered
<1>5. Rest(cp) = body \o rec
  BY DEF Rest
<1>6. Answer(r) \notin ours /\ \A q \in RunIds : q # r => Answer(q) \notin ours \union {Answer(r)}
  <2>1. \A q \in RunIds : /\ Answer(q) # Call(r) /\ (Answer(q) = Answer(r) => q = r)
                          /\ \A s \in {"ok", "skipped", "unknown"} : Answer(q) # Outcome(r, s)
    BY Answers
  <2> HIDE DEF Call, Outcome, Answer
  <2> QED BY <2>1
<1>7. Outcome(r, "skipped") \notin plain \union {Answer(r)}
      /\ \A q \in RunIds : q # r => Outcome(q, "skipped") \notin ours \union {Answer(r)}
  <2>1. \A q \in RunIds, s \in {"ok", "skipped", "unknown"} :
          Outcome(q, "skipped") = Outcome(r, s) => q = r /\ s = "skipped"
    BY Skips
  <2>2. \A q \in RunIds : Outcome(q, "skipped") # Call(r) /\ Outcome(q, "skipped") # Answer(r)
    BY Skips
  <2> HIDE DEF Call, Outcome, Answer
  <2> QED BY <2>1, <2>2
<1>8. rec \in Seq(Messages) /\ Range(rec) \subseteq ours
      /\ (cp.call # "pending" => Range(rec) \subseteq plain) /\ (cp.call = "none" => Range(rec) = {})
  <2>1. /\ Range(<<>>) = {} /\ Range(<<Outcome(r, "ok")>>) = {Outcome(r, "ok")}
        /\ Range(<<Outcome(r, "unknown")>>) = {Outcome(r, "unknown")}
        /\ Range(<<Outcome(r, "skipped")>>) = {Outcome(r, "skipped")}
        /\ <<>> \in Seq(Messages) /\ <<Outcome(r, "ok")>> \in Seq(Messages)
        /\ <<Outcome(r, "unknown")>> \in Seq(Messages) /\ <<Outcome(r, "skipped")>> \in Seq(Messages)
    <3> HIDE DEF Call, Outcome
    <3> QED BY <1>1, ShortSeqs
  <2> HIDE DEF Call, Outcome, rec
  <2> QED BY <2>1, <1>4
<1> HIDE DEF body, rec, plain, ours
<1>9. /\ body \in Seq(Messages)
      /\ cp.final = "none" => Range(body) \subseteq plain
      /\ cp.final = "failed" => Range(body) \subseteq ours /\ (m # 2 => Range(body) \subseteq plain)
      /\ cp.final = "completed" => Range(body) \subseteq ours \union {Answer(r)} /\ Answer(r) \in Range(body)
                                   /\ (m # 2 => Range(body) \subseteq plain \union {Answer(r)})
  <2>1. ASSUME cp.final = "completed"
        PROVE  body \in Seq(Messages) /\ Range(body) = Range(Closed(r, m)) \union {Answer(r)}
    <3>1. body = Closed(r, m) \o <<Answer(r)>>
      <4>1. ASSUME NEW z \in Seq(Messages), NEW y \in Messages PROVE Append(z, y) = z \o <<y>>
        OBVIOUS
      <4> HIDE DEF Answer, Closed
      <4> QED BY <2>1, <4>1, <1>1, <1>2, <1>3
    <3>2. <<Answer(r)>> \in Seq(Messages) /\ Range(<<Answer(r)>>) = {Answer(r)}
      BY <1>1, ShortSeqs
    <3>3. ASSUME NEW z \in Seq(Messages), NEW y \in Seq(Messages)
          PROVE  z \o y \in Seq(Messages) /\ Range(z \o y) = Range(z) \union Range(y)
      BY ConcatFacts
    <3>4. Closed(r, m) \in Seq(Messages)
      BY <1>2
    <3> HIDE DEF Answer, Closed
    <3>5. /\ Closed(r, m) \o <<Answer(r)>> \in Seq(Messages)
          /\ Range(Closed(r, m) \o <<Answer(r)>>) = Range(Closed(r, m)) \union Range(<<Answer(r)>>)
      BY Zenon, <3>2, <3>3, <3>4
    <3> QED BY Zenon, <3>1, <3>2, <3>5
  <2>2. CASE cp.final = "completed"
    BY <2>1, <2>2, <1>2
  <2>3. CASE cp.final = "failed"
    BY <2>3, <1>2, <1>3
  <2>4. CASE cp.final = "none"
    BY <2>4, <1>2, <1>3
  <2> QED BY <2>2, <2>3, <2>4, <1>0
<1>10. body \o rec \in Seq(Messages) /\ Range(body \o rec) = Range(body) \union Range(rec)
  BY <1>8, <1>9, ConcatFacts
<1>11. Range(body \o rec) \subseteq ours \union {Answer(r)}
  <2>1. plain \subseteq ours
    BY DEF ours
  <2> QED BY <2>1, <1>0, <1>8, <1>9, <1>10
<1>12. \A q \in RunIds : Answer(q) \in Range(Rest(cp)) => q = r
  BY <1>5, <1>6, <1>11
<1>13. cp.final = "completed" => Answer(r) \in Range(Rest(cp))
  BY <1>5, <1>9, <1>10
<1>14. \A q \in RunIds : Outcome(q, "skipped") \in Range(Rest(cp)) => q = r
  BY <1>5, <1>7, <1>11
<1>15. Outcome(r, "skipped") \in Range(Rest(cp)) =>
         (IF cp.final = "none" THEN cp.call = "pending" ELSE cp.rev = 3 \/ cp.call # "none")
  <2>1. CASE cp.final = "none"
    BY <2>1, <1>5, <1>7, <1>8, <1>9, <1>10
  <2>2. CASE cp.final # "none"
    BY <2>2, <1>0, <1>a, <1>c, <1>5, <1>7, <1>8, <1>9, <1>10
  <2> QED BY <2>1, <2>2
<1> QED BY <1>0, <1>b, <1>5, <1>8, <1>9, <1>10, <1>12, <1>13, <1>14, <1>15 DEF body, rec

\* The parts of a file.
LEMMA DocTypes ==
    ASSUME NEW d \in Docs
    PROVE  /\ d.rev \in Nat /\ d.status \in Statuses \union {"idle"} /\ d.turns \in Seq(Turns)
           /\ d.cp \in Checkpoints /\ d.archive \in Seq(Messages) /\ d.base \in Bases /\ d.origin \in {0, 1}
           /\ d.base.input \in Seq(Messages) /\ d.base.set \in BOOLEAN /\ d.base.pending \in BOOLEAN
           /\ d.turns # <<>> => /\ Len(d.turns) \in DOMAIN d.turns /\ Last(d.turns) \in Turns
                                /\ Last(d.turns) = d.turns[Len(d.turns)]
           /\ Len(d.turns) \in Nat /\ DOMAIN d.turns = 1..Len(d.turns)
           /\ \A i \in DOMAIN d.turns : d.turns[i] \in Turns
<1>1. /\ d.rev \in Nat /\ d.status \in Statuses \union {"idle"} /\ d.turns \in Seq(Turns)
      /\ d.cp \in Checkpoints /\ d.archive \in Seq(Messages) /\ d.base \in Bases /\ d.origin \in {0, 1}
  BY DEF Docs
<1>2. d.base.input \in Seq(Messages) /\ d.base.set \in BOOLEAN /\ d.base.pending \in BOOLEAN
  BY <1>1 DEF Bases
<1> DEFINE s == d.turns
<1>3. s \in Seq(Turns)
  BY <1>1
<1> HIDE DEF s
<1>4. /\ s # <<>> => Len(s) \in DOMAIN s /\ Last(s) \in Turns /\ Last(s) = s[Len(s)]
      /\ Len(s) \in Nat /\ DOMAIN s = 1..Len(s)
      /\ \A i \in DOMAIN s : s[i] \in Turns
  BY <1>3 DEF Last
<1> QED BY <1>1, <1>2, <1>4 DEF s

\* What is said in all: the archive, and what the last turn added.
LEMMA HistoryIs ==
    ASSUME NEW d \in Docs, Rooted(d)
    PROVE  /\ Spoken(d) \in Seq(Messages) /\ History(d) \in Seq(Messages)
           /\ History(d) = d.archive \o Spoken(d)
           /\ Len(History(d)) = Len(d.archive) + Len(Spoken(d))
           /\ Range(History(d)) = Range(d.archive) \union Range(Spoken(d))
           /\ WorkingHistory(d) = IF d.base.set THEN d.base.input \o Spoken(d) ELSE <<>>
           /\ WorkingHistory(d) \in Seq(Messages)
           /\ ~d.base.set => Spoken(d) = <<>>
           /\ d.turns # <<>> => d.base.set /\ Len(Spoken(d)) > 0
<1>0. /\ d.turns \in Seq(Turns) /\ d.cp \in Checkpoints /\ d.archive \in Seq(Messages)
      /\ d.base.input \in Seq(Messages) /\ d.base.set \in BOOLEAN
      /\ d.turns # <<>> => Last(d.turns) \in Turns
  BY DocTypes
<1>1. ASSUME d.turns = <<>>
      PROVE  Spoken(d) = <<>> /\ d.cp.run = 0
  BY <1>1 DEF Spoken, Rooted
<1>2. ASSUME d.turns # <<>>
      PROVE  /\ d.base.set /\ Prompt(Last(d.turns).id) \in Messages
             /\ <<Prompt(Last(d.turns).id)>> \in Seq(Messages)
             /\ Rest(d.cp) \in Seq(Messages) /\ Spoken(d) = <<Prompt(Last(d.turns).id)>> \o Rest(d.cp)
  <2>1. d.base.set
    BY <1>2, <1>0 DEF Rooted
  <2>2. Prompt(Last(d.turns).id) \in Messages
    BY <1>2, <1>0, Kinds DEF Turns
  <2>3. <<Prompt(Last(d.turns).id)>> \in Seq(Messages)
    BY <2>2, ShortSeqs
  <2>4. Rest(d.cp) \in Seq(Messages)
    <3>1. CASE d.cp.run = 0
      BY <3>1 DEF Rest
    <3>2. CASE d.cp.run # 0
      BY <3>2, <1>0, RestFacts
    <3> QED BY <3>1, <3>2
  <2> QED BY <1>2, <2>1, <2>2, <2>3, <2>4 DEF Spoken
<1>3. Spoken(d) \in Seq(Messages)
  <2>1. CASE d.turns = <<>>
    BY <2>1, <1>1
  <2>2. CASE d.turns # <<>>
    BY <2>2, <1>2, ConcatFacts
  <2> QED BY <2>1, <2>2
<1>4. WorkingHistory(d) = IF d.base.set THEN d.base.input \o Spoken(d) ELSE <<>>
  <2>1. CASE d.cp.run # 0
    <3>1. d.turns # <<>> /\ d.cp.msgs = d.base.input \o (<<Prompt(Last(d.turns).id)>> \o Body(d.cp))
      BY <2>1 DEF Rooted
    <3>2. WorkingHistory(d) = d.cp.msgs \o Recovered(d.cp)
      BY <2>1 DEF WorkingHistory
    <3>3. /\ Body(d.cp) \in Seq(Messages) /\ Recovered(d.cp) \in Seq(Messages)
          /\ Rest(d.cp) = Body(d.cp) \o Recovered(d.cp)
      BY <2>1, <1>0, RestFacts
    <3> DEFINE p == <<Prompt(Last(d.turns).id)>>
               b == Body(d.cp)
               c == Recovered(d.cp)
               i == d.base.input
    <3>4. p \in Seq(Messages) /\ Spoken(d) = p \o Rest(d.cp) /\ d.base.set
      BY <3>1, <1>2
    <3>5. b \in Seq(Messages) /\ c \in Seq(Messages) /\ i \in Seq(Messages)
      BY <3>3, <1>0
    <3> HIDE DEF p, b, c, i
    <3>6. p \o b \in Seq(Messages) /\ (p \o b) \o c = p \o (b \o c)
      BY <3>4, <3>5, ConcatFacts, ConcatAssoc
    <3>7. (i \o (p \o b)) \o c = i \o ((p \o b) \o c)
      <4>1. ASSUME NEW z \in Seq(Messages) PROVE (i \o z) \o c = i \o (z \o c)
        BY <3>5, ConcatAssoc
      <4> QED BY <3>6, <4>1
    <3> QED BY <3>1, <3>2, <3>3, <3>4, <3>6, <3>7 DEF p, b, c, i
  <2>2. CASE d.cp.run = 0 /\ ~d.base.set
    BY <2>2 DEF WorkingHistory
  <2>3. CASE d.cp.run = 0 /\ d.base.set
    <3>1. CASE d.turns = <<>>
      BY <2>3, <3>1, <1>1 DEF WorkingHistory
    <3>2. CASE d.turns # <<>>
      <4>1. Rest(d.cp) = <<>>
        BY <2>3 DEF Rest
      <4>2. Spoken(d) = <<Prompt(Last(d.turns).id)>>
        BY <4>1, <3>2, <1>2
      <4> QED BY <2>3, <3>2, <4>2 DEF WorkingHistory
    <3> QED BY <3>1, <3>2
  <2> QED BY <2>1, <2>2, <2>3, <1>0
<1>5. ~d.base.set => Spoken(d) = <<>>
  BY <1>1 DEF Rooted
<1>6. WorkingHistory(d) \in Seq(Messages)
  <2>1. d.base.input \o Spoken(d) \in Seq(Messages)
    BY <1>0, <1>3, ConcatFacts
  <2> QED BY <2>1, <1>4
<1>7. History(d) = d.archive \o Spoken(d)
  <2>1. CASE d.base.set
    <3>1. WorkingHistory(d) = d.base.input \o Spoken(d)
      BY <2>1, <1>4
    <3>2. SubSeq(WorkingHistory(d), Len(d.base.input) + 1, Len(WorkingHistory(d))) = Spoken(d)
      <4>1. ASSUME NEW z \in Seq(Messages), NEW y \in Seq(Messages)
            PROVE  SubSeq(z \o y, Len(z) + 1, Len(z \o y)) = y
        BY ConcatCut
      <4> HIDE DEF Spoken, WorkingHistory
      <4> QED BY <3>1, <4>1, <1>0, <1>3
    <3> QED BY <2>1, <3>2 DEF History
  <2>2. CASE ~d.base.set
    <3>1. d.archive = <<>>
      BY <2>2 DEF Rooted
    <3> QED BY <2>2, <3>1, <1>4, <1>5 DEF History
  <2> QED BY <2>1, <2>2
<1>8. d.turns # <<>> => Len(Spoken(d)) > 0
  <2>1. ASSUME NEW x \in Messages, NEW s \in Seq(Messages) PROVE Len(<<x>> \o s) > 0
    OBVIOUS
  <2> QED BY <2>1, <1>2
<1> HIDE DEF Spoken, History, WorkingHistory
<1> QED BY <1>0, <1>2, <1>3, <1>4, <1>5, <1>6, <1>7, <1>8, ConcatFacts

\* A file in shape can be read.
LEMMA ShapeRooted == ASSUME NEW d \in Docs, Shape(d), Checked(d) PROVE Rooted(d)
  BY DEF Shape, Checked, Rooted

\* Files that differ in what no history is read from.
LEMMA SameHistory ==
    ASSUME NEW d, NEW e, e.cp = d.cp, e.archive = d.archive, e.base.set = d.base.set, e.base.input = d.base.input,
           e.turns = <<>> <=> d.turns = <<>>, d.turns # <<>> => Last(e.turns).id = Last(d.turns).id
    PROVE  Spoken(e) = Spoken(d) /\ History(e) = History(d) /\ WorkingHistory(e) = WorkingHistory(d)
<1>1. Spoken(e) = Spoken(d)
  BY DEF Spoken
<1>2. WorkingHistory(e) = WorkingHistory(d)
  BY DEF WorkingHistory
<1>3. History(e) = History(d)
  BY <1>2 DEF History
<1> QED BY <1>1, <1>2, <1>3

\* A file in shape opens.
LEMMA ShapeLoads == ASSUME NEW d \in Docs, TurnsFit(d), Shape(d), Checked(d) PROVE Loads(d)
<1>0. /\ d.turns \in Seq(Turns) /\ d.cp \in Checkpoints /\ d.archive \in Seq(Messages)
      /\ d.base.input \in Seq(Messages) /\ d.base.set \in BOOLEAN
      /\ d.turns # <<>> => Len(d.turns) \in DOMAIN d.turns /\ Last(d.turns) = d.turns[Len(d.turns)]
  BY DocTypes
<1>1. /\ Spoken(d) \in Seq(Messages)
      /\ Len(History(d)) = Len(d.archive) + Len(Spoken(d))
      /\ WorkingHistory(d) = IF d.base.set THEN d.base.input \o Spoken(d) ELSE <<>>
  BY ShapeRooted, HistoryIs
<1>2. CheckpointFits(d)
  BY <1>0 DEF Checked, CheckpointFits
<1>3. BaseFits(d)
  <2>1. CASE ~d.base.set
    BY <2>1 DEF Shape, BaseFits
  <2>2. CASE d.base.set
    <3>1. ASSUME NEW s \in Seq(Messages), NEW t \in Seq(Messages) PROVE IsPrefix(s, s \o t)
      <4>1. SubSeq(s \o t, 1, Len(s)) = SubSeq(s, 1, Len(s)) /\ Len(s) <= Len(s \o t)
        BY ConcatCut, ConcatFacts
      <4> QED BY <4>1 DEF IsPrefix
    <3>2. IsPrefix(d.base.input, WorkingHistory(d))
      <4> HIDE DEF IsPrefix, WorkingHistory, Spoken
      <4> QED BY <2>2, <3>1, <1>0, <1>1
    <3>3. d.cp.run = 0 => d.base.pending
      BY <2>2 DEF Shape
    <3>4. d.turns = <<>> => Len(d.base.input) = d.origin
      BY <2>2 DEF Shape
    <3> QED BY <2>2, <3>2, <3>3, <3>4 DEF BaseFits
  <2> QED BY <2>1, <2>2
<1>4. d.status = (IF d.turns = <<>> THEN "idle" ELSE Last(d.turns).status)
  BY DEF Shape
<1>5. Len(History(d)) = (IF d.turns = <<>> THEN d.origin ELSE Last(d.turns).end)
  <2>1. CASE d.turns = <<>>
    <3>1. Len(Spoken(d)) = 0 /\ Len(d.archive) = d.origin
      BY <2>1, <1>0 DEF Spoken, Shape
    <3> HIDE DEF Spoken, History
    <3> QED BY <2>1, <3>1, <1>1, <1>0
  <2>2. CASE d.turns # <<>>
    BY <2>2, <1>1 DEF Shape
  <2> QED BY <2>1, <2>2
<1> QED BY <1>2, <1>3, <1>4, <1>5 DEF Loads

\* A turn whose status or run changes, and nothing else.
LEMMA TurnChanged ==
    ASSUME NEW d \in Docs, NEW e \in Docs, TurnsFit(d), Shape(d), Checked(d),
           e.cp = d.cp, e.archive = d.archive, e.base = d.base, e.origin = d.origin,
           Len(e.turns) = Len(d.turns),
           \A i \in DOMAIN d.turns : /\ e.turns[i].id = d.turns[i].id /\ e.turns[i].start = d.turns[i].start
                                     /\ e.turns[i].end = d.turns[i].end
                                     /\ e.turns[i].status = "running" => d.turns[i].status = "running",
           e.status = (IF d.turns = <<>> THEN "idle" ELSE Last(e.turns).status),
           d.turns # <<>> /\ Last(e.turns).run # Last(d.turns).run => d.cp.run = 0,
           d.cp.run # 0 /\ d.cp.final # "none" => e.status = d.status
    PROVE  /\ TurnsFit(e) /\ Shape(e) /\ Checked(e)
           /\ Spoken(e) = Spoken(d) /\ History(e) = History(d) /\ WorkingHistory(e) = WorkingHistory(d)
<1>0. /\ d.turns \in Seq(Turns) /\ e.turns \in Seq(Turns)
      /\ DOMAIN d.turns = 1..Len(d.turns) /\ DOMAIN e.turns = DOMAIN d.turns
      /\ d.turns # <<>> => Len(d.turns) \in DOMAIN d.turns /\ Last(d.turns) = d.turns[Len(d.turns)]
      /\ e.turns # <<>> => Last(e.turns) = e.turns[Len(d.turns)]
      /\ e.turns = <<>> <=> d.turns = <<>>
  <2>1. /\ d.turns \in Seq(Turns) /\ e.turns \in Seq(Turns) /\ DOMAIN d.turns = 1..Len(d.turns)
        /\ DOMAIN e.turns = 1..Len(e.turns)
        /\ d.turns # <<>> => Len(d.turns) \in DOMAIN d.turns /\ Last(d.turns) = d.turns[Len(d.turns)]
        /\ e.turns # <<>> => Last(e.turns) = e.turns[Len(e.turns)]
    BY DocTypes
  <2>2. ASSUME NEW s \in Seq(Turns) PROVE s = <<>> <=> Len(s) = 0
    OBVIOUS
  <2>3. e.turns = <<>> <=> d.turns = <<>>
    BY <2>1, <2>2
  <2> QED BY <2>1, <2>3
<1>1. d.turns # <<>> => /\ Last(e.turns).id = Last(d.turns).id /\ Last(e.turns).start = Last(d.turns).start
                        /\ Last(e.turns).end = Last(d.turns).end
  BY <1>0
<1>2. Spoken(e) = Spoken(d) /\ History(e) = History(d) /\ WorkingHistory(e) = WorkingHistory(d)
  BY <1>0, <1>1, SameHistory
<1>3. TurnsFit(e)
  <2>1. \A i, j \in DOMAIN e.turns : e.turns[i].id = e.turns[j].id => i = j
    BY <1>0 DEF TurnsFit
  <2>2. \A i \in DOMAIN e.turns :
        /\ e.turns[i].start = (IF i = 1 THEN e.origin ELSE e.turns[i - 1].end)
        /\ e.turns[i].start < e.turns[i].end
        /\ e.turns[i].status = "running" => i = Len(e.turns)
    <3>1. \A i \in DOMAIN d.turns : i # 1 => i - 1 \in DOMAIN d.turns
      BY <1>0
    <3> QED BY <3>1, <1>0 DEF TurnsFit
  <2> QED BY <2>1, <2>2 DEF TurnsFit
<1>4. Shape(e)
  BY <1>0, <1>1, <1>2 DEF Shape
<1>5. Checked(e)
  BY <1>0, <1>1 DEF Checked
<1> QED BY <1>2, <1>3, <1>4, <1>5

-----------------------------------------------------------------------------
(* Frames                                                                  *)

\* Two files that differ in their revision alone.
Kept(d, e) == /\ e.turns = d.turns /\ e.cp = d.cp /\ e.base = d.base /\ e.archive = d.archive
              /\ e.origin = d.origin /\ e.status = d.status

\* No ended turn of a file is other than it was.
Fixed(d, e) == \A i \in DOMAIN d.turns : d.turns[i].status \in Ended =>
                   i \in DOMAIN e.turns /\ Settled(e, i) = Settled(d, i)

\* A new revision says what the old one did.
LEMMA KeptShape ==
    ASSUME NEW d, NEW e, Kept(d, e)
    PROVE  /\ TurnsFit(d) => TurnsFit(e)
           /\ Shape(d) => Shape(e)
           /\ Checked(d) => Checked(e)
           /\ Spoken(e) = Spoken(d) /\ History(e) = History(d) /\ WorkingHistory(e) = WorkingHistory(d)
           /\ Fixed(d, e)
<1>1. /\ e.turns = d.turns /\ e.cp = d.cp /\ e.base = d.base /\ e.archive = d.archive
      /\ e.origin = d.origin /\ e.status = d.status
  BY DEF Kept
<1>2. Spoken(e) = Spoken(d) /\ WorkingHistory(e) = WorkingHistory(d)
  BY <1>1 DEF Spoken, WorkingHistory
<1>3. History(e) = History(d)
  BY <1>1, <1>2 DEF History
<1>4. TurnsFit(d) => TurnsFit(e)
  BY <1>1 DEF TurnsFit
<1>5. Shape(d) => Shape(e)
  <2> HIDE DEF Spoken
  <2> QED BY <1>1, <1>2 DEF Shape
<1>6. Checked(d) => Checked(e)
  BY <1>1 DEF Checked
<1>7. Fixed(d, e)
  <2> HIDE DEF History
  <2> QED BY <1>1, <1>3 DEF Fixed, Settled
<1> QED BY <1>2, <1>3, <1>4, <1>5, <1>6, <1>7

\* What a run's state is compared with stays.
LEMMA ReadSame ==
    ASSUME present' = present, Kept(doc, doc'), NEW r \in RunIds, runs'[r].turn = runs[r].turn
    PROVE  /\ Current(r)' <=> Current(r)
           /\ Done(r)' <=> Done(r)
           /\ runs'[r].acked = runs[r].acked => (Running(r)' <=> Running(r))
<1>1. /\ doc'.turns = doc.turns /\ doc'.cp = doc.cp /\ doc'.status = doc.status /\ History(doc') = History(doc)
  BY KeptShape DEF Kept
<1> HIDE DEF History
<1>2. Current(r)' <=> Current(r)
  BY <1>1 DEF Current, LastTurn
<1>3. Done(r)' <=> Done(r)
  BY <1>1 DEF Done
<1>4. runs'[r].acked = runs[r].acked => (Running(r)' <=> Running(r))
  BY <1>1, <1>2 DEF Running
<1> QED BY <1>2, <1>3, <1>4

\* A run that takes no step, while the file says the same.
LEMMA TaskKept ==
    ASSUME present' = present, Kept(doc, doc'), NEW r \in RunIds, runs'[r] = runs[r],
           gate' = r <=> gate = r, faults \in Nat, faults' \in Nat, faults' >= faults, TaskOk(r)
    PROVE  TaskOk(r)'
<1>1. (Current(r)' <=> Current(r)) /\ (Done(r)' <=> Done(r)) /\ (Running(r)' <=> Running(r))
  BY ReadSame
<1>2. doc'.cp = doc.cp /\ doc'.status = doc.status
  BY DEF Kept
<1> HIDE DEF Current, Done, Running
<1> QED BY <1>1, <1>2 DEF TaskOk

\* What the file has of a run that stays what it is, or dies.
LEMMA StoredKept ==
    ASSUME present' = present, Kept(doc, doc'), NEW r \in RunIds, runs'[r].turn = runs[r].turn,
           runs'[r].acked = runs[r].acked,
           runs'[r].pc \notin {"unused", "dead"} => runs[r].pc \notin {"unused", "dead"} /\ runs'[r].input = runs[r].input,
           Current(r) => StoredOk(r)
    PROVE  Current(r)' => StoredOk(r)'
<1>1. Current(r)' <=> Current(r)
  BY ReadSame
<1>2. doc'.turns = doc.turns /\ doc'.cp = doc.cp /\ doc'.base = doc.base
  BY DEF Kept
<1> HIDE DEF Current
<1> QED BY <1>1, <1>2 DEF StoredOk, LastTurn

\* The runs of a process are records, and those who were never started are blank.
LEMMA RunTypes ==
    ASSUME SessionInv, NEW r \in RunIds
    PROVE  /\ runs[r] \in RunRecords
           /\ runs[r].turn \in TurnIds \union {0} /\ runs[r].pc \in {"unused", "live", "settling", "over", "dead"}
           /\ runs[r].input \in Seq(Messages) /\ runs[r].acked \in 0..LastStage
           /\ runs[r].op \in {"none", "queued", "writing", "done", "error", "refused"}
           /\ runs[r].cancelled \in BOOLEAN /\ runs[r].want \in {"none", "completed", "failed"}
           /\ runs[r].report \in {"none", "completed", "failed"}
           /\ runs[r].told \in {"none", "completed", "failed", "error"}
<1>1. runs[r] \in RunRecords
  BY DEF SessionInv, Types
<1> QED BY <1>1 DEF RunRecords

\* The run of the last turn is one.
LEMMA OneCurrent ==
    ASSUME SessionInv, NEW r \in RunIds, Current(r)
    PROVE  /\ doc.turns # <<>> /\ present /\ LastTurn.id = runs[r].turn /\ runs[r].turn \in TurnIds
           /\ runs[r].pc # "unused"
           /\ \A q \in RunIds : Current(q) => q = r
<1>1. \A q \in RunIds : Current(q) => runs[q].turn = LastTurn.id /\ LastTurn.id \in TurnIds
  <2>1. doc \in Docs
    BY DEF SessionInv, Types
  <2>2. doc.turns # <<>> => LastTurn \in Turns
    BY <2>1, DocTypes DEF LastTurn
  <2> QED BY <2>2 DEF Current, Turns
<1>2. \A q \in RunIds : Current(q) => runs[q].pc # "unused"
  <2>1. \A q \in RunIds : runs[q].pc = "unused" => runs[q].turn = 0
    BY DEF SessionInv, Owned, Unused
  <2> QED BY <1>1, <2>1, TurnAssumption
<1> QED BY <1>1, <1>2 DEF SessionInv, Owned, Current

\* What the file has of a run whose checkpoint it holds.
LEMMA OwnCheckpoint ==
    ASSUME SessionInv, doc.cp.run # 0
    PROVE  present /\ doc.cp.run \in RunIds /\ Current(doc.cp.run) /\ StoredOk(doc.cp.run)
<1>1. present
  BY DEF SessionInv, Logged, Blank, NoCheckpoint
<1>2. doc.cp.run \in RunIds
  <2>1. doc.cp \in Checkpoints
    BY DocTypes DEF SessionInv, Types
  <2> QED BY <2>1, RunsAssumption DEF Checkpoints, RunIds
<1>3. doc.turns # <<>> /\ runs[doc.cp.run].turn = LastTurn.id
  BY <1>1 DEF SessionInv, Stored, FileInv, Checked
<1>4. Current(doc.cp.run)
  BY <1>1, <1>3 DEF Current
<1> QED BY <1>1, <1>2, <1>4 DEF SessionInv, Stored

\* Only a run that can have no further checkpoint is shown as not dispatched.
LEMMA SkippedOnly ==
    ASSUME SessionInv, NEW r \in RunIds, Outcome(r, "skipped") \in Range(History(doc))
    PROVE  runs[r].pc # "unused" /\ runs[r].acked <= 2
<1>0. doc \in Docs /\ Rooted(doc)
  BY ShapeRooted DEF SessionInv, Types, FileInv
<1>1. Range(History(doc)) = Range(doc.archive) \union Range(Spoken(doc))
  BY <1>0, HistoryIs
<1>2. CASE Outcome(r, "skipped") \in Range(doc.archive)
  BY <1>2 DEF SessionInv, Denied
<1>3. CASE Outcome(r, "skipped") \in Range(Spoken(doc))
  <2>1. doc.turns # <<>>
    BY <1>3 DEF Spoken, Range
  <2>2. Prompt(Last(doc.turns).id) \in Messages /\ Last(doc.turns).id \in TurnIds
    BY <1>0, <2>1, DocTypes, Kinds DEF Turns
  <2>3. doc.cp.run # 0 /\ Outcome(r, "skipped") \in Range(Rest(doc.cp))
    <3>1. Outcome(r, "skipped") # Prompt(Last(doc.turns).id)
      BY <2>2, Skips
    <3>2. Spoken(doc) = <<Prompt(Last(doc.turns).id)>> \o Rest(doc.cp)
      BY <2>1 DEF Spoken
    <3>3. <<Prompt(Last(doc.turns).id)>> \in Seq(Messages)
          /\ Range(<<Prompt(Last(doc.turns).id)>>) = {Prompt(Last(doc.turns).id)}
      BY <2>2, ShortSeqs
    <3>4. CASE doc.cp.run = 0
      <4>1. Rest(doc.cp) = <<>>
        BY <3>4 DEF Rest
      <4>2. Spoken(doc) = <<Prompt(Last(doc.turns).id)>>
        BY <3>2, <4>1
      <4> HIDE DEF Prompt, Outcome, Spoken
      <4> QED BY <1>3, <3>1, <3>3, <4>2
    <3>5. CASE doc.cp.run # 0
      <4>1. doc.cp \in Checkpoints
        BY <1>0, DocTypes
      <4>2. Rest(doc.cp) \in Seq(Messages)
        BY <3>5, <4>1, RestFacts
      <4>3. Range(Spoken(doc)) = Range(<<Prompt(Last(doc.turns).id)>>) \union Range(Rest(doc.cp))
        <5>1. ASSUME NEW z \in Seq(Messages), NEW y \in Seq(Messages) PROVE Range(z \o y) = Range(z) \union Range(y)
          BY ConcatFacts
        <5> HIDE DEF Rest, Prompt
        <5> QED BY <3>2, <3>3, <4>2, <5>1
      <4> HIDE DEF Prompt, Outcome, Spoken, Rest
      <4> QED BY <1>3, <3>1, <3>3, <3>5, <4>3
    <3> QED BY <3>4, <3>5
  <2>4. doc.cp \in Checkpoints
    BY <1>0, DocTypes
  <2>5. r = doc.cp.run /\ (IF doc.cp.final = "none" THEN doc.cp.call = "pending" ELSE doc.cp.rev = 3 \/ doc.cp.call # "none")
    <3> HIDE DEF Outcome, Rest
    <3> QED BY <2>3, <2>4, RestFacts
  <2>6. Current(r) /\ StoredOk(r)
    BY <2>3, <2>5, OwnCheckpoint
  <2>7. runs[r].pc # "unused"
    BY <2>6, OneCurrent
  <2>8. doc.cp.call = (IF doc.cp.final = "none" THEN CallState(doc.cp.rev) ELSE "none")
    BY <2>3 DEF SessionInv, FileInv, Checked
  <2>9. doc.cp.rev \in Nat /\ runs[r].acked \in 0..LastStage
    BY <2>4, RunTypes DEF Checkpoints
  <2>10. CASE doc.cp.final = "none"
    <3>1. doc.cp.rev = 2
      BY <2>5, <2>8, <2>9, <2>10 DEF CallState
    <3> QED BY <2>5, <2>6, <2>7, <2>9, <3>1 DEF StoredOk
  <2>11. CASE doc.cp.final # "none"
    <3>1. doc.cp.rev = 3 /\ runs[r].acked = doc.cp.rev - 1
      BY <2>5, <2>6, <2>8, <2>11 DEF StoredOk
    <3> QED BY <2>7, <2>9, <3>1
  <2> QED BY <2>10, <2>11
<1> HIDE DEF Outcome, Spoken, History
<1> QED BY <1>1, <1>2, <1>3

\* The log is as long as the file is old.
LEMMA LogLength == ASSUME SessionInv PROVE Len(log) = doc.rev /\ log \in Seq(Nat) /\ doc \in Docs /\ faults \in Nat
<1>1. ~present => Len(log) = 0 /\ doc.rev = 0
  BY DEF SessionInv, Logged, Blank
<1> QED BY <1>1 DEF SessionInv, Logged, Types

\* A save puts one revision more in place of the file, or nothing.
LEMMA SaveFacts ==
    ASSUME SessionInv, NEW new \in Docs, new.rev = doc.rev, NEW o, Save(new, o)
    PROVE  /\ doc' \in Docs /\ log' \in Seq(Nat) /\ faults' \in Nat /\ faults' >= faults
           /\ o \in {"lost", "landed"} => faults' > 0
           /\ o = "lost" => doc' = doc /\ log' = log
           /\ o # "lost" => /\ Kept(new, doc') /\ Len(log') = doc'.rev /\ doc'.rev > 0
                            /\ log'[doc'.rev] = Len(doc'.turns)
                            /\ \A i \in 1..Len(log) : log'[i] = log[i]
<1>0. Len(log) = doc.rev /\ log \in Seq(Nat) /\ doc \in Docs /\ faults \in Nat
  BY LogLength
<1>1. faults' \in Nat /\ faults' >= faults /\ (o \in {"lost", "landed"} => faults' > 0)
  BY <1>0 DEF Save
<1>2. CASE o = "lost"
  BY <1>0, <1>1, <1>2 DEF Save
<1>3. CASE o # "lost"
  <2>1. new.rev \in Nat /\ Len(new.turns) \in Nat
    BY DocTypes
  <2>2. doc' = [new EXCEPT !.rev = new.rev + 1] /\ log' = Append(log, Len(new.turns))
    BY <1>3 DEF Save
  <2>3. doc' \in Docs
    <3>1. ASSUME NEW n \in Nat PROVE [new EXCEPT !.rev = n] \in Docs
      BY DEF Docs
    <3>2. new.rev + 1 \in Nat
      BY <2>1
    <3> QED BY <2>2, <3>1, <3>2
  <2>4. /\ doc'.rev = new.rev + 1 /\ doc'.turns = new.turns /\ doc'.cp = new.cp /\ doc'.base = new.base
        /\ doc'.archive = new.archive /\ doc'.origin = new.origin /\ doc'.status = new.status
    BY <2>2 DEF Docs
  <2>5. /\ log' \in Seq(Nat) /\ Len(log') = Len(log) + 1 /\ log'[Len(log) + 1] = Len(new.turns)
        /\ \A i \in 1..Len(log) : log'[i] = log[i]
    BY <1>0, <2>1, <2>2
  <2>6. Kept(new, doc')
    BY <2>4 DEF Kept
  <2> QED BY <1>0, <1>1, <1>3, <2>1, <2>3, <2>4, <2>5, <2>6
<1> QED BY <1>2, <1>3

\* The file and its log after an operation that adds no turn.
LEMMA LoggedKept ==
    ASSUME SessionInv, present' = present, doc' = doc, log' = log, sentOn' = sentOn
    PROVE  Logged'
  BY DEF SessionInv, Logged

\* A save that changes no turn's number or name leaves a log.
LEMMA LoggedSaved ==
    ASSUME SessionInv, present, present', NEW new \in Docs, new.rev = doc.rev, NEW o, Save(new, o), sentOn' = sentOn,
           Len(new.turns) = Len(doc.turns), \A i \in DOMAIN doc.turns : new.turns[i].id = doc.turns[i].id
    PROVE  Logged'
<1>1. CASE o = "lost"
  <2>1. doc' = doc /\ log' = log
    BY <1>1, SaveFacts
  <2> QED BY <2>1, LoggedKept
<1>2. CASE o # "lost"
  <2>1. /\ Kept(new, doc') /\ Len(log') = doc'.rev /\ doc'.rev > 0 /\ log'[doc'.rev] = Len(doc'.turns)
    BY <1>2, SaveFacts
  <2>2. DOMAIN new.turns = DOMAIN doc.turns
    <3>1. doc \in Docs
      BY LogLength
    <3>2. DOMAIN doc.turns = 1..Len(doc.turns) /\ DOMAIN new.turns = 1..Len(new.turns)
      BY <3>1, DocTypes
    <3> QED BY <3>2
  <2>3. \A i \in DOMAIN doc'.turns : sentOn'[doc'.turns[i].id] = i - 1
    BY <2>1, <2>2 DEF Kept, SessionInv, Logged
  <2> QED BY <2>1, <2>3 DEF Logged
<1> QED BY <1>1, <1>2

\* A save of the file as it is.
LEMMA SaveKept ==
    ASSUME SessionInv, NEW o, Save(doc, o), present, present', sentOn' = sentOn
    PROVE  /\ doc' \in Docs /\ log' \in Seq(Nat) /\ faults' \in Nat /\ faults' >= faults
           /\ Kept(doc, doc') /\ FileInv' /\ Logged' /\ Fixed(doc, doc')
<1>1. doc \in Docs
  BY LogLength
<1>2. /\ doc' \in Docs /\ log' \in Seq(Nat) /\ faults' \in Nat /\ faults' >= faults
  BY <1>1, SaveFacts
<1>3. Kept(doc, doc')
  <2>1. CASE o = "lost"
    <3>1. doc' = doc
      BY <1>1, <2>1, SaveFacts
    <3> QED BY <3>1 DEF Kept
  <2>2. CASE o # "lost"
    BY <1>1, <2>2, SaveFacts
  <2> QED BY <2>1, <2>2
<1>4. Logged'
  BY <1>1, LoggedSaved
<1>5. FileInv' /\ Fixed(doc, doc')
  <2>1. TurnsFit(doc') /\ Shape(doc') /\ Checked(doc') /\ Fixed(doc, doc')
    <3>1. TurnsFit(doc) /\ Shape(doc) /\ Checked(doc)
      BY DEF SessionInv, FileInv
    <3> QED BY <1>3, <3>1, KeptShape
  <2> QED BY <2>1 DEF FileInv
<1> QED BY <1>2, <1>3, <1>4, <1>5

\* The file as it is, and no save.
LEMMA FileKept ==
    ASSUME SessionInv, UNCHANGED <<file, log, sentOn>>
    PROVE  /\ doc' \in Docs /\ log' \in Seq(Nat) /\ present' = present /\ created' = created
           /\ sentOn' \in [TurnIds -> Nat]
           /\ Kept(doc, doc') /\ FileInv' /\ Logged' /\ Fixed(doc, doc')
<1>1. present' = present /\ created' = created /\ doc' = doc /\ log' = log /\ sentOn' = sentOn
  BY DEF file
<1>2. doc \in Docs /\ log \in Seq(Nat) /\ sentOn \in [TurnIds -> Nat] /\ TurnsFit(doc) /\ Shape(doc) /\ Checked(doc)
  BY DEF SessionInv, FileInv, Types
<1>3. Kept(doc, doc')
  BY <1>1 DEF Kept
<1>4. FileInv'
  BY <1>1, <1>2 DEF FileInv
<1>5. Fixed(doc, doc')
  BY <1>3, KeptShape
<1>6. Logged'
  BY <1>1, LoggedKept
<1> QED BY <1>1, <1>2, <1>3, <1>4, <1>5, <1>6

\* No run takes a step, and the file says the same.
LEMMA RunsStay ==
    ASSUME SessionInv, present' = present, Kept(doc, doc'), faults' \in Nat, faults' >= faults, UNCHANGED <<gate, runs>>
    PROVE  Tasks' /\ Stored' /\ Denied'
<1>0. /\ doc'.turns = doc.turns /\ doc'.cp = doc.cp /\ doc'.base = doc.base /\ doc'.archive = doc.archive
      /\ doc'.status = doc.status /\ faults \in Nat
      /\ Owned /\ Tasks /\ Stored /\ Denied
  BY LogLength DEF Kept, SessionInv
<1>2. Tasks'
  BY <1>0, TaskKept DEF Tasks
<1>3. Stored'
  <2>1. \A r \in RunIds : Current(r)' => StoredOk(r)'
    BY <1>0, StoredKept DEF Stored
  <2>2. LastTurn' = LastTurn
    BY <1>0 DEF LastTurn
  <2> QED BY <1>0, <2>1, <2>2 DEF Stored
<1>4. Denied'
  <2>1. \A r \in RunIds : Current(r)' <=> Current(r)
    BY ReadSame
  <2> HIDE DEF Current
  <2> QED BY <1>0, <2>1 DEF Denied
<1> QED BY <1>2, <1>3, <1>4

\* Neither does the admission.
LEMMA RunsKept ==
    ASSUME SessionInv, present' = present, created' = created, Kept(doc, doc'), faults' \in Nat, faults' >= faults,
           UNCHANGED <<gate, adm, runs>>, up' = up \/ up'
    PROVE  Owned' /\ Tasks' /\ Stored' /\ Denied'
<1>0. doc'.turns = doc.turns /\ doc'.status = doc.status /\ doc'.base = doc.base /\ Owned
  BY DEF Kept, SessionInv
<1>1. Owned'
  <2>1. TurnSet' = TurnSet /\ LastTurn' = LastTurn
    BY <1>0 DEF TurnSet, LastTurn
  <2> HIDE DEF TurnSet, LastTurn
  <2> QED BY <1>0, <2>1 DEF Owned
<1> QED BY <1>1, RunsStay

\* One run takes a step, and the file says the same.
LEMMA OneRuns ==
    ASSUME SessionInv, present' = present, created' = created, Kept(doc, doc'), faults' \in Nat, faults' >= faults,
           adm' = adm, up, up', NEW r \in RunIds, \A q \in RunIds : q # r => runs'[q] = runs[q],
           \A q \in RunIds : q # r => (gate' = q <=> gate = q),
           runs'[r].turn = runs[r].turn, runs'[r].input = runs[r].input,
           runs[r].pc \in {"live", "settling", "over"}, runs'[r].pc \in {"live", "settling", "over"},
           runs'[r].acked # runs[r].acked => Current(r), TaskOk(r)', Current(r) => StoredOk(r)'
    PROVE  Owned' /\ Tasks' /\ Stored' /\ Denied'
<1>0. /\ doc'.turns = doc.turns /\ doc'.cp = doc.cp /\ doc'.base = doc.base /\ doc'.archive = doc.archive
      /\ doc'.status = doc.status /\ faults \in Nat
      /\ Owned /\ Tasks /\ Stored /\ Denied
  BY LogLength DEF Kept, SessionInv
<1>1. \A q \in RunIds : runs'[q].turn = runs[q].turn /\ (runs'[q].pc = "unused" <=> runs[q].pc = "unused")
  <2>1. ASSUME NEW q \in RunIds PROVE runs'[q].turn = runs[q].turn /\ (runs'[q].pc = "unused" <=> runs[q].pc = "unused")
    <3>1. CASE q = r
      BY <3>1
    <3>2. CASE q # r
      BY <3>2
    <3> QED BY <3>1, <3>2
  <2> QED BY <2>1
<1>2. TurnSet' = TurnSet /\ LastTurn' = LastTurn
  BY <1>0 DEF TurnSet, LastTurn
<1>3. Owned'
  <2> HIDE DEF TurnSet, LastTurn
  <2>1. \A q \in RunIds : runs'[q].pc = "unused" => runs'[q] = Unused
    BY <1>0 DEF Owned
  <2> QED BY <1>0, <1>1, <1>2, <2>1 DEF Owned
<1>4. Tasks'
  <2>1. ASSUME NEW q \in RunIds PROVE TaskOk(q)'
    <3>1. CASE q = r
      BY <3>1
    <3>2. CASE q # r
      BY <1>0, <3>2, TaskKept DEF Tasks
    <3> QED BY <3>1, <3>2
  <2> QED BY <2>1 DEF Tasks
<1>5. \A q \in RunIds : Current(q)' <=> Current(q)
  BY <1>1, ReadSame
<1>6. Stored'
  <2>1. ASSUME NEW q \in RunIds PROVE Current(q)' => StoredOk(q)'
    <3>1. CASE q = r
      BY <3>1, <1>5
    <3>2. CASE q # r
      BY <1>0, <3>2, StoredKept DEF Stored
    <3> QED BY <3>1, <3>2
  <2>2. present' /\ doc'.cp.run # 0 => runs'[doc'.cp.run].pc # "unused" /\ runs'[doc'.cp.run].turn = LastTurn'.id
    <3>1. doc.cp.run # 0 => doc.cp.run \in RunIds
      BY OwnCheckpoint
    <3> HIDE DEF LastTurn
    <3> QED BY <1>0, <1>1, <1>2, <3>1 DEF Stored
  <2> QED BY <2>1, <2>2 DEF Stored
<1>7. Denied'
  <2>1. ASSUME NEW q \in RunIds, Outcome(q, "skipped") \in Range(doc'.archive)
        PROVE  runs'[q].pc # "unused" /\ runs'[q].acked <= 2 /\ ~Current(q)'
    <3>1. runs[q].pc # "unused" /\ runs[q].acked <= 2 /\ ~Current(q)
      BY <1>0, <2>1 DEF Denied
    <3>2. runs'[q].acked = runs[q].acked
      BY <3>1
    <3> HIDE DEF Current
    <3> QED BY <3>1, <3>2, <1>1, <1>5
  <2> QED BY <2>1 DEF Denied
<1> QED BY <1>3, <1>4, <1>6, <1>7

-----------------------------------------------------------------------------
(* The steps of the run, and of the process                                *)

\* One run's record is replaced.
LEMMA RunSet ==
    ASSUME SessionInv, NEW r \in RunIds, NEW new \in RunRecords, runs' = [runs EXCEPT ![r] = new]
    PROVE  runs' \in [RunIds -> RunRecords] /\ runs'[r] = new /\ \A q \in RunIds : q # r => runs'[q] = runs[q]
<1>1. runs \in [RunIds -> RunRecords]
  BY DEF SessionInv, Types
<1> QED BY <1>1

\* The run hands over its next snapshot.
LEMMA WriteStep ==
    ASSUME SessionInv, NEW r \in RunIds, NEW want \in {"none", "completed", "failed"}, Write(r, want)
    PROVE  SessionInv' /\ Fixed(doc, doc')
<1> DEFINE new == [runs[r] EXCEPT !.op = "queued", !.want = want]
<1>0. /\ up /\ runs[r].pc = "live" /\ runs[r].op = "none"
      /\ want = "none" => runs[r].acked < LastStage
      /\ runs' = [runs EXCEPT ![r] = new]
      /\ UNCHANGED <<up, gate, adm, file, log, sentOn, bounds>>
  BY DEF Write
<1>1. runs[r] \in RunRecords
  BY RunTypes
<1>2. new \in RunRecords /\ new.op = "queued" /\ new.want = want /\ new.pc = runs[r].pc /\ new.turn = runs[r].turn
      /\ new.input = runs[r].input /\ new.acked = runs[r].acked /\ new.cancelled = runs[r].cancelled
      /\ new.report = runs[r].report /\ new.told = runs[r].told
  BY <1>1 DEF RunRecords
<1> HIDE DEF new
<1>3. runs' \in [RunIds -> RunRecords] /\ runs'[r] = new /\ \A q \in RunIds : q # r => runs'[q] = runs[q]
  BY <1>0, <1>2, RunSet
<1>4. /\ doc' \in Docs /\ log' \in Seq(Nat) /\ present' = present /\ created' = created
      /\ sentOn' \in [TurnIds -> Nat]
      /\ Kept(doc, doc') /\ FileInv' /\ Logged' /\ Fixed(doc, doc')
  BY <1>0, FileKept
<1>5. Types'
  BY <1>0, <1>3, <1>4 DEF SessionInv, Types, bounds
<1>6. TaskOk(r)'
  <2>1. TaskOk(r)
    BY DEF SessionInv, Tasks
  <2>2. (Current(r)' <=> Current(r)) /\ (Done(r)' <=> Done(r)) /\ (Running(r)' <=> Running(r))
    BY <1>2, <1>3, <1>4, ReadSame
  <2>3. gate' = gate /\ doc'.cp = doc.cp /\ faults' = faults
    BY <1>0, <1>4 DEF Kept, bounds
  <2> HIDE DEF Current, Done, Running
  <2> QED BY <1>0, <1>2, <1>3, <2>1, <2>2, <2>3 DEF TaskOk
<1>7. Current(r) => StoredOk(r)'
  <2>1. Current(r) => StoredOk(r)
    BY DEF SessionInv, Stored
  <2>2. doc'.cp = doc.cp /\ LastTurn' = LastTurn /\ doc'.base = doc.base
    BY <1>4 DEF Kept, LastTurn
  <2> HIDE DEF Current, LastTurn
  <2> QED BY <1>0, <1>2, <1>3, <2>1, <2>2 DEF StoredOk
<1>8. faults' \in Nat /\ faults' >= faults
  BY <1>0, LogLength DEF bounds
<1>9. Owned' /\ Tasks' /\ Stored' /\ Denied'
  BY <1>0, <1>2, <1>3, <1>4, <1>6, <1>7, <1>8, OneRuns
<1> QED BY <1>4, <1>5, <1>9 DEF SessionInv

\* While a run lives, and its commit waits or writes, the file is as the commit needs it.
LEMMA LiveAccepted ==
    ASSUME SessionInv, NEW r \in RunIds, runs[r].pc = "live", runs[r].op = "queued"
    PROVE  Accepts(r)
<1>1. Running(r)
  BY DEF SessionInv, Tasks, TaskOk
<1>2. Current(r) /\ StoredOk(r)
  BY <1>1 DEF Running, SessionInv, Stored
<1>3. CanLoad
  BY <1>2, ShapeLoads DEF Current, CanLoad, SessionInv, FileInv, Types
<1>4. LastTurn.status = "running"
  <2>1. doc.status = LastTurn.status
    <3>1. doc \in Docs /\ doc.turns # <<>>
      BY <1>2, LogLength DEF Current
    <3> QED BY <3>1, DocTypes DEF SessionInv, FileInv, Shape, LastTurn
  <2> QED BY <2>1, <1>1 DEF Running
<1> HIDE DEF CanLoad
<1> QED BY <1>1, <1>2, <1>3, <1>4 DEF Accepts, Current, StoredOk, Running

\* What an accepted snapshot finds.
LEMMA AcceptedRuns ==
    ASSUME SessionInv, NEW r \in RunIds, Accepts(r)
    PROVE  Running(r)
<1>1. doc.status = LastTurn.status
  <2>1. doc \in Docs /\ doc.turns # <<>>
    BY LogLength DEF Accepts
  <2> QED BY <2>1, DocTypes DEF SessionInv, FileInv, Shape, LastTurn
<1>2. Current(r)
  BY DEF Accepts, Current, CanLoad
<1>3. doc.cp.run = r => doc.cp.rev = runs[r].acked
  <2>1. doc \in Docs
    BY LogLength
  <2>2. doc.cp \in Checkpoints
    BY <2>1, DocTypes
  <2>3. doc.cp.rev \in Nat /\ runs[r].acked \in 0..LastStage
    BY <2>2, RunTypes DEF Checkpoints
  <2> QED BY <2>3 DEF Accepts
<1> QED BY <1>1, <1>2, <1>3 DEF Accepts, Running

\* The commit looks at the file and at its token.
LEMMA CommitBeginStep ==
    ASSUME SessionInv, NEW r \in RunIds, CommitBegin(r)
    PROVE  SessionInv' /\ Fixed(doc, doc')
<1> DEFINE op == IF Accepts(r) /\ ~runs[r].cancelled THEN "writing" ELSE Answered(r, "refused")
           new == [runs[r] EXCEPT !.op = op]
<1>0. /\ up /\ gate = 0 /\ runs[r].op = "queued"
      /\ gate' = IF Accepts(r) /\ ~runs[r].cancelled THEN r ELSE 0
      /\ runs' = [runs EXCEPT ![r] = new]
      /\ UNCHANGED <<up, adm, file, log, sentOn, bounds>>
  BY DEF CommitBegin, GateFree
<1>1. runs[r] \in RunRecords /\ TaskOk(r)
  BY RunTypes DEF SessionInv, Tasks
<1>1a. runs[r].pc \in {"live", "settling", "over"} /\ (runs[r].pc = "live" => ~runs[r].cancelled /\ Accepts(r))
  BY <1>0, <1>1, LiveAccepted DEF TaskOk, RunRecords
<1>1b. /\ op \in {"writing", "none"}
       /\ op = "writing" => gate' = r /\ Running(r) /\ ~runs[r].cancelled
       /\ op = "none" => gate' = 0 /\ runs[r].pc # "live"
  <2> HIDE DEF Accepts, Running
  <2> QED BY <1>0, <1>1a, AcceptedRuns DEF Answered
<1> HIDE DEF op
<1>2. new \in RunRecords /\ new.op = op /\ new.want = runs[r].want /\ new.pc = runs[r].pc /\ new.turn = runs[r].turn
      /\ new.input = runs[r].input /\ new.acked = runs[r].acked /\ new.cancelled = runs[r].cancelled
      /\ new.report = runs[r].report /\ new.told = runs[r].told
  BY <1>1, <1>1b DEF RunRecords
<1> HIDE DEF new
<1>3. runs' \in [RunIds -> RunRecords] /\ runs'[r] = new /\ \A q \in RunIds : q # r => runs'[q] = runs[q]
  BY <1>0, <1>2, RunSet
<1>4. /\ doc' \in Docs /\ log' \in Seq(Nat) /\ present' = present /\ created' = created
      /\ sentOn' \in [TurnIds -> Nat]
      /\ Kept(doc, doc') /\ FileInv' /\ Logged' /\ Fixed(doc, doc')
  BY <1>0, FileKept
<1>4a. r # 0 /\ gate' \in 0..MaxRuns
  BY <1>0, RunsAssumption DEF RunIds
<1>5. Types'
  BY <1>0, <1>3, <1>4, <1>4a DEF SessionInv, Types, bounds
<1>6. TaskOk(r)'
  <2>1. (Current(r)' <=> Current(r)) /\ (Done(r)' <=> Done(r)) /\ (Running(r)' <=> Running(r))
    BY <1>2, <1>3, <1>4, ReadSame
  <2>2. doc'.cp = doc.cp /\ faults' = faults
    BY <1>0, <1>4 DEF Kept, bounds
  <2> HIDE DEF Current, Done, Running
  <2>3. CASE op = "writing"
    BY <1>0, <1>1, <1>1a, <1>1b, <1>2, <1>3, <1>4a, <2>1, <2>2, <2>3 DEF TaskOk
  <2>4. CASE op = "none"
    BY <1>0, <1>1, <1>1a, <1>1b, <1>2, <1>3, <1>4a, <2>1, <2>2, <2>4 DEF TaskOk
  <2> QED BY <1>1b, <2>3, <2>4
<1>7. Current(r) => StoredOk(r)'
  <2>1. Current(r) => StoredOk(r)
    BY DEF SessionInv, Stored
  <2>2. doc'.cp = doc.cp /\ LastTurn' = LastTurn /\ doc'.base = doc.base
    BY <1>4 DEF Kept, LastTurn
  <2> HIDE DEF Current, LastTurn
  <2> QED BY <1>0, <1>1a, <1>2, <1>3, <2>1, <2>2 DEF StoredOk
<1>8. faults' \in Nat /\ faults' >= faults
  BY <1>0, LogLength DEF bounds
<1>8a. \A q \in RunIds : q # r => (gate' = q <=> gate = q)
  BY <1>0, <1>4a, RunsAssumption DEF RunIds
<1>9. Owned' /\ Tasks' /\ Stored' /\ Denied'
  BY <1>0, <1>1a, <1>2, <1>3, <1>4, <1>6, <1>7, <1>8, <1>8a, OneRuns
<1> QED BY <1>4, <1>5, <1>9 DEF SessionInv

\* The answer of the sink reaches the run.
LEMMA AcknowledgedStep ==
    ASSUME SessionInv, NEW r \in RunIds, Acknowledged(r)
    PROVE  SessionInv' /\ Fixed(doc, doc')
<1> DEFINE more == runs[r].want = "none"
           new == [runs[r] EXCEPT !.op = "none", !.report = runs[r].want, !.want = "none",
                                  !.acked = IF more THEN runs[r].acked + 1 ELSE runs[r].acked,
                                  !.pc = IF more THEN "live" ELSE "settling"]
<1>0. /\ up /\ runs[r].pc = "live" /\ runs[r].op = "done"
      /\ runs' = [runs EXCEPT ![r] = new]
      /\ UNCHANGED <<up, gate, adm, file, log, sentOn, bounds>>
  BY DEF Acknowledged
<1>1. runs[r] \in RunRecords /\ TaskOk(r)
  BY RunTypes DEF SessionInv, Tasks
<1>1a. more \in BOOLEAN /\ runs[r].acked \in 0..LastStage /\ runs[r].want \in {"none", "completed", "failed"}
       /\ (more => runs[r].acked + 1 \in 0..LastStage)
  BY <1>0, <1>1 DEF RunRecords, TaskOk, LastStage
<1>2. new \in RunRecords /\ new.op = "none" /\ new.want = "none" /\ new.turn = runs[r].turn
      /\ new.pc = (IF more THEN "live" ELSE "settling")
      /\ new.input = runs[r].input /\ new.acked = (IF more THEN runs[r].acked + 1 ELSE runs[r].acked)
      /\ new.cancelled = runs[r].cancelled
      /\ new.report = runs[r].want /\ new.told = runs[r].told
  <2> DEFINE a == IF more THEN runs[r].acked + 1 ELSE runs[r].acked
             p == IF more THEN "live" ELSE "settling"
             w == runs[r].want
  <2>1. a \in 0..LastStage /\ p \in {"live", "settling"} /\ w \in {"none", "completed", "failed"}
    BY <1>1a
  <2> HIDE DEF a, p, w
  <2>2. [runs[r] EXCEPT !.op = "none", !.report = w, !.want = "none", !.acked = a, !.pc = p] \in RunRecords
    BY <1>1, <2>1 DEF RunRecords
  <2>3. new = [runs[r] EXCEPT !.op = "none", !.report = w, !.want = "none", !.acked = a, !.pc = p]
    BY DEF a, p, w
  <2>4. new \in RunRecords /\ new.op = "none" /\ new.want = "none" /\ new.turn = runs[r].turn /\ new.pc = p
        /\ new.input = runs[r].input /\ new.acked = a /\ new.cancelled = runs[r].cancelled
        /\ new.report = w /\ new.told = runs[r].told
    <3> HIDE DEF new
    <3> QED BY <1>1, <2>2, <2>3 DEF RunRecords
  <2> QED BY <2>4 DEF a, p, w
<1> HIDE DEF new
<1>3. runs' \in [RunIds -> RunRecords] /\ runs'[r] = new /\ \A q \in RunIds : q # r => runs'[q] = runs[q]
  BY <1>0, <1>2, RunSet
<1>4. /\ doc' \in Docs /\ log' \in Seq(Nat) /\ present' = present /\ created' = created
      /\ sentOn' \in [TurnIds -> Nat]
      /\ Kept(doc, doc') /\ FileInv' /\ Logged' /\ Fixed(doc, doc')
  BY <1>0, FileKept
<1>5. Types'
  BY <1>0, <1>3, <1>4 DEF SessionInv, Types, bounds
<1>5a. more => Current(r) /\ doc.status = "running" /\ doc.cp.run = r /\ doc.cp.rev = runs[r].acked + 1
  BY <1>0, <1>1 DEF TaskOk
<1>5b. (Current(r)' <=> Current(r)) /\ (Done(r)' <=> Done(r))
  BY <1>2, <1>3, <1>4, ReadSame
<1>5c. doc'.cp = doc.cp /\ LastTurn' = LastTurn /\ doc'.base = doc.base /\ doc'.status = doc.status /\ faults' = faults
       /\ gate' = gate
  BY <1>0, <1>4 DEF Kept, LastTurn, bounds
<1>6. TaskOk(r)'
  <2> HIDE DEF Current, Done
  <2>1. CASE more
    <3>1. Running(r)'
      BY <1>2, <1>3, <1>5a, <1>5b, <1>5c, <2>1 DEF Running
    <3> HIDE DEF Running
    <3>2. runs'[r].report = "none" /\ runs'[r].told = runs[r].told
      BY <1>2, <1>3, <2>1
    <3> QED BY <1>0, <1>1, <1>1a, <1>2, <1>3, <1>5b, <1>5c, <2>1, <3>1, <3>2 DEF TaskOk
  <2>2. CASE ~more
    <3> HIDE DEF Running
    <3> QED BY <1>0, <1>1, <1>1a, <1>2, <1>3, <1>5b, <1>5c, <2>2 DEF TaskOk
  <2> QED BY <2>1, <2>2
<1>7. Current(r) => StoredOk(r)'
  <2>1. Current(r) => StoredOk(r)
    BY DEF SessionInv, Stored
  <2>2. doc.cp.rev \in Nat /\ doc.cp.run \in 0..MaxRuns
    <3>1. doc.cp \in Checkpoints
      BY LogLength, DocTypes
    <3> QED BY <3>1 DEF Checkpoints
  <2>3. more => doc.cp.final = "none"
    <3>2. ASSUME more PROVE doc.cp.final = "none"
      <4>1. doc.cp.run # 0
        BY <1>5a, <3>2, RunsAssumption DEF RunIds
      <4>2. doc.cp.final # "none" => doc.status = doc.cp.final
        BY <4>1 DEF SessionInv, FileInv, Checked
      <4>3. doc.cp.final \in {"none", "completed", "failed"}
        <5>1. doc.cp \in Checkpoints
          BY LogLength, DocTypes
        <5> QED BY <5>1 DEF Checkpoints
      <4> QED BY <1>5a, <3>2, <4>2, <4>3
    <3> QED BY <3>2
  <2> HIDE DEF Current, LastTurn
  <2>4. CASE more
    BY <1>0, <1>1a, <1>2, <1>3, <1>5a, <1>5c, <2>1, <2>2, <2>3, <2>4 DEF StoredOk
  <2>5. CASE ~more
    BY <1>0, <1>1a, <1>2, <1>3, <1>5c, <2>1, <2>2, <2>5 DEF StoredOk
  <2> QED BY <2>4, <2>5
<1>8. faults' \in Nat /\ faults' >= faults
  BY <1>0, LogLength DEF bounds
<1>8a. runs'[r].acked # runs[r].acked => Current(r)
  BY <1>2, <1>3, <1>5a
<1>9. Owned' /\ Tasks' /\ Stored' /\ Denied'
  <2>1. runs'[r].pc \in {"live", "settling", "over"} /\ runs'[r].turn = runs[r].turn /\ runs'[r].input = runs[r].input
    BY <1>2, <1>3
  <2>2. runs[r].pc \in {"live", "settling", "over"} /\ up' /\ adm' = adm /\ gate' = gate
    BY <1>0
  <2> QED BY <1>0, <2>1, <2>2, <1>3, <1>4, <1>6, <1>7, <1>8, <1>8a, OneRuns
<1> QED BY <1>4, <1>5, <1>9 DEF SessionInv

\* The run gives its commit up, or learns that it failed.
LEMMA NotAcknowledgedStep ==
    ASSUME SessionInv, NEW r \in RunIds, NotAcknowledged(r)
    PROVE  SessionInv' /\ Fixed(doc, doc')
<1> DEFINE c == runs[r].op \notin {"error", "refused"}
           new == [runs[r] EXCEPT !.pc = "settling", !.report = "failed", !.cancelled = c]
<1>0. /\ up /\ runs[r].pc = "live" /\ runs[r].op # "none"
      /\ runs' = [runs EXCEPT ![r] = new]
      /\ UNCHANGED <<up, gate, adm, file, log, sentOn, bounds>>
  BY DEF NotAcknowledged
<1>1. runs[r] \in RunRecords /\ TaskOk(r) /\ c \in BOOLEAN
  BY RunTypes DEF SessionInv, Tasks
<1>1a. runs[r].op \in {"queued", "writing"} => c
  OBVIOUS
<1> HIDE DEF c
<1>2. new \in RunRecords /\ new.op = runs[r].op /\ new.want = runs[r].want /\ new.pc = "settling"
      /\ new.turn = runs[r].turn
      /\ new.input = runs[r].input /\ new.acked = runs[r].acked /\ new.cancelled = c
      /\ new.report = "failed" /\ new.told = runs[r].told
  BY <1>1 DEF RunRecords
<1> HIDE DEF new
<1>3. runs' \in [RunIds -> RunRecords] /\ runs'[r] = new /\ \A q \in RunIds : q # r => runs'[q] = runs[q]
  BY <1>0, <1>2, RunSet
<1>4. /\ doc' \in Docs /\ log' \in Seq(Nat) /\ present' = present /\ created' = created
      /\ sentOn' \in [TurnIds -> Nat]
      /\ Kept(doc, doc') /\ FileInv' /\ Logged' /\ Fixed(doc, doc')
  BY <1>0, FileKept
<1>5. Types'
  BY <1>0, <1>3, <1>4 DEF SessionInv, Types, bounds
<1>6. TaskOk(r)'
  <2>2. (Current(r)' <=> Current(r)) /\ (Done(r)' <=> Done(r)) /\ (Running(r)' <=> Running(r))
    BY <1>2, <1>3, <1>4, ReadSame
  <2>3. gate' = gate /\ doc'.cp = doc.cp /\ faults' = faults
    BY <1>0, <1>4 DEF Kept, bounds
  <2> HIDE DEF Current, Done, Running
  <2> QED BY <1>0, <1>1, <1>1a, <1>2, <1>3, <2>2, <2>3 DEF TaskOk
<1>7. Current(r) => StoredOk(r)'
  <2>1. Current(r) => StoredOk(r)
    BY DEF SessionInv, Stored
  <2>2. doc'.cp = doc.cp /\ LastTurn' = LastTurn /\ doc'.base = doc.base
    BY <1>4 DEF Kept, LastTurn
  <2> HIDE DEF Current, LastTurn
  <2> QED BY <1>0, <1>2, <1>3, <2>1, <2>2 DEF StoredOk
<1>8. faults' \in Nat /\ faults' >= faults
  BY <1>0, LogLength DEF bounds
<1>9. Owned' /\ Tasks' /\ Stored' /\ Denied'
  BY <1>0, <1>2, <1>3, <1>4, <1>6, <1>7, <1>8, OneRuns
<1> QED BY <1>4, <1>5, <1>9 DEF SessionInv

\* A client edits the file, or another process part saves what no history is read from.
LEMMA EditStep ==
    ASSUME SessionInv, NEW o, Edit(o) \/ Touch(o)
    PROVE  SessionInv' /\ Fixed(doc, doc')
<1>1. /\ Save(doc, o) /\ present /\ present' = present /\ created' = created /\ sentOn' = sentOn
      /\ UNCHANGED <<up, gate, adm, runs, crashes>> /\ edits' = edits + 1
  BY DEF Edit, Touch, CanLoad, process
<1>2. /\ doc' \in Docs /\ log' \in Seq(Nat) /\ faults' \in Nat /\ faults' >= faults
      /\ Kept(doc, doc') /\ FileInv' /\ Logged' /\ Fixed(doc, doc')
  BY <1>1, SaveKept
<1>3. Types'
  BY <1>1, <1>2 DEF SessionInv, Types
<1>4. Owned' /\ Tasks' /\ Stored' /\ Denied'
  BY <1>1, <1>2, RunsKept
<1> QED BY <1>2, <1>3, <1>4 DEF SessionInv

\* The admission gives up.
LEMMA StartRefusedStep ==
    ASSUME SessionInv, StartRefused
    PROVE  SessionInv' /\ Fixed(doc, doc')
<1>1. /\ up /\ adm.pc = "starting" /\ adm' = [adm EXCEPT !.pc = "failing"]
      /\ UNCHANGED <<up, gate, runs, file, log, sentOn, bounds>>
  BY DEF StartRefused
<1>2. /\ doc' \in Docs /\ log' \in Seq(Nat) /\ present' = present /\ created' = created
      /\ sentOn' \in [TurnIds -> Nat]
      /\ Kept(doc, doc') /\ FileInv' /\ Logged' /\ Fixed(doc, doc')
  BY <1>1, FileKept
<1>3. adm \in Admissions
  BY DEF SessionInv, Types
<1>4. adm' \in Admissions /\ adm'.pc = "failing" /\ adm'.turn = adm.turn
  BY <1>1, <1>3 DEF Admissions
<1>5. Types'
  BY <1>1, <1>2, <1>4 DEF SessionInv, Types, bounds
<1>6. Tasks' /\ Stored' /\ Denied'
  BY <1>1, <1>2, LogLength, RunsStay DEF bounds
<1>7. Owned'
  <2>1. TurnSet' = TurnSet /\ LastTurn' = LastTurn /\ doc'.turns = doc.turns /\ doc'.status = doc.status
    BY <1>2 DEF TurnSet, LastTurn, Kept
  <2>2. Owned
    BY DEF SessionInv
  <2> HIDE DEF TurnSet, LastTurn
  <2> QED BY <1>1, <1>2, <1>4, <2>1, <2>2 DEF Owned
<1> QED BY <1>2, <1>5, <1>6, <1>7 DEF SessionInv

\* A run that was never started.
LEMMA UnusedIs ==
    /\ Unused \in RunRecords /\ Unused.turn = 0 /\ Unused.pc = "unused" /\ Unused.input = <<>> /\ Unused.acked = 0
    /\ Unused.op = "none" /\ Unused.want = "none" /\ Unused.report = "none" /\ Unused.told = "none"
    /\ Unused.cancelled = FALSE
<1>1. <<>> \in Seq(Messages) /\ 0 \in 0..LastStage
  BY DEF LastStage
<1> QED BY <1>1 DEF Unused, RunRecords

\* A run starts for the turn that was admitted.
LEMMA StartStep ==
    ASSUME SessionInv, NEW r \in RunIds, Start(r)
    PROVE  SessionInv' /\ Fixed(doc, doc')
<1> DEFINE new == [Unused EXCEPT !.turn = adm.turn, !.pc = "live", !.input = adm.input]
<1>1. /\ up /\ adm.pc = "starting" /\ runs[r].pc = "unused"
      /\ runs' = [runs EXCEPT ![r] = new]
      /\ adm' = [adm EXCEPT !.pc = "binding", !.run = r]
      /\ UNCHANGED <<up, gate, file, log, sentOn, bounds>>
  BY DEF Start
<1>2. /\ doc' \in Docs /\ log' \in Seq(Nat) /\ present' = present /\ created' = created
      /\ sentOn' \in [TurnIds -> Nat]
      /\ Kept(doc, doc') /\ FileInv' /\ Logged' /\ Fixed(doc, doc')
  BY <1>1, FileKept
<1>2a. /\ doc'.turns = doc.turns /\ doc'.cp = doc.cp /\ doc'.base = doc.base /\ doc'.archive = doc.archive
       /\ doc'.status = doc.status /\ faults' = faults /\ faults \in Nat /\ gate' = gate
       /\ Owned /\ Tasks /\ Stored /\ Denied
  BY <1>1, <1>2, LogLength DEF Kept, SessionInv, bounds
<1>3. adm \in Admissions
  BY DEF SessionInv, Types
<1>4. /\ adm' \in Admissions /\ adm'.pc = "binding" /\ adm'.turn = adm.turn /\ adm'.run = r
      /\ adm.turn \in TurnIds \union {0} /\ adm.input \in Seq(Messages)
  <2>1. r \in 0..MaxRuns
    BY RunsAssumption DEF RunIds
  <2>2. ASSUME NEW a \in Admissions, NEW k \in 0..MaxRuns
        PROVE  /\ [a EXCEPT !.pc = "binding", !.run = k] \in Admissions
               /\ [a EXCEPT !.pc = "binding", !.run = k].pc = "binding"
               /\ [a EXCEPT !.pc = "binding", !.run = k].turn = a.turn
               /\ [a EXCEPT !.pc = "binding", !.run = k].run = k
               /\ a.turn \in TurnIds \union {0} /\ a.input \in Seq(Messages)
    BY DEF Admissions
  <2>3. adm' = [adm EXCEPT !.pc = "binding", !.run = r]
    BY <1>1
  <2> QED BY <2>1, <2>2, <2>3, <1>3
<1>5. /\ present /\ doc.turns # <<>> /\ LastTurn.id = adm.turn /\ doc.status = "running" /\ LastTurn.run = 0
      /\ \A q \in RunIds : runs[q].turn # adm.turn
      /\ doc.base.input = adm.input
  BY <1>1, <1>2a DEF Owned
<1>5a. adm.turn \in TurnIds /\ adm.turn \in TurnSet
  <2>1. doc.turns # <<>> => LastTurn \in Turns /\ Len(doc.turns) \in DOMAIN doc.turns
    BY LogLength, DocTypes DEF LastTurn
  <2> QED BY <1>5, <2>1 DEF Turns, TurnSet, LastTurn
<1>6. /\ new \in RunRecords /\ new.turn = adm.turn /\ new.pc = "live" /\ new.input = adm.input /\ new.acked = 0
      /\ new.op = "none" /\ new.want = "none" /\ new.report = "none" /\ new.told = "none" /\ new.cancelled = FALSE
  <2>2. /\ Unused \in RunRecords /\ Unused.acked = 0 /\ Unused.op = "none" /\ Unused.want = "none"
        /\ Unused.report = "none" /\ Unused.told = "none" /\ Unused.cancelled = FALSE
    BY UnusedIs
  <2> DEFINE u == Unused
             t == adm.turn
             i == adm.input
  <2>3. u \in RunRecords /\ t \in TurnIds \union {0} /\ i \in Seq(Messages)
    BY <1>4, <2>2
  <2>4. new = [u EXCEPT !.turn = t, !.pc = "live", !.input = i]
    OBVIOUS
  <2> HIDE DEF new, u, t, i
  <2>5. /\ new \in RunRecords /\ new.turn = t /\ new.pc = "live" /\ new.input = i /\ new.acked = u.acked
        /\ new.op = u.op /\ new.want = u.want /\ new.report = u.report /\ new.told = u.told
        /\ new.cancelled = u.cancelled
    BY <2>3, <2>4 DEF RunRecords
  <2> QED BY <2>2, <2>5 DEF u, t, i
<1> HIDE DEF new
<1>7. runs' \in [RunIds -> RunRecords] /\ runs'[r] = new /\ \A q \in RunIds : q # r => runs'[q] = runs[q]
  BY <1>1, <1>6, RunSet
<1>8. Types'
  BY <1>1, <1>2, <1>4, <1>7 DEF SessionInv, Types, bounds
<1>9. LastTurn' = LastTurn /\ TurnSet' = TurnSet
  BY <1>2a DEF LastTurn, TurnSet
<1>10. Owned'
  <2> HIDE DEF LastTurn, TurnSet
  <2>1. \A q \in RunIds : runs'[q].pc = "unused" => runs'[q] = Unused
    BY <1>2a, <1>6, <1>7 DEF Owned
  <2>2. \A q \in RunIds : runs'[q].pc # "unused" => runs'[q].turn \in TurnIds /\ (present' => runs'[q].turn \in TurnSet')
    BY <1>2, <1>2a, <1>5a, <1>6, <1>7, <1>9 DEF Owned
  <2>3. \A p, q \in RunIds : runs'[p].pc # "unused" /\ runs'[q].pc # "unused" /\ runs'[p].turn = runs'[q].turn => p = q
    BY <1>2a, <1>5, <1>6, <1>7 DEF Owned
  <2>4. created'
    BY <1>2, <1>5 DEF SessionInv, Types
  <2> QED BY <1>1, <1>4, <1>5a, <1>6, <1>7, <2>1, <2>2, <2>3, <2>4 DEF Owned
<1>11. doc.cp.run # r
  <2>1. r # 0
    BY RunsAssumption DEF RunIds
  <2> QED BY <1>1, <1>2a, <1>5, <2>1 DEF Stored
<1>12. Tasks'
  <2>1. TaskOk(r)
    BY <1>2a DEF Tasks
  <2>2. Running(r)'
    BY <1>2, <1>2a, <1>5, <1>6, <1>7, <1>9, <1>11 DEF Running, Current
  <2>3. TaskOk(r)'
    <3> HIDE DEF Current, Done, Running
    <3>1. gate # r
      BY <1>1, <2>1 DEF TaskOk
    <3> QED BY <1>2a, <1>6, <1>7, <2>2, <3>1 DEF TaskOk, LastStage
  <2>4. ASSUME NEW q \in RunIds, q # r PROVE TaskOk(q)'
    BY <2>4, <1>2, <1>2a, <1>7, TaskKept DEF Tasks
  <2> QED BY <2>3, <2>4 DEF Tasks
<1>13. \A q \in RunIds : q # r => (Current(q)' <=> Current(q))
  BY <1>2, <1>7, ReadSame
<1>14. Stored'
  <2>1. StoredOk(r)'
    <3> HIDE DEF LastTurn
    <3> QED BY <1>2a, <1>5, <1>6, <1>7, <1>9, <1>11 DEF StoredOk
  <2>2. ASSUME NEW q \in RunIds, q # r PROVE Current(q)' => StoredOk(q)'
    BY <2>2, <1>2, <1>2a, <1>7, StoredKept DEF Stored
  <2>3. present' /\ doc'.cp.run # 0 => runs'[doc'.cp.run].pc # "unused" /\ runs'[doc'.cp.run].turn = LastTurn'.id
    <3>1. doc.cp.run # 0 => doc.cp.run \in RunIds
      BY OwnCheckpoint
    <3> HIDE DEF LastTurn
    <3> QED BY <1>2, <1>2a, <1>7, <1>9, <1>11, <3>1 DEF Stored
  <2> QED BY <2>1, <2>2, <2>3 DEF Stored
<1>15. Denied'
  <2>1. ASSUME NEW q \in RunIds, Outcome(q, "skipped") \in Range(doc'.archive)
        PROVE  runs'[q].pc # "unused" /\ runs'[q].acked <= 2 /\ ~Current(q)'
    <3>1. runs[q].pc # "unused" /\ runs[q].acked <= 2 /\ ~Current(q)
      BY <1>2a, <2>1 DEF Denied
    <3>2. q # r
      BY <3>1, <1>1
    <3> HIDE DEF Current
    <3> QED BY <3>1, <3>2, <1>7, <1>13
  <2> QED BY <2>1 DEF Denied
<1> QED BY <1>2, <1>8, <1>10, <1>12, <1>14, <1>15 DEF SessionInv

\* The process dies.
LEMMA CrashStep ==
    ASSUME SessionInv, Crash
    PROVE  SessionInv' /\ Fixed(doc, doc')
<1>1. /\ up' = FALSE /\ gate' = 0 /\ adm' = Idle /\ crashes' = crashes + 1
      /\ runs' = [r \in RunIds |->
                   [Unused EXCEPT !.turn = runs[r].turn, !.acked = runs[r].acked, !.told = runs[r].told,
                                  !.pc = IF runs[r].pc = "unused" THEN "unused" ELSE "dead"]]
      /\ UNCHANGED <<file, log, sentOn, edits, faults>>
  BY DEF Crash
<1>2. /\ doc' \in Docs /\ log' \in Seq(Nat) /\ present' = present /\ created' = created
      /\ sentOn' \in [TurnIds -> Nat]
      /\ Kept(doc, doc') /\ FileInv' /\ Logged' /\ Fixed(doc, doc')
  BY <1>1, FileKept
<1>2a. /\ doc'.turns = doc.turns /\ doc'.cp = doc.cp /\ doc'.base = doc.base /\ doc'.archive = doc.archive
       /\ doc'.status = doc.status /\ faults' = faults
       /\ Owned /\ Tasks /\ Stored /\ Denied
  BY <1>1, <1>2 DEF Kept, SessionInv
<1>3. ASSUME NEW r \in RunIds
      PROVE  /\ runs'[r] \in RunRecords /\ runs'[r].turn = runs[r].turn /\ runs'[r].acked = runs[r].acked
             /\ runs'[r].told = runs[r].told /\ runs'[r].op = "none" /\ runs'[r].report = "none"
             /\ runs'[r].want = "none" /\ runs'[r].cancelled = FALSE /\ runs'[r].input = <<>>
             /\ runs'[r].pc = (IF runs[r].pc = "unused" THEN "unused" ELSE "dead")
  <2> DEFINE p == IF runs[r].pc = "unused" THEN "unused" ELSE "dead"
             t == runs[r].turn
             a == runs[r].acked
             w == runs[r].told
             new == [Unused EXCEPT !.turn = t, !.acked = a, !.told = w, !.pc = p]
  <2>1. /\ p \in {"unused", "dead"} /\ t \in TurnIds \union {0} /\ a \in 0..LastStage
        /\ w \in {"none", "completed", "failed", "error"}
    BY RunTypes
  <2>2. runs'[r] = new
    BY <1>1
  <2> HIDE DEF p, t, a, w
  <2>3. /\ new \in RunRecords /\ new.turn = t /\ new.acked = a /\ new.told = w /\ new.op = "none" /\ new.report = "none"
        /\ new.want = "none" /\ new.cancelled = FALSE /\ new.input = <<>> /\ new.pc = p
    <3>1. /\ Unused \in RunRecords /\ Unused.op = "none" /\ Unused.want = "none"
          /\ Unused.report = "none" /\ Unused.cancelled = FALSE /\ Unused.input = <<>>
      BY UnusedIs
    <3> HIDE DEF Unused
    <3> QED BY <2>1, <3>1 DEF RunRecords
  <2> QED BY <2>2, <2>3 DEF p, t, a, w
<1>4. \A r \in RunIds : runs'[r].pc = "unused" => runs'[r] = Unused
  <2>1. ASSUME NEW r \in RunIds, runs'[r].pc = "unused" PROVE runs'[r] = Unused
    <3>1. runs[r].pc = "unused" /\ runs[r] = Unused
      BY <1>2a, <1>3, <2>1 DEF Owned
    <3>2. runs'[r] = [Unused EXCEPT !.turn = runs[r].turn, !.acked = runs[r].acked, !.told = runs[r].told, !.pc = "unused"]
      BY <1>1, <3>1
    <3> QED BY <3>1, <3>2 DEF Unused
  <2> QED BY <2>1
<1>5. runs' \in [RunIds -> RunRecords]
  <2>1. DOMAIN runs' = RunIds /\ runs' = [r \in RunIds |-> runs'[r]]
    BY <1>1
  <2> QED BY <1>3, <2>1
<1>6. Types'
  <2>1. 0 \in 0..MaxRuns /\ Idle \in Admissions
    BY RunsAssumption DEF Idle, Admissions
  <2>2. crashes' \in Nat
    <3>1. crashes' = crashes + 1 /\ crashes \in Nat
      BY <1>1 DEF SessionInv, Types
    <3> QED BY <3>1
  <2> QED BY <1>1, <1>2, <1>5, <2>1, <2>2 DEF SessionInv, Types
<1>7. LastTurn' = LastTurn /\ TurnSet' = TurnSet
  BY <1>2a DEF LastTurn, TurnSet
<1>8. Owned'
  <2> HIDE DEF LastTurn, TurnSet
  <2>1. adm'.pc = "idle" /\ gate' = 0 /\ adm' = Idle
    BY <1>1 DEF Idle
  <2>2. \A r \in RunIds : runs'[r].pc \in {"unused", "dead"} /\ (runs'[r].pc = "unused" <=> runs[r].pc = "unused")
                          /\ runs'[r].turn = runs[r].turn
    BY <1>3
  <2>3. \A r, q \in RunIds : runs'[r].pc # "unused" /\ runs'[q].pc # "unused" /\ runs'[r].turn = runs'[q].turn => r = q
    BY <1>2a, <2>2 DEF Owned
  <2>4. \A r \in RunIds : runs'[r].pc # "unused" => runs'[r].turn \in TurnIds /\ (present' => runs'[r].turn \in TurnSet')
    BY <1>2, <1>2a, <1>7, <2>2 DEF Owned
  <2>5. ~created' => \A r \in RunIds : runs'[r].pc = "unused"
    BY <1>2, <1>2a, <2>2 DEF Owned
  <2> QED BY <1>4, <2>1, <2>2, <2>3, <2>4, <2>5 DEF Owned
<1>9. \A r \in RunIds : (Current(r)' <=> Current(r)) /\ (Done(r)' <=> Done(r))
  BY <1>2, <1>3, ReadSame
<1>10. Tasks'
  <2>1. ASSUME NEW r \in RunIds PROVE TaskOk(r)'
    <3>1. TaskOk(r) /\ r # 0 /\ runs'[r].pc \in {"unused", "dead"}
      <4>1. r # 0
        BY RunsAssumption DEF RunIds
      <4> QED BY <1>2a, <1>3, <4>1 DEF Tasks
    <3>2. gate' = 0
      BY <1>1
    <3> HIDE DEF Current, Done, Running
    <3> QED BY <1>2a, <1>3, <1>9, <3>1, <3>2 DEF TaskOk
  <2> QED BY <2>1 DEF Tasks
<1>11. Stored'
  <2>1. ASSUME NEW r \in RunIds PROVE Current(r)' => StoredOk(r)'
    <3>1. Current(r) => StoredOk(r)
      BY <1>2a DEF Stored
    <3>2. runs'[r].pc \in {"unused", "dead"}
      BY <1>3
    <3> QED BY <1>2, <1>3, <3>1, <3>2, StoredKept
  <2>2. present' /\ doc'.cp.run # 0 => runs'[doc'.cp.run].pc # "unused" /\ runs'[doc'.cp.run].turn = LastTurn'.id
    <3>1. doc.cp.run # 0 => doc.cp.run \in RunIds
      BY OwnCheckpoint
    <3> HIDE DEF LastTurn
    <3> QED BY <1>2, <1>2a, <1>3, <1>7, <3>1 DEF Stored
  <2> QED BY <2>1, <2>2 DEF Stored
<1>12. Denied'
  <2>1. ASSUME NEW q \in RunIds, Outcome(q, "skipped") \in Range(doc'.archive)
        PROVE  runs'[q].pc # "unused" /\ runs'[q].acked <= 2 /\ ~Current(q)'
    <3>1. runs[q].pc # "unused" /\ runs[q].acked <= 2 /\ ~Current(q)
      BY <1>2a, <2>1 DEF Denied
    <3> HIDE DEF Current
    <3> QED BY <3>1, <1>3, <1>9
  <2> QED BY <2>1 DEF Denied
<1> QED BY <1>2, <1>6, <1>8, <1>10, <1>11, <1>12 DEF SessionInv

-----------------------------------------------------------------------------
(* Steps that change the status or the run of a turn                       *)

\* The last turn gets a status, and an end.
WithStatus(d, s) == [d EXCEPT !.turns[Len(d.turns)].status = s, !.status = s]
WithEnd(d, s, n) == [d EXCEPT !.turns[Len(d.turns)].status = s, !.turns[Len(d.turns)].end = n, !.status = s]

\* The last turn ends.
LEMMA LastEnds ==
    ASSUME NEW d \in Docs, d.turns # <<>>, NEW s \in Statuses, NEW n \in Nat, n = Last(d.turns).end,
           NEW e, e = WithEnd(d, s, n) \/ e = WithStatus(d, s)
    PROVE  /\ e \in Docs /\ Len(e.turns) = Len(d.turns) /\ DOMAIN e.turns = DOMAIN d.turns
           /\ \A i \in DOMAIN d.turns :
                /\ e.turns[i].id = d.turns[i].id /\ e.turns[i].start = d.turns[i].start
                /\ e.turns[i].end = d.turns[i].end /\ e.turns[i].run = d.turns[i].run
                /\ e.turns[i].status = (IF i = Len(d.turns) THEN s ELSE d.turns[i].status)
           /\ e.cp = d.cp /\ e.base = d.base /\ e.archive = d.archive /\ e.origin = d.origin /\ e.rev = d.rev
           /\ e.status = s
<1> DEFINE k == Len(d.turns)
           o == d.turns[k]
           t == [o EXCEPT !.status = s, !.end = n]
           u == [o EXCEPT !.status = s]
<1>1. k \in DOMAIN d.turns /\ o \in Turns /\ n = o.end
  BY DocTypes
<1>2. t \in Turns /\ t = u /\ t.id = o.id /\ t.run = o.run /\ t.start = o.start /\ t.end = o.end /\ t.status = s
  <2> HIDE DEF o
  <2> QED BY <1>1 DEF Turns
<1>3. e = [d EXCEPT !.turns = [d.turns EXCEPT ![k] = t], !.status = s]
  <2>1. CASE e = WithEnd(d, s, n)
    <3>1. d.turns \in Seq(Turns) /\ u \in Turns
      BY <1>1, <1>2 DEF Docs
    <3>2. e = [d EXCEPT !.turns = [d.turns EXCEPT ![k] = [u EXCEPT !.end = n]], !.status = s]
      BY <1>1, <2>1, <3>1 DEF WithEnd
    <3>3. [u EXCEPT !.end = n] = t
      BY <1>1, <1>2
    <3> QED BY <3>2, <3>3
  <2>2. CASE e = WithStatus(d, s)
    <3>1. e = [d EXCEPT !.turns = [d.turns EXCEPT ![k] = u], !.status = s]
      BY <2>2 DEF WithStatus
    <3> HIDE DEF t, u
    <3> QED BY <3>1, <1>2
  <2> QED BY <2>1, <2>2
<1> HIDE DEF t, u
<1>4. /\ e \in Docs /\ Len(e.turns) = Len(d.turns) /\ DOMAIN e.turns = DOMAIN d.turns
      /\ e.turns[k] = t /\ \A i \in DOMAIN d.turns : i # k => e.turns[i] = d.turns[i]
      /\ e.cp = d.cp /\ e.base = d.base /\ e.archive = d.archive /\ e.origin = d.origin /\ e.rev = d.rev
      /\ e.status = s
  <2> DEFINE ts == d.turns
             us == [ts EXCEPT ![k] = t]
             c == s
  <2>1. ts \in Seq(Turns) /\ k \in 1..Len(ts) /\ DOMAIN ts = 1..Len(ts) /\ t \in Turns /\ c \in Statuses
    BY <1>1, <1>2, DocTypes
  <2>2. e = [d EXCEPT !.turns = us, !.status = c]
    BY <1>3
  <2> HIDE DEF ts, k, o
  <2>3. /\ us \in Seq(Turns) /\ Len(us) = Len(ts) /\ DOMAIN us = DOMAIN ts /\ us[k] = t
        /\ \A i \in DOMAIN ts : i # k => us[i] = ts[i]
    BY <2>1
  <2> HIDE DEF us, c
  <2>4. /\ e \in Docs /\ e.turns = us /\ e.cp = d.cp /\ e.base = d.base /\ e.archive = d.archive /\ e.origin = d.origin
        /\ e.rev = d.rev /\ e.status = c
    BY <2>1, <2>2, <2>3 DEF Docs
  <2> QED BY <2>1, <2>3, <2>4 DEF ts, c
<1>5. \A i \in DOMAIN d.turns :
        /\ e.turns[i].id = d.turns[i].id /\ e.turns[i].start = d.turns[i].start
        /\ e.turns[i].end = d.turns[i].end /\ e.turns[i].run = d.turns[i].run
        /\ e.turns[i].status = (IF i = k THEN s ELSE d.turns[i].status)
  BY <1>2, <1>4
<1> QED BY <1>4, <1>5

\* A turn is bound to its run.
LEMMA TurnBound ==
    ASSUME NEW d \in Docs, NEW k \in DOMAIN d.turns, NEW r \in 0..MaxRuns, d.status \in Statuses,
           NEW e, e = [d EXCEPT !.turns[k].run = r]
    PROVE  /\ e \in Docs /\ Len(e.turns) = Len(d.turns) /\ DOMAIN e.turns = DOMAIN d.turns
           /\ \A i \in DOMAIN d.turns :
                /\ e.turns[i].id = d.turns[i].id /\ e.turns[i].start = d.turns[i].start
                /\ e.turns[i].end = d.turns[i].end /\ e.turns[i].status = d.turns[i].status
                /\ e.turns[i].run = (IF i = k THEN r ELSE d.turns[i].run)
           /\ e.cp = d.cp /\ e.base = d.base /\ e.archive = d.archive /\ e.origin = d.origin /\ e.rev = d.rev
           /\ e.status = d.status
<1> DEFINE o == d.turns[k]
           t == [o EXCEPT !.run = r]
<1>1. o \in Turns
  BY DocTypes
<1>2. t \in Turns /\ t.id = o.id /\ t.run = r /\ t.start = o.start /\ t.end = o.end /\ t.status = o.status
  <2> HIDE DEF o
  <2> QED BY <1>1 DEF Turns
<1>3. e = [d EXCEPT !.turns = [d.turns EXCEPT ![k] = t]]
  OBVIOUS
<1> HIDE DEF t
<1>3a. e = [d EXCEPT !.turns = [d.turns EXCEPT ![k] = t], !.status = d.status]
  BY <1>3 DEF Docs
<1>4. /\ e \in Docs /\ Len(e.turns) = Len(d.turns) /\ DOMAIN e.turns = DOMAIN d.turns
      /\ e.turns[k] = t /\ \A i \in DOMAIN d.turns : i # k => e.turns[i] = d.turns[i]
      /\ e.cp = d.cp /\ e.base = d.base /\ e.archive = d.archive /\ e.origin = d.origin /\ e.rev = d.rev
      /\ e.status = d.status
  <2> DEFINE ts == d.turns
             us == [ts EXCEPT ![k] = t]
             c == d.status
  <2>1. ts \in Seq(Turns) /\ k \in 1..Len(ts) /\ DOMAIN ts = 1..Len(ts) /\ t \in Turns /\ c \in Statuses
    BY <1>1, <1>2, DocTypes
  <2>2. e = [d EXCEPT !.turns = us, !.status = c]
    BY <1>3a
  <2> HIDE DEF ts, o
  <2>3. /\ us \in Seq(Turns) /\ Len(us) = Len(ts) /\ DOMAIN us = DOMAIN ts /\ us[k] = t
        /\ \A i \in DOMAIN ts : i # k => us[i] = ts[i]
    BY <2>1
  <2> HIDE DEF us, c
  <2>4. /\ e \in Docs /\ e.turns = us /\ e.cp = d.cp /\ e.base = d.base /\ e.archive = d.archive /\ e.origin = d.origin
        /\ e.rev = d.rev /\ e.status = c
    BY <2>1, <2>2, <2>3 DEF Docs
  <2> QED BY <2>1, <2>3, <2>4 DEF ts, c
<1>5. \A i \in DOMAIN d.turns :
        /\ e.turns[i].id = d.turns[i].id /\ e.turns[i].start = d.turns[i].start
        /\ e.turns[i].end = d.turns[i].end /\ e.turns[i].status = d.turns[i].status
        /\ e.turns[i].run = (IF i = k THEN r ELSE d.turns[i].run)
  BY <1>2, <1>4
<1> QED BY <1>4, <1>5

\* A file in which turns have another status or run, and all that was said stays, is saved.
LEMMA TurnSaved ==
    ASSUME SessionInv, NEW new \in Docs, new.rev = doc.rev, new.cp = doc.cp, new.archive = doc.archive,
           new.base = doc.base, new.origin = doc.origin, Len(new.turns) = Len(doc.turns),
           \A i \in DOMAIN doc.turns :
                /\ new.turns[i].id = doc.turns[i].id /\ new.turns[i].start = doc.turns[i].start
                /\ new.turns[i].end = doc.turns[i].end
                /\ new.turns[i].status = "running" => doc.turns[i].status = "running"
                /\ doc.turns[i].status \in Ended => new.turns[i].status = doc.turns[i].status,
           new.status = (IF doc.turns = <<>> THEN "idle" ELSE Last(new.turns).status),
           doc.turns # <<>> /\ Last(new.turns).run # Last(doc.turns).run => doc.cp.run = 0,
           doc.cp.run # 0 /\ doc.cp.final # "none" => new.status = doc.status,
           NEW o, Save(new, o), present, present', sentOn' = sentOn
    PROVE  /\ doc' \in Docs /\ log' \in Seq(Nat) /\ faults' \in Nat /\ faults' >= faults
           /\ FileInv' /\ Logged' /\ Fixed(doc, doc')
           /\ o = "lost" => Kept(doc, doc')
           /\ o # "lost" => Kept(new, doc')
           /\ doc'.cp = doc.cp /\ doc'.base = doc.base /\ doc'.archive = doc.archive /\ TurnSet' = TurnSet
           /\ \A i \in DOMAIN doc.turns : i \in DOMAIN doc'.turns /\ doc'.turns[i].id = doc.turns[i].id
           /\ doc.turns # <<>> => LastTurn'.id = LastTurn.id
           /\ \A r \in RunIds : runs'[r].turn = runs[r].turn => (Current(r)' <=> Current(r)) /\ (Done(r) => Done(r)')
<1>0. doc \in Docs /\ TurnsFit(doc) /\ Shape(doc) /\ Checked(doc)
  BY LogLength DEF SessionInv, FileInv
<1>1. /\ TurnsFit(new) /\ Shape(new) /\ Checked(new)
      /\ History(new) = History(doc)
  BY <1>0, TurnChanged
<1>2. /\ doc' \in Docs /\ log' \in Seq(Nat) /\ faults' \in Nat /\ faults' >= faults
      /\ o = "lost" => doc' = doc
      /\ o # "lost" => Kept(new, doc')
  BY SaveFacts
<1>3. Logged'
  BY LoggedSaved
<1>4. DOMAIN new.turns = DOMAIN doc.turns /\ DOMAIN doc.turns = 1..Len(doc.turns)
  BY <1>0, DocTypes
<1>4a. Fixed(doc, new)
  <2> HIDE DEF History
  <2> QED BY <1>1, <1>4 DEF Fixed, Settled
<1> HIDE DEF History
<1>5. o = "lost" => Kept(doc, doc')
  BY <1>2 DEF Kept
<1>6. FileInv' /\ Fixed(doc, doc') /\ History(doc') = History(doc)
      /\ doc'.cp = doc.cp /\ doc'.base = doc.base /\ doc'.archive = doc.archive
      /\ Len(doc'.turns) = Len(doc.turns) /\ DOMAIN doc'.turns = DOMAIN doc.turns
      /\ \A i \in DOMAIN doc.turns : /\ doc'.turns[i].id = doc.turns[i].id
                                     /\ doc.turns[i].status \in Ended => doc'.turns[i].status = doc.turns[i].status
  <2>1. CASE o = "lost"
    <3>1. Fixed(doc, doc') /\ FileInv'
      BY <1>0, <1>5, <2>1, KeptShape DEF FileInv
    <3>2. doc' = doc
      BY <1>2, <2>1
    <3> QED BY <3>1, <3>2
  <2>2. CASE o # "lost"
    <3>1. Kept(new, doc')
      BY <1>2, <2>2
    <3>2. Fixed(new, doc') /\ FileInv' /\ History(doc') = History(new)
      BY <1>1, <3>1, KeptShape DEF FileInv
    <3>3. doc'.turns = new.turns
      BY <3>1 DEF Kept
    <3>4. Fixed(doc, doc')
      BY <1>1, <1>4, <3>2, <3>3 DEF Fixed, Settled
    <3> QED BY <1>1, <1>4, <3>1, <3>2, <3>3, <3>4 DEF Kept
  <2> QED BY <2>1, <2>2
<1>7. TurnSet' = TurnSet
  BY <1>6 DEF TurnSet
<1>8. doc.turns # <<>> => LastTurn'.id = LastTurn.id
  BY <1>0, <1>6, DocTypes DEF LastTurn
<1>9. doc'.turns = <<>> <=> doc.turns = <<>>
  <2>1. ASSUME NEW s \in Seq(Turns) PROVE s = <<>> <=> Len(s) = 0
    OBVIOUS
  <2>2. doc.turns \in Seq(Turns) /\ doc'.turns \in Seq(Turns)
    BY <1>0, <1>2, DocTypes
  <2> QED BY <2>1, <2>2, <1>6
<1>10. ASSUME NEW r \in RunIds, runs'[r].turn = runs[r].turn
       PROVE  (Current(r)' <=> Current(r)) /\ (Done(r) => Done(r)')
  <2>1. Current(r)' <=> Current(r)
    <3> HIDE DEF LastTurn
    <3> QED BY <1>8, <1>9, <1>10 DEF Current
  <2>2. Done(r) => Done(r)'
    BY <1>6, <1>10 DEF Done, Ended
  <2> QED BY <2>1, <2>2
<1>11. \A i \in DOMAIN doc.turns : i \in DOMAIN doc'.turns /\ doc'.turns[i].id = doc.turns[i].id
  BY <1>6
<1> QED BY <1>2, <1>3, <1>5, <1>6, <1>7, <1>8, <1>10, <1>11

\* An admission that is over leaves the runs to themselves.
LEMMA OwnedIdle ==
    ASSUME SessionInv, runs' = runs, up', adm' = Idle, created' \/ created' = created,
           present' => \A q \in RunIds : runs[q].pc # "unused" => runs[q].turn \in TurnSet'
    PROVE  Owned'
<1>1. Owned /\ adm'.pc = "idle"
  BY DEF SessionInv, Idle
<1> HIDE DEF TurnSet
<1> QED BY <1>1 DEF Owned

\* A file of which no run is current replaces one that no run works on.
LEMMA NewFile ==
    ASSUME SessionInv, \A q \in RunIds : Current(q) => doc.status # "running", UNCHANGED <<gate, runs>>,
           faults' \in Nat, faults' >= faults,
           \A q \in RunIds : ~Current(q)' /\ (Done(q) => Done(q)'),
           present' => doc'.cp.run = 0
    PROVE  Tasks' /\ Stored'
<1>1. ASSUME NEW q \in RunIds PROVE TaskOk(q)'
  <2>1. TaskOk(q) /\ faults \in Nat
    BY LogLength DEF SessionInv, Tasks
  <2>2. ~Running(q)
    BY DEF Running
  <2>3. ~Current(q) \/ doc.status # "running"
    OBVIOUS
  <2> HIDE DEF Current, Done, Running
  <2> QED BY <2>1, <2>2, <2>3 DEF TaskOk
<1>2. Tasks'
  BY <1>1 DEF Tasks
<1>3. Stored'
  <2> HIDE DEF Current
  <2> QED BY DEF Stored
<1> QED BY <1>2, <1>3

\* The running turn's end is saved.
LEMMA EndSaved ==
    ASSUME SessionInv, doc.turns # <<>>, LastTurn.status = "running", NEW s \in Ended,
           NEW new, new = WithStatus(doc, s) \/ new = WithEnd(doc, s, Len(History(doc))),
           NEW o, Save(new, o), present, present', sentOn' = sentOn
    PROVE  /\ doc' \in Docs /\ log' \in Seq(Nat) /\ faults' \in Nat /\ faults' >= faults
           /\ FileInv' /\ Logged' /\ Fixed(doc, doc')
           /\ o = "lost" => Kept(doc, doc')
           /\ doc'.cp = doc.cp /\ doc'.base = doc.base /\ doc'.archive = doc.archive /\ TurnSet' = TurnSet
           /\ LastTurn'.id = LastTurn.id /\ LastTurn'.run = LastTurn.run
           /\ \A r \in RunIds : runs'[r].turn = runs[r].turn => (Current(r)' <=> Current(r)) /\ (Done(r) => Done(r)')
<1>1. /\ doc \in Docs /\ Last(doc.turns) \in Turns /\ LastTurn = Last(doc.turns) /\ DOMAIN doc.turns = 1..Len(doc.turns)
      /\ Last(doc.turns).end \in Nat /\ Len(doc.turns) \in DOMAIN doc.turns
      /\ TurnsFit(doc) /\ Shape(doc) /\ Checked(doc)
  BY LogLength, DocTypes DEF LastTurn, Turns, SessionInv, FileInv
<1>2. doc.status = "running"
  BY <1>1 DEF Shape
<1>3. doc.cp.run # 0 => doc.cp.final = "none"
  <2>1. doc.cp \in Checkpoints
    BY <1>1, DocTypes
  <2>2. doc.cp.final \in {"none", "completed", "failed"}
    BY <2>1 DEF Checkpoints
  <2> QED BY <1>1, <1>2, <2>2 DEF Checked
<1>4. Len(History(doc)) = Last(doc.turns).end
  BY <1>1, ShapeLoads DEF Loads
<1>5. s \in Statuses /\ s # "running"
  BY DEF Statuses, Ended
<1> HIDE DEF History
<1>6. /\ new \in Docs /\ Len(new.turns) = Len(doc.turns) /\ DOMAIN new.turns = DOMAIN doc.turns
      /\ \A i \in DOMAIN doc.turns :
           /\ new.turns[i].id = doc.turns[i].id /\ new.turns[i].start = doc.turns[i].start
           /\ new.turns[i].end = doc.turns[i].end /\ new.turns[i].run = doc.turns[i].run
           /\ new.turns[i].status = (IF i = Len(doc.turns) THEN s ELSE doc.turns[i].status)
      /\ new.cp = doc.cp /\ new.base = doc.base /\ new.archive = doc.archive /\ new.origin = doc.origin
      /\ new.rev = doc.rev /\ new.status = s
  BY <1>1, <1>4, <1>5, LastEnds
<1>7. Last(new.turns) = new.turns[Len(doc.turns)]
  BY <1>6 DEF Last
<1>8. \A i \in DOMAIN doc.turns :
           /\ new.turns[i].status = "running" => doc.turns[i].status = "running"
           /\ doc.turns[i].status \in Ended => new.turns[i].status = doc.turns[i].status
  BY <1>1, <1>5, <1>6 DEF Ended, LastTurn
<1>9. new.status = (IF doc.turns = <<>> THEN "idle" ELSE Last(new.turns).status)
  BY <1>1, <1>6, <1>7
<1>10. Last(new.turns).run = Last(doc.turns).run
  BY <1>1, <1>6, <1>7 DEF LastTurn
<1>11. /\ doc' \in Docs /\ log' \in Seq(Nat) /\ faults' \in Nat /\ faults' >= faults
       /\ FileInv' /\ Logged' /\ Fixed(doc, doc')
       /\ o = "lost" => Kept(doc, doc')
       /\ o # "lost" => Kept(new, doc')
       /\ doc'.cp = doc.cp /\ doc'.base = doc.base /\ doc'.archive = doc.archive /\ TurnSet' = TurnSet
       /\ LastTurn'.id = LastTurn.id
       /\ \A r \in RunIds : runs'[r].turn = runs[r].turn => (Current(r)' <=> Current(r)) /\ (Done(r) => Done(r)')
  BY <1>3, <1>6, <1>8, <1>9, <1>10, TurnSaved
<1>12. LastTurn'.run = LastTurn.run
  <2>1. CASE o = "lost"
    BY <1>11, <2>1 DEF Kept, LastTurn
  <2>2. CASE o # "lost"
    BY <1>1, <1>6, <1>11, <2>2 DEF Kept, LastTurn
  <2> QED BY <2>1, <2>2
<1> QED BY <1>11, <1>12

\* The admitted turn could not be started.
LEMMA FailStartStep ==
    ASSUME SessionInv, NEW o, FailStart(o)
    PROVE  SessionInv' /\ Fixed(doc, doc')
<1> DEFINE new == [doc EXCEPT !.turns[Len(doc.turns)].status = "failed", !.status = "failed"]
<1>1. /\ up /\ gate = 0 /\ adm.pc = "failing" /\ present /\ Save(new, o) /\ adm' = Idle
      /\ UNCHANGED <<up, gate, runs, present, created, sentOn, edits, crashes>>
  BY DEF FailStart, GateFree, CanLoad
<1>1a. LastTurn.status = "running"
  BY DEF FailStart
<1>2. /\ doc.turns # <<>> /\ LastTurn.id = adm.turn /\ doc.status = "running"
      /\ \A r \in RunIds : runs[r].turn # adm.turn
  BY <1>1 DEF SessionInv, Owned
<1>3. \A r \in RunIds : ~Current(r)
  BY <1>2 DEF Current
<1>4. doc.cp.run = 0
  BY <1>3, OwnCheckpoint
<1>9. /\ doc' \in Docs /\ log' \in Seq(Nat) /\ faults' \in Nat /\ faults' >= faults
      /\ FileInv' /\ Logged' /\ Fixed(doc, doc')
      /\ doc'.cp = doc.cp /\ doc'.archive = doc.archive /\ TurnSet' = TurnSet
      /\ \A r \in RunIds : runs'[r].turn = runs[r].turn => (Current(r)' <=> Current(r)) /\ (Done(r) => Done(r)')
  <2>1. new = WithStatus(doc, "failed") /\ "failed" \in Ended
    BY DEF WithStatus, Ended
  <2> HIDE DEF new
  <2> QED BY <1>1, <1>1a, <1>2, <2>1, EndSaved
<1>10. Types'
  <2>1. Idle \in Admissions
    BY RunsAssumption DEF Idle, Admissions
  <2> QED BY <1>1, <1>9, <2>1 DEF SessionInv, Types
<1>11. Owned'
  <2>1. \A q \in RunIds : runs[q].pc # "unused" => runs[q].turn \in TurnSet
    BY <1>1 DEF SessionInv, Owned
  <2> QED BY <1>1, <1>9, <2>1, OwnedIdle
<1>12. Tasks' /\ Stored'
  BY <1>1, <1>3, <1>4, <1>9, NewFile
<1>13. Denied'
  <2> HIDE DEF Current
  <2> QED BY <1>1, <1>3, <1>9 DEF SessionInv, Denied
<1> QED BY <1>9, <1>10, <1>11, <1>12, <1>13 DEF SessionInv

\* The position of a turn.
LEMMA IndexIs ==
    ASSUME SessionInv, NEW t \in TurnSet
    PROVE  /\ IndexOf(t) \in DOMAIN doc.turns /\ doc.turns[IndexOf(t)].id = t
           /\ \A i \in DOMAIN doc.turns : doc.turns[i].id = t => i = IndexOf(t)
<1>1. IndexOf(t) \in DOMAIN doc.turns /\ doc.turns[IndexOf(t)].id = t
  BY DEF IndexOf, TurnSet
<1>2. \A i, j \in DOMAIN doc.turns : doc.turns[i].id = doc.turns[j].id => i = j
  BY DEF SessionInv, FileInv, TurnsFit
<1> QED BY <1>1, <1>2

\* The turn learns which run it has.
LEMMA BindStep ==
    ASSUME SessionInv, NEW o, Bind(o)
    PROVE  SessionInv' /\ Fixed(doc, doc')
<1>1. /\ up /\ gate = 0 /\ adm.pc = "binding" /\ adm' = Idle
      /\ UNCHANGED <<up, gate, runs, present, created, sentOn, edits, crashes>>
  BY DEF Bind, GateFree
<1>2. adm.run \in RunIds /\ runs[adm.run].turn = adm.turn
  BY <1>1 DEF SessionInv, Owned
<1>3. Idle \in Admissions
  BY RunsAssumption DEF Idle, Admissions
<1>4. CASE UNCHANGED <<doc, log, faults>>
  <2>1. UNCHANGED <<file, log, sentOn>>
    BY <1>1, <1>4 DEF file
  <2>2. /\ doc' \in Docs /\ log' \in Seq(Nat) /\ present' = present /\ created' = created
        /\ sentOn' \in [TurnIds -> Nat]
        /\ Kept(doc, doc') /\ FileInv' /\ Logged' /\ Fixed(doc, doc')
    BY <2>1, FileKept
  <2>3. Types'
    BY <1>1, <1>3, <1>4, <2>2 DEF SessionInv, Types
  <2>4. Tasks' /\ Stored' /\ Denied'
    BY <1>1, <1>4, <2>2, LogLength, RunsStay
  <2>5. Owned'
    <3>1. \A q \in RunIds : present' /\ runs[q].pc # "unused" => runs[q].turn \in TurnSet
      BY <1>1 DEF SessionInv, Owned
    <3>2. TurnSet' = TurnSet
      BY <1>4 DEF TurnSet
    <3> QED BY <1>1, <3>1, <3>2, OwnedIdle
  <2> QED BY <2>2, <2>3, <2>4, <2>5 DEF SessionInv
<1>5. CASE /\ CanLoad /\ adm.turn \in TurnSet /\ o \in SaveOutcomes
           /\ doc.turns[IndexOf(adm.turn)].run = 0
           /\ Save([doc EXCEPT !.turns[IndexOf(adm.turn)].run = adm.run], o)
  <2> DEFINE k == IndexOf(adm.turn)
             new == [doc EXCEPT !.turns[k].run = adm.run]
  <2>1. present /\ Save(new, o) /\ doc.turns[k].run = 0
    BY <1>5 DEF CanLoad
  <2>2. k \in DOMAIN doc.turns /\ doc.turns[k].id = adm.turn
    BY <1>5, IndexIs
  <2>3. doc \in Docs /\ DOMAIN doc.turns = 1..Len(doc.turns) /\ doc.turns # <<>> /\ Last(doc.turns) = doc.turns[Len(doc.turns)]
        /\ Len(doc.turns) \in DOMAIN doc.turns /\ LastTurn = Last(doc.turns) /\ Last(doc.turns) \in Turns
    <3>1. doc \in Docs /\ DOMAIN doc.turns = 1..Len(doc.turns)
      BY LogLength, DocTypes
    <3>2. doc.turns # <<>>
      BY <2>2, <3>1
    <3> QED BY <3>1, <3>2, DocTypes DEF LastTurn
  <2>4. doc.status = Last(doc.turns).status /\ doc.status \in Statuses
    BY <2>3 DEF SessionInv, FileInv, Shape, Turns
  <2> HIDE DEF k
  <2>5. /\ new \in Docs /\ Len(new.turns) = Len(doc.turns) /\ DOMAIN new.turns = DOMAIN doc.turns
        /\ \A i \in DOMAIN doc.turns :
             /\ new.turns[i].id = doc.turns[i].id /\ new.turns[i].start = doc.turns[i].start
             /\ new.turns[i].end = doc.turns[i].end /\ new.turns[i].status = doc.turns[i].status
             /\ new.turns[i].run = (IF i = k THEN adm.run ELSE doc.turns[i].run)
        /\ new.cp = doc.cp /\ new.base = doc.base /\ new.archive = doc.archive /\ new.origin = doc.origin
        /\ new.rev = doc.rev /\ new.status = doc.status
    <3>1. adm.run \in 0..MaxRuns
      BY <1>2 DEF RunIds
    <3> QED BY <2>2, <2>3, <2>4, <3>1, TurnBound
  <2> HIDE DEF new
  <2>6. Last(new.turns) = new.turns[Len(doc.turns)]
    BY <2>5 DEF Last
  <2>7. k = Len(doc.turns) => doc.cp.run = 0
    BY <2>1, <2>3 DEF SessionInv, FileInv, Checked
  <2>8. /\ doc' \in Docs /\ log' \in Seq(Nat) /\ faults' \in Nat /\ faults' >= faults
        /\ FileInv' /\ Logged' /\ Fixed(doc, doc')
        /\ o = "lost" => Kept(doc, doc')
        /\ o # "lost" => Kept(new, doc')
        /\ doc'.cp = doc.cp /\ doc'.base = doc.base /\ doc'.archive = doc.archive /\ TurnSet' = TurnSet
        /\ LastTurn'.id = LastTurn.id
        /\ \A r \in RunIds : runs'[r].turn = runs[r].turn => (Current(r)' <=> Current(r)) /\ (Done(r) => Done(r)')
    <3>1. new.status = (IF doc.turns = <<>> THEN "idle" ELSE Last(new.turns).status)
      BY <2>3, <2>4, <2>5, <2>6
    <3>2. Last(new.turns).run # Last(doc.turns).run => doc.cp.run = 0
      BY <2>3, <2>5, <2>6, <2>7
    <3> QED BY <1>1, <2>1, <2>3, <2>5, <3>1, <3>2, TurnSaved
  <2>9. Types'
    BY <1>1, <1>3, <2>8 DEF SessionInv, Types
  <2>10. Owned'
    <3>1. \A q \in RunIds : runs[q].pc # "unused" => runs[q].turn \in TurnSet
      BY <2>1 DEF SessionInv, Owned
    <3> QED BY <1>1, <2>8, <3>1, OwnedIdle
  <2>11. doc'.status = doc.status
    BY <2>5, <2>8 DEF Kept
  <2>12. ASSUME NEW r \in RunIds PROVE TaskOk(r)'
    <3>1. TaskOk(r) /\ faults \in Nat
      BY LogLength DEF SessionInv, Tasks
    <3>2. (Current(r)' <=> Current(r)) /\ (Done(r) => Done(r)')
      BY <1>1, <2>8
    <3>3. Running(r)' <=> Running(r)
      <4> HIDE DEF Current
      <4> QED BY <1>1, <2>8, <2>11, <3>2 DEF Running
    <3> HIDE DEF Current, Done, Running
    <3> QED BY <1>1, <2>8, <2>11, <3>1, <3>2, <3>3 DEF TaskOk
  <2>13. LastTurn'.run = LastTurn.run \/ (LastTurn.id = adm.turn /\ LastTurn'.run = adm.run)
    <3>1. CASE o = "lost"
      BY <2>8, <3>1 DEF Kept, LastTurn
    <3>2. CASE o # "lost"
      <4>1. LastTurn' = new.turns[Len(doc.turns)]
        BY <2>5, <2>8, <3>2 DEF Kept, LastTurn
      <4> QED BY <2>2, <2>3, <2>5, <4>1
    <3> QED BY <3>1, <3>2
  <2>14. Stored'
    <3>1. ASSUME NEW r \in RunIds, Current(r)' PROVE StoredOk(r)'
      <4>1. Current(r) /\ StoredOk(r)
        BY <1>1, <2>8, <3>1 DEF SessionInv, Stored
      <4>2. LastTurn.id = adm.turn => r = adm.run
        <5>1. LastTurn.id = adm.turn => Current(adm.run)
          BY <1>2, <2>1, <2>3 DEF Current
        <5> QED BY <1>2, <4>1, <5>1, OneCurrent
      <4>3. LastTurn'.run \in {0, r}
        BY <2>13, <4>1, <4>2 DEF StoredOk
      <4> HIDE DEF LastTurn, Current
      <4> QED BY <1>1, <2>8, <4>1, <4>3 DEF StoredOk
    <3> HIDE DEF Current, LastTurn
    <3> QED BY <1>1, <2>1, <2>8, <3>1 DEF Stored, SessionInv
  <2>15. Denied'
    <3>1. \A r \in RunIds : Current(r)' <=> Current(r)
      BY <1>1, <2>8
    <3> HIDE DEF Current
    <3> QED BY <1>1, <2>8, <3>1 DEF SessionInv, Denied
  <2> QED BY <2>8, <2>9, <2>10, <2>12, <2>14, <2>15 DEF SessionInv, Tasks
<1> QED BY <1>4, <1>5 DEF Bind

\* The finalizer ends its turn, and tells the waiters.
LEMMA SettleStep ==
    ASSUME SessionInv, NEW r \in RunIds, NEW o, Settle(r, o)
    PROVE  SessionInv' /\ Fixed(doc, doc')
<1>1. /\ up /\ gate = 0 /\ runs[r].pc = "settling"
      /\ UNCHANGED <<up, gate, adm, present, created, sentOn, edits, crashes>>
  BY DEF Settle, GateFree
<1>2. TaskOk(r) /\ runs[r] \in RunRecords /\ r # 0
  BY RunTypes, RunsAssumption DEF SessionInv, Tasks, RunIds
<1>3. runs[r].op # "writing" /\ runs[r].report \in {"completed", "failed"}
  BY <1>1, <1>2 DEF TaskOk, RunRecords
<1>4. ASSUME NEW what \in {"none", "completed", "failed", "error"}, runs' = Told(r, what)
      PROVE  /\ runs' \in [RunIds -> RunRecords] /\ \A q \in RunIds : q # r => runs'[q] = runs[q]
             /\ runs'[r].turn = runs[r].turn /\ runs'[r].pc = "over" /\ runs'[r].input = runs[r].input
             /\ runs'[r].acked = runs[r].acked /\ runs'[r].op = runs[r].op /\ runs'[r].cancelled = runs[r].cancelled
             /\ runs'[r].want = runs[r].want /\ runs'[r].report = "none" /\ runs'[r].told = what
  <2> DEFINE new == [runs[r] EXCEPT !.pc = "over", !.report = "none", !.told = what]
  <2>1. runs' = [runs EXCEPT ![r] = new]
    BY <1>4 DEF Told
  <2>2. /\ new \in RunRecords /\ new.turn = runs[r].turn /\ new.pc = "over" /\ new.input = runs[r].input
        /\ new.acked = runs[r].acked /\ new.op = runs[r].op /\ new.cancelled = runs[r].cancelled
        /\ new.want = runs[r].want /\ new.report = "none" /\ new.told = what
    BY <1>2 DEF RunRecords
  <2> HIDE DEF new
  <2>3. runs' \in [RunIds -> RunRecords] /\ runs'[r] = new /\ \A q \in RunIds : q # r => runs'[q] = runs[q]
    BY <2>1, <2>2, RunSet
  <2> QED BY <2>2, <2>3
<1>5. CASE /\ StillRunning(r) /\ LastTurn.id = runs[r].turn /\ runs[r].report # "completed"
           /\ o \in SaveOutcomes /\ Save(Finished(r), o)
           /\ runs' = Told(r, IF o = "ok" THEN runs[r].report ELSE "error")
  <2> DEFINE what == IF o = "ok" THEN runs[r].report ELSE "error"
  <2>1. runs[r].report = "failed" /\ what \in {"failed", "error"}
    BY <1>3, <1>5
  <2>2. /\ present /\ Save(Finished(r), o) /\ runs' = Told(r, what) /\ runs[r].turn \in TurnSet
        /\ doc.turns[IndexOf(runs[r].turn)].status = "running" /\ LastTurn.id = runs[r].turn
    BY <1>5 DEF StillRunning, CanLoad
  <2> HIDE DEF what
  <2>3. /\ runs' \in [RunIds -> RunRecords] /\ \A q \in RunIds : q # r => runs'[q] = runs[q]
        /\ runs'[r].turn = runs[r].turn /\ runs'[r].pc = "over" /\ runs'[r].input = runs[r].input
        /\ runs'[r].acked = runs[r].acked /\ runs'[r].op = runs[r].op /\ runs'[r].cancelled = runs[r].cancelled
        /\ runs'[r].want = runs[r].want /\ runs'[r].report = "none" /\ runs'[r].told = what
    BY <1>4, <2>1, <2>2
  <2>4. doc.turns # <<>> /\ LastTurn.status = "running" /\ doc.status = "running" /\ Current(r)
    <3>1. doc.turns # <<>> /\ IndexOf(runs[r].turn) = Len(doc.turns)
      <4>1. doc \in Docs /\ DOMAIN doc.turns = 1..Len(doc.turns)
        BY LogLength, DocTypes
      <4>2. IndexOf(runs[r].turn) \in DOMAIN doc.turns
        BY <2>2, IndexIs
      <4>3. doc.turns # <<>>
        BY <4>1, <4>2
      <4>4. Len(doc.turns) \in DOMAIN doc.turns /\ doc.turns[Len(doc.turns)].id = runs[r].turn
        BY <2>2, <4>1, <4>3, DocTypes DEF LastTurn
      <4> QED BY <2>2, <4>3, <4>4, IndexIs
    <3>2. LastTurn.status = "running"
      BY <2>2, <3>1 DEF LastTurn
    <3>3. doc.status = "running"
      BY <3>1, <3>2, LogLength, DocTypes DEF SessionInv, FileInv, Shape, LastTurn
    <3> QED BY <2>2, <3>1, <3>2, <3>3 DEF Current
  <2>5. /\ doc' \in Docs /\ log' \in Seq(Nat) /\ faults' \in Nat /\ faults' >= faults
        /\ FileInv' /\ Logged' /\ Fixed(doc, doc')
        /\ doc'.cp = doc.cp /\ doc'.base = doc.base /\ doc'.archive = doc.archive /\ TurnSet' = TurnSet
        /\ LastTurn'.id = LastTurn.id /\ LastTurn'.run = LastTurn.run
        /\ \A q \in RunIds : runs'[q].turn = runs[q].turn => (Current(q)' <=> Current(q)) /\ (Done(q) => Done(q)')
    <3>1. Finished(r) = WithEnd(doc, "failed", Len(History(doc))) /\ "failed" \in Ended
      BY <2>1 DEF Finished, WithEnd, Ended
    <3> HIDE DEF Finished
    <3> QED BY <1>1, <2>2, <2>4, <3>1, EndSaved
  <2>6. Types'
    BY <1>1, <2>3, <2>5 DEF SessionInv, Types
  <2>7. \A q \in RunIds : /\ runs'[q].turn = runs[q].turn /\ (runs'[q].pc = "unused" <=> runs[q].pc = "unused")
                          /\ runs'[q].acked = runs[q].acked /\ runs'[q].input = runs[q].input
                          /\ (Current(q)' <=> Current(q)) /\ (Done(q) => Done(q)')
    <3>1. ASSUME NEW q \in RunIds
          PROVE  /\ runs'[q].turn = runs[q].turn /\ (runs'[q].pc = "unused" <=> runs[q].pc = "unused")
                 /\ runs'[q].acked = runs[q].acked /\ runs'[q].input = runs[q].input
      <4>1. CASE q = r
        BY <4>1, <1>1, <2>3
      <4>2. CASE q # r
        BY <4>2, <2>3
      <4> QED BY <4>1, <4>2
    <3> HIDE DEF Current, Done
    <3> QED BY <2>5, <3>1
  <2>8. Owned'
    <3>1. Owned
      BY DEF SessionInv
    <3>2. adm.pc \notin {"starting", "failing"}
      BY <2>2, <3>1 DEF Owned
    <3>3. \A q \in RunIds : runs'[q].pc = "unused" => runs'[q] = Unused
      BY <1>1, <2>3, <2>7, <3>1 DEF Owned
    <3> HIDE DEF TurnSet
    <3>4. \A p, q \in RunIds : runs'[p].pc # "unused" /\ runs'[q].pc # "unused" /\ runs'[p].turn = runs'[q].turn => p = q
      BY <2>7, <3>1 DEF Owned
    <3>5. \A q \in RunIds : runs'[q].pc # "unused" => runs'[q].turn \in TurnIds /\ (present' => runs'[q].turn \in TurnSet')
      BY <1>1, <2>5, <2>7, <3>1 DEF Owned
    <3>6. adm'.pc = "binding" => /\ adm'.run \in RunIds /\ adm'.turn \in TurnIds /\ runs'[adm'.run].turn = adm'.turn
                                 /\ runs'[adm'.run].pc # "unused"
      BY <1>1, <2>7, <3>1 DEF Owned
    <3>7. ~created' => \A q \in RunIds : runs'[q].pc = "unused"
      BY <1>1, <2>7, <3>1 DEF Owned
    <3>8. up' /\ adm'.pc \notin {"starting", "failing"}
      BY <1>1, <3>2
    <3> QED BY <3>3, <3>4, <3>5, <3>6, <3>7, <3>8 DEF Owned
  <2>9. Tasks'
    <3>1. TaskOk(r)'
      <4>1. Done(r) => Done(r)'
        BY <2>7
      <4>2. gate' = 0 /\ what # "completed" /\ runs[r].op # "refused" /\ runs[r].op # "writing"
            /\ (runs[r].op = "error" => faults' > 0) /\ (runs[r].op = "queued" => runs[r].cancelled)
            /\ (runs[r].want = "none" /\ runs[r].op # "none" => runs[r].acked < LastStage)
        <5>1. faults \in Nat
          BY LogLength
        <5> QED BY <1>1, <1>2, <1>3, <2>1, <2>5, <5>1 DEF TaskOk
      <4> HIDE DEF Current, Done, Running
      <4> QED BY <1>2, <2>3, <4>1, <4>2 DEF TaskOk
    <3>2. ASSUME NEW q \in RunIds, q # r PROVE TaskOk(q)'
      <4>1. TaskOk(q) /\ faults \in Nat /\ ~Current(q)
        BY <2>4, <3>2, LogLength, OneCurrent DEF SessionInv, Tasks
      <4>2. ~Running(q)
        BY <4>1 DEF Running
      <4>3. runs'[q] = runs[q] /\ ~Current(q)' /\ (Done(q) => Done(q)')
        BY <2>3, <2>7, <3>2, <4>1
      <4>4. gate' = gate /\ faults' >= faults /\ faults' \in Nat
        BY <1>1, <2>5
      <4> HIDE DEF Current, Done, Running
      <4> QED BY <4>1, <4>2, <4>3, <4>4 DEF TaskOk
    <3> QED BY <3>1, <3>2 DEF Tasks
  <2>10. Stored'
    <3>1. ASSUME NEW q \in RunIds, Current(q)' PROVE StoredOk(q)'
      <4>1. Current(q) /\ StoredOk(q)
        BY <2>7, <3>1 DEF SessionInv, Stored
      <4>2. runs'[q].pc \notin {"unused", "dead"} => runs[q].pc \notin {"unused", "dead"}
        BY <1>1, <2>3
      <4> HIDE DEF LastTurn, Current
      <4> QED BY <2>5, <2>7, <4>1, <4>2 DEF StoredOk
    <3>2. doc.cp.run # 0 => doc.cp.run \in RunIds
      BY OwnCheckpoint
    <3> HIDE DEF Current, LastTurn
    <3> QED BY <1>1, <2>2, <2>5, <2>7, <3>1, <3>2 DEF Stored, SessionInv
  <2>11. Denied'
    <3> HIDE DEF Current
    <3> QED BY <2>5, <2>7 DEF SessionInv, Denied
  <2> QED BY <2>5, <2>6, <2>8, <2>9, <2>10, <2>11 DEF SessionInv
<1>6. CASE /\ (StillRunning(r) => runs[r].report = "completed") /\ o = "ok"
           /\ runs' = Told(r, IF CanLoad /\ ~StillRunning(r) THEN runs[r].report ELSE "error")
           /\ UNCHANGED <<doc, log, faults>>
  <2> DEFINE what == IF CanLoad /\ ~StillRunning(r) THEN runs[r].report ELSE "error"
  <2>1. runs' = Told(r, what) /\ UNCHANGED <<doc, log, faults>> /\ what \in {"completed", "failed", "error"}
        /\ (what = "completed" => runs[r].report = "completed")
    BY <1>3, <1>6
  <2> HIDE DEF what
  <2>2. /\ runs' \in [RunIds -> RunRecords] /\ \A q \in RunIds : q # r => runs'[q] = runs[q]
        /\ runs'[r].turn = runs[r].turn /\ runs'[r].pc = "over" /\ runs'[r].input = runs[r].input
        /\ runs'[r].acked = runs[r].acked /\ runs'[r].op = runs[r].op /\ runs'[r].cancelled = runs[r].cancelled
        /\ runs'[r].want = runs[r].want /\ runs'[r].report = "none" /\ runs'[r].told = what
    BY <1>4, <2>1
  <2>3. UNCHANGED <<file, log, sentOn>>
    BY <1>1, <2>1 DEF file
  <2>4. /\ doc' \in Docs /\ log' \in Seq(Nat) /\ present' = present /\ created' = created
        /\ sentOn' \in [TurnIds -> Nat]
        /\ Kept(doc, doc') /\ FileInv' /\ Logged' /\ Fixed(doc, doc')
    BY <2>3, FileKept
  <2>5. Types'
    BY <1>1, <2>1, <2>2, <2>4 DEF SessionInv, Types
  <2>6. faults' \in Nat /\ faults' >= faults /\ faults' = faults
    BY <2>1, LogLength
  <2>7. TaskOk(r)'
    <3>1. Done(r)' <=> Done(r)
      BY <2>2, <2>4, ReadSame
    <3>2. gate' = gate
      BY <1>1
    <3> HIDE DEF Current, Done, Running
    <3> QED BY <1>1, <1>2, <1>3, <2>1, <2>2, <2>6, <3>1, <3>2 DEF TaskOk
  <2>8. Current(r) => StoredOk(r)'
    <3>1. Current(r) => StoredOk(r)
      BY DEF SessionInv, Stored
    <3>2. doc'.cp = doc.cp /\ LastTurn' = LastTurn /\ doc'.base = doc.base
      BY <2>4 DEF Kept, LastTurn
    <3> HIDE DEF Current, LastTurn
    <3> QED BY <1>1, <2>2, <3>1, <3>2 DEF StoredOk
  <2>9. Owned' /\ Tasks' /\ Stored' /\ Denied'
    BY <1>1, <2>2, <2>4, <2>6, <2>7, <2>8, OneRuns
  <2> QED BY <2>4, <2>5, <2>9 DEF SessionInv
<1> QED BY <1>5, <1>6 DEF Settle

\* The next process opens the store.
LEMMA OpenStep ==
    ASSUME SessionInv, NEW o, Open(o)
    PROVE  SessionInv' /\ Fixed(doc, doc')
<1>1. /\ ~up /\ UNCHANGED <<gate, adm, runs, present, created, sentOn, edits, crashes>>
  BY DEF Open
<1>2. /\ gate = 0 /\ adm = Idle /\ \A r \in RunIds : runs[r].pc \in {"unused", "dead"}
  BY <1>1 DEF SessionInv, Owned
<1>3. CASE o = "ok" /\ up' = TRUE /\ UNCHANGED <<doc, log, faults>>
  <2>1. UNCHANGED <<file, log, sentOn>>
    BY <1>1, <1>3 DEF file
  <2>2. /\ doc' \in Docs /\ log' \in Seq(Nat) /\ present' = present /\ created' = created
        /\ sentOn' \in [TurnIds -> Nat]
        /\ Kept(doc, doc') /\ FileInv' /\ Logged' /\ Fixed(doc, doc')
    BY <2>1, FileKept
  <2>3. Types'
    BY <1>1, <1>3, <2>2 DEF SessionInv, Types
  <2>4. Owned' /\ Tasks' /\ Stored' /\ Denied'
    BY <1>1, <1>3, <2>2, LogLength, RunsKept
  <2> QED BY <2>2, <2>3, <2>4 DEF SessionInv
<1>4. CASE /\ CanLoad /\ doc.status = "running" /\ o \in SaveOutcomes /\ Save(Interrupted, o) /\ up' = (o = "ok")
  <2>1. present /\ Save(Interrupted, o) /\ up' \in BOOLEAN
    BY <1>4 DEF CanLoad
  <2>2. doc.turns # <<>> /\ LastTurn.status = "running"
    <3>1. doc.turns # <<>>
      BY <1>4 DEF SessionInv, FileInv, Shape
    <3> QED BY <1>4, <3>1, LogLength, DocTypes DEF SessionInv, FileInv, Shape, LastTurn
  <2>3. /\ doc' \in Docs /\ log' \in Seq(Nat) /\ faults' \in Nat /\ faults' >= faults
        /\ FileInv' /\ Logged' /\ Fixed(doc, doc')
        /\ doc'.cp = doc.cp /\ doc'.base = doc.base /\ doc'.archive = doc.archive /\ TurnSet' = TurnSet
        /\ LastTurn'.id = LastTurn.id /\ LastTurn'.run = LastTurn.run
        /\ \A q \in RunIds : runs'[q].turn = runs[q].turn => (Current(q)' <=> Current(q)) /\ (Done(q) => Done(q)')
    <3>1. Interrupted = WithEnd(doc, "interrupted", Len(History(doc))) /\ "interrupted" \in Ended
      BY DEF Interrupted, WithEnd, Ended
    <3> HIDE DEF Interrupted
    <3> QED BY <1>1, <2>1, <2>2, <3>1, EndSaved
  <2>4. Types'
    BY <1>1, <2>1, <2>3 DEF SessionInv, Types
  <2>5. Owned'
    <3> HIDE DEF TurnSet
    <3>1. Owned /\ adm.pc = "idle"
      BY <1>2 DEF SessionInv, Idle
    <3> QED BY <1>1, <1>2, <2>3, <3>1 DEF Owned
  <2>6. Tasks'
    <3>1. ASSUME NEW r \in RunIds PROVE TaskOk(r)'
      <4>1. TaskOk(r) /\ r # 0
        BY RunsAssumption DEF SessionInv, Tasks, RunIds
      <4>2. runs' = runs /\ gate' = 0 /\ (Done(r) => Done(r)')
        BY <1>1, <1>2, <2>3
      <4> HIDE DEF Current, Done, Running
      <4> QED BY <1>2, <4>1, <4>2 DEF TaskOk
    <3> QED BY <3>1 DEF Tasks
  <2>7. Stored'
    <3>1. ASSUME NEW q \in RunIds, Current(q)' PROVE StoredOk(q)'
      <4>1. Current(q) /\ StoredOk(q)
        BY <1>1, <2>3, <3>1 DEF SessionInv, Stored
      <4> HIDE DEF LastTurn, Current
      <4> QED BY <1>1, <2>3, <4>1 DEF StoredOk
    <3> HIDE DEF Current, LastTurn
    <3> QED BY <1>1, <2>1, <2>3, <3>1 DEF Stored, SessionInv
  <2>8. Denied'
    <3>1. \A r \in RunIds : Current(r)' <=> Current(r)
      BY <1>1, <2>3
    <3> HIDE DEF Current
    <3> QED BY <1>1, <2>3, <3>1 DEF SessionInv, Denied
  <2> QED BY <2>3, <2>4, <2>5, <2>6, <2>7, <2>8 DEF SessionInv
<1> QED BY <1>3, <1>4 DEF Open

-----------------------------------------------------------------------------
(* Steps of the clients                                                    *)

\* A new file.
LEMMA BlankIs ==
    /\ Blank \in Docs /\ TurnsFit(Blank) /\ Shape(Blank) /\ Checked(Blank) /\ Blank.turns = <<>> /\ Blank.rev = 0
    /\ Blank.cp.run = 0 /\ Blank.archive = <<>>
<1>1. <<>> \in Seq(Turns) /\ <<>> \in Seq(Messages) /\ 0 \in 0..MaxRuns
  BY RunsAssumption
<1>2. NoCheckpoint \in Checkpoints /\ NoBase \in Bases
  BY <1>1 DEF NoCheckpoint, NoBase, Checkpoints, Bases
<1>3. /\ Blank.turns = <<>> /\ Blank.rev = 0 /\ Blank.cp = NoCheckpoint /\ Blank.archive = <<>> /\ Blank.status = "idle"
      /\ Blank.base = NoBase /\ Blank.origin = 0
  BY DEF Blank
<1>4. Blank \in Docs
  BY <1>1, <1>2 DEF Blank, Docs
<1>5. NoCheckpoint.run = 0 /\ NoBase.set = FALSE
  BY DEF NoCheckpoint, NoBase
<1>6. TurnsFit(Blank)
  BY <1>3 DEF TurnsFit
<1>7. Shape(Blank)
  BY <1>3, <1>5 DEF Shape
<1>8. Checked(Blank)
  BY <1>3, <1>5 DEF Checked
<1> QED BY <1>3, <1>4, <1>5, <1>6, <1>7, <1>8

\* The session is created.
LEMMA CreateStep ==
    ASSUME SessionInv, NEW o, Create(o)
    PROVE  SessionInv' /\ Fixed(doc, doc')
<1>1. /\ up /\ gate = 0 /\ ~created /\ Save(Blank, o) /\ present' = (o # "lost") /\ created' = present'
      /\ UNCHANGED <<up, gate, adm, runs, sentOn, edits, crashes>>
  BY DEF Create, GateFree, process
<1>2. ~present /\ doc = Blank /\ log = <<>>
  BY <1>1 DEF SessionInv, Types, Logged
<1>3. \A r \in RunIds : runs[r] = Unused /\ runs[r].pc = "unused"
  BY <1>1 DEF SessionInv, Owned
<1>4. adm.pc = "idle"
  <2>1. adm \in Admissions
    BY DEF SessionInv, Types
  <2>2. adm.pc \in {"idle", "starting", "failing", "binding"}
    BY <2>1 DEF Admissions
  <2> QED BY <1>2, <1>3, <2>2 DEF SessionInv, Owned
<1>5. /\ Blank \in Docs /\ TurnsFit(Blank) /\ Shape(Blank) /\ Checked(Blank) /\ Blank.turns = <<>> /\ Blank.rev = doc.rev
      /\ Blank.cp.run = 0 /\ Blank.archive = <<>>
  BY <1>2, BlankIs
<1> HIDE DEF Blank
<1>6. /\ doc' \in Docs /\ log' \in Seq(Nat) /\ faults' \in Nat /\ faults' >= faults
      /\ o = "lost" => doc' = doc /\ log' = log
      /\ o # "lost" => Kept(Blank, doc') /\ Len(log') = doc'.rev /\ doc'.rev > 0 /\ log'[doc'.rev] = Len(doc'.turns)
  BY <1>1, <1>5, SaveFacts
<1>7. Kept(Blank, doc')
  BY <1>2, <1>6 DEF Kept
<1>8. TurnsFit(doc') /\ Shape(doc') /\ Checked(doc')
  BY <1>5, <1>7, KeptShape
<1>9. doc'.turns = <<>> /\ doc'.archive = <<>> /\ doc'.cp.run = 0
  BY <1>5, <1>7 DEF Kept
<1>10. Fixed(doc, doc')
  BY <1>2, <1>5 DEF Fixed
<1>11. Types'
  BY <1>1, <1>6 DEF SessionInv, Types
<1>12. Logged'
  <2>1. \A i \in DOMAIN doc'.turns : FALSE
    BY <1>9
  <2>2. CASE o = "lost"
    <3>1. ~present' /\ doc' = Blank /\ log' = <<>>
      BY <1>1, <1>2, <1>6, <2>2
    <3> QED BY <2>1, <3>1 DEF Logged
  <2>3. CASE o # "lost"
    <3>1. present' /\ Len(log') = doc'.rev /\ doc'.rev > 0 /\ log'[doc'.rev] = Len(doc'.turns)
      BY <1>1, <1>6, <2>3
    <3> QED BY <2>1, <3>1 DEF Logged
  <2> QED BY <2>2, <2>3
<1>13. Owned'
  <2> HIDE DEF TurnSet, LastTurn, Unused
  <2> QED BY <1>1, <1>3, <1>4 DEF Owned
<1>14. \A r \in RunIds : ~Current(r)'
  BY <1>9 DEF Current
<1>15. Tasks'
  <2>1. ASSUME NEW r \in RunIds PROVE TaskOk(r)'
    <3>1. /\ runs'[r].pc = "unused" /\ runs'[r].op = "none" /\ runs'[r].report = "none" /\ runs'[r].told = "none"
          /\ runs'[r].cancelled = FALSE
      BY <1>1, <1>3, UnusedIs
    <3>2. r # 0 /\ gate' = 0
      BY <1>1, RunsAssumption DEF RunIds
    <3> HIDE DEF Current, Done, Running
    <3> QED BY <3>1, <3>2 DEF TaskOk
  <2> QED BY <2>1 DEF Tasks
<1>16. Stored' /\ Denied'
  <2>1. Range(doc'.archive) = {}
    BY <1>9 DEF Range
  <2> HIDE DEF Current
  <2> QED BY <1>9, <1>14, <2>1 DEF Stored, Denied
<1> QED BY <1>8, <1>10, <1>11, <1>12, <1>13, <1>15, <1>16 DEF SessionInv, FileInv

\* A session nothing has happened to gets a first message.
LEMMA InitializeStep ==
    ASSUME SessionInv, NEW o, InitializeHistory(o)
    PROVE  SessionInv' /\ Fixed(doc, doc')
<1> DEFINE b == [set |-> TRUE, input |-> <<Seed>>, pending |-> TRUE]
           new == [doc EXCEPT !.archive = <<Seed>>, !.origin = 1, !.base = b]
<1>1. /\ up /\ gate = 0 /\ present /\ doc.turns = <<>> /\ ~doc.base.set /\ Save(new, o) /\ edits' = edits + 1
      /\ UNCHANGED <<up, gate, adm, runs, present, created, sentOn, crashes>>
  BY DEF InitializeHistory, GateFree, CanLoad, process
<1>2. <<Seed>> \in Seq(Messages) /\ Len(<<Seed>>) = 1 /\ Range(<<Seed>>) = {Seed}
  BY Kinds, ShortSeqs
<1> HIDE DEF Seed
<1>3. b \in Bases /\ b.set = TRUE /\ b.input = <<Seed>> /\ b.pending = TRUE
  BY <1>2 DEF Bases
<1> HIDE DEF b
<1>4. doc \in Docs
  BY LogLength
<1>5. /\ new \in Docs /\ new.archive = <<Seed>> /\ new.origin = 1 /\ new.base = b /\ new.turns = doc.turns
      /\ new.cp = doc.cp /\ new.status = doc.status /\ new.rev = doc.rev
  BY <1>2, <1>3, <1>4 DEF Docs
<1> HIDE DEF new
<1>6. TurnsFit(new)
  BY <1>1, <1>5 DEF TurnsFit
<1>7. Shape(new)
  BY <1>1, <1>2, <1>3, <1>5 DEF SessionInv, FileInv, Shape
<1>8. Checked(new) /\ new.cp.run = 0 /\ doc.cp.run = 0
  BY <1>1, <1>5 DEF SessionInv, FileInv, Shape, Checked
<1>9. /\ doc' \in Docs /\ log' \in Seq(Nat) /\ faults' \in Nat /\ faults' >= faults
      /\ o = "lost" => doc' = doc
      /\ o # "lost" => Kept(new, doc')
  BY <1>1, <1>5, SaveFacts
<1>10. /\ TurnsFit(doc') /\ Shape(doc') /\ Checked(doc') /\ doc'.turns = <<>> /\ doc'.cp.run = 0
       /\ doc'.archive \in {doc.archive, <<Seed>>} /\ doc'.status = doc.status
  <2>1. CASE o = "lost"
    BY <1>1, <1>8, <1>9, <2>1 DEF SessionInv, FileInv
  <2>2. CASE o # "lost"
    <3>1. Kept(new, doc')
      BY <1>9, <2>2
    <3>2. TurnsFit(doc') /\ Shape(doc') /\ Checked(doc')
      BY <1>6, <1>7, <1>8, <3>1, KeptShape
    <3> QED BY <1>1, <1>5, <1>8, <3>1, <3>2 DEF Kept
  <2> QED BY <2>1, <2>2
<1>11. Logged'
  BY <1>1, <1>5, LoggedSaved
<1>12. Fixed(doc, doc')
  BY <1>1 DEF Fixed
<1>13. Types'
  BY <1>1, <1>9 DEF SessionInv, Types
<1>14. \A r \in RunIds : ~Current(r) /\ ~Current(r)' /\ ~Done(r)
  BY <1>1, <1>10 DEF Current, Done
<1>15. TurnSet = {} /\ TurnSet' = {}
  BY <1>1, <1>10 DEF TurnSet
<1>16. Owned'
  <2>1. Owned /\ adm.pc \notin {"starting", "failing"} /\ \A r \in RunIds : runs[r].pc = "unused"
    BY <1>1, <1>15 DEF SessionInv, Owned
  <2> HIDE DEF TurnSet, LastTurn
  <2> QED BY <1>1, <1>15, <2>1 DEF Owned
<1>17. Tasks' /\ Stored'
  BY <1>1, <1>9, <1>10, <1>14, NewFile
<1>18. Denied'
  <2>1. \A r \in RunIds : Outcome(r, "skipped") # Seed
    BY Skips
  <2>2. Owned /\ \A r \in RunIds : runs[r].pc = "unused"
    BY <1>1, <1>15 DEF SessionInv, Owned
  <2>3. \A r \in RunIds : Outcome(r, "skipped") \notin Range(doc.archive)
    BY <2>2 DEF SessionInv, Denied
  <2> HIDE DEF Outcome
  <2> QED BY <1>2, <1>10, <2>1, <2>3 DEF Denied
<1> QED BY <1>10, <1>11, <1>12, <1>13, <1>16, <1>17, <1>18 DEF SessionInv, FileInv

\* The session is deleted.
LEMMA DeleteStep ==
    ASSUME SessionInv, Delete
    PROVE  SessionInv' /\ ~present'
<1>1. /\ up /\ gate = 0 /\ present /\ doc.status # "running" /\ present' = FALSE /\ doc' = Blank /\ log' = <<>>
      /\ UNCHANGED <<up, gate, adm, runs, created, sentOn, edits, crashes, faults>>
  BY DEF Delete, GateFree, CanLoad, process, bounds
<1>2. /\ Blank \in Docs /\ TurnsFit(Blank) /\ Shape(Blank) /\ Checked(Blank) /\ Blank.turns = <<>>
      /\ Blank.cp.run = 0 /\ Blank.archive = <<>>
  BY BlankIs
<1>3. Logged'
  BY <1>1, <1>2 DEF Logged
<1> HIDE DEF Blank
<1>4. Types'
  <2>1. <<>> \in Seq(Nat)
    OBVIOUS
  <2> QED BY <1>1, <1>2, <2>1 DEF SessionInv, Types
<1>5. FileInv'
  BY <1>1, <1>2 DEF FileInv
<1>6. Owned'
  <2>1. Owned /\ adm.pc \notin {"starting", "failing"}
    BY <1>1 DEF SessionInv, Owned
  <2> HIDE DEF TurnSet, LastTurn
  <2> QED BY <1>1, <2>1 DEF Owned
<1>7. Tasks' /\ Stored'
  <2>1. \A q \in RunIds : ~Current(q)' /\ Done(q)'
    BY <1>1 DEF Current, Done
  <2> QED BY <1>1, <2>1, LogLength, NewFile
<1>8. Denied'
  <2>1. Range(doc'.archive) = {}
    BY <1>1, <1>2 DEF Range
  <2> QED BY <2>1 DEF Denied
<1> QED BY <1>1, <1>3, <1>4, <1>5, <1>6, <1>7, <1>8 DEF SessionInv

\* The file with one turn more.
LEMMA AdmittedIs ==
    ASSUME NEW t \in TurnIds, doc \in Docs, TurnsFit(doc), Shape(doc), Checked(doc), doc.status # "running",
           t \notin TurnSet, NEW w \in Seq(Messages)
    PROVE  LET new == Admitted(t, w)
               n == Len(doc.turns)
           IN  /\ new \in Docs /\ TurnsFit(new) /\ Shape(new) /\ Checked(new)
               /\ new.rev = doc.rev /\ new.cp.run = 0 /\ new.archive = History(doc) /\ new.base.input = w
               /\ new.status = "running" /\ Len(new.turns) = n + 1 /\ new.turns # <<>>
               /\ new.turns[n + 1].id = t /\ new.turns[n + 1].run = 0 /\ new.turns[n + 1].status = "running"
               /\ \A i \in DOMAIN doc.turns : new.turns[i] = doc.turns[i]
               /\ DOMAIN new.turns = 1..(n + 1) /\ DOMAIN doc.turns = 1..n
               /\ History(new) \in Seq(Messages) /\ \E z \in Seq(Messages) : History(new) = History(doc) \o z
<1> DEFINE new == Admitted(t, w)
           n == Len(doc.turns)
           h == History(doc)
           m == Len(h)
           turn == [id |-> t, run |-> 0, status |-> "running", start |-> m, end |-> m + 1]
           us == Append(doc.turns, turn)
           b == [set |-> TRUE, input |-> w, pending |-> TRUE]
<1>1. h \in Seq(Messages) /\ m \in Nat /\ h = doc.archive \o Spoken(doc) /\ m = Len(doc.archive) + Len(Spoken(doc))
      /\ m = (IF doc.turns = <<>> THEN doc.origin ELSE Last(doc.turns).end)
  BY ShapeRooted, HistoryIs, ShapeLoads DEF Loads
<1>2. new = [doc EXCEPT !.archive = h, !.base = b, !.cp = NoCheckpoint, !.status = "running", !.turns = us]
  BY DEF Admitted
<1> HIDE DEF h
<1>3. turn \in Turns /\ turn.id = t /\ turn.run = 0 /\ turn.status = "running" /\ turn.start = m /\ turn.end = m + 1
  BY <1>1, RunsAssumption DEF Turns, Statuses
<1>4. doc.turns \in Seq(Turns) /\ n \in Nat /\ DOMAIN doc.turns = 1..n
  BY DocTypes
<1> HIDE DEF turn, m, new
<1>5. /\ us \in Seq(Turns) /\ Len(us) = n + 1 /\ us[n + 1] = turn /\ DOMAIN us = 1..(n + 1) /\ us # <<>>
      /\ \A i \in 1..n : us[i] = doc.turns[i]
      /\ Last(us) = turn
  <2>1. ASSUME NEW s \in Seq(Turns), NEW e \in Turns
        PROVE  /\ Append(s, e) \in Seq(Turns) /\ Len(Append(s, e)) = Len(s) + 1 /\ Append(s, e)[Len(s) + 1] = e
               /\ DOMAIN Append(s, e) = 1..(Len(s) + 1) /\ Append(s, e) # <<>>
               /\ \A i \in 1..Len(s) : Append(s, e)[i] = s[i]
    OBVIOUS
  <2>2. /\ us \in Seq(Turns) /\ Len(us) = n + 1 /\ us[n + 1] = turn /\ DOMAIN us = 1..(n + 1) /\ us # <<>>
        /\ \A i \in 1..n : us[i] = doc.turns[i]
    BY <1>3, <1>4, <2>1
  <2> HIDE DEF us
  <2> QED BY <2>2 DEF Last
<1>6. b \in Bases /\ b.set = TRUE /\ b.input = w /\ b.pending = TRUE
  BY DEF Bases
<1>7. NoCheckpoint \in Checkpoints /\ NoCheckpoint.run = 0
  <2>1. <<>> \in Seq(Messages) /\ 0 \in 0..MaxRuns
    BY RunsAssumption
  <2> QED BY <2>1 DEF NoCheckpoint, Checkpoints
<1> HIDE DEF us, b, n
<1>8. /\ new \in Docs /\ new.archive = h /\ new.base = b /\ new.cp = NoCheckpoint /\ new.status = "running"
      /\ new.turns = us /\ new.rev = doc.rev /\ new.origin = doc.origin
  <2>1. "running" \in Statuses
    BY DEF Statuses
  <2> HIDE DEF Statuses, NoCheckpoint
  <2> QED BY <1>1, <1>2, <1>5, <1>6, <1>7, <2>1 DEF Docs
<1> HIDE DEF NoCheckpoint
<1>9. Spoken(new) = <<Prompt(t)>> /\ Len(Spoken(new)) = 1
  <2>1. Rest(new.cp) = <<>>
    BY <1>7, <1>8 DEF Rest
  <2>2. Spoken(new) = <<Prompt(t)>>
    BY <1>3, <1>5, <1>8, <2>1 DEF Spoken
  <2> QED BY <2>2
<1>10. Checked(new)
  BY <1>7, <1>8 DEF Checked
<1>11. \A i \in 1..n : /\ doc.turns[i].id # t /\ doc.turns[i].status # "running" /\ doc.turns[i].end <= m
                       /\ doc.turns[i].end \in Nat
  <2>1. ASSUME NEW i \in 1..n PROVE doc.turns[i].id # t
    BY <1>4, <2>1 DEF TurnSet
  <2>2. ASSUME NEW i \in 1..n
        PROVE  doc.turns[i].status # "running" /\ doc.turns[i].end <= m /\ doc.turns[i].end \in Nat
    <3>1. doc.turns # <<>> /\ n \in DOMAIN doc.turns /\ Last(doc.turns) = doc.turns[n]
      <4>1. doc.turns # <<>>
        BY <1>4
      <4> QED BY <4>1, DocTypes DEF n
    <3>2. doc.turns[i] \in Turns /\ doc.turns[n] \in Turns
      BY <1>4, <3>1, DocTypes
    <3>3. doc.turns[i].end \in Nat /\ doc.turns[n].end \in Nat /\ doc.turns[n].start \in Nat
      BY <3>2 DEF Turns
    <3>4. doc.turns[n].status # "running"
      BY <3>1 DEF Shape
    <3>5. doc.turns[i].status # "running"
      BY <1>4, <3>4 DEF TurnsFit, n
    <3>6. doc.turns[i].end <= m
      <4>1. CASE i = n
        BY <1>1, <3>1, <3>3, <4>1
      <4>2. CASE i < n
        <5>1. doc.turns[i].end <= doc.turns[n].start
          BY <1>4, <3>1, <4>2 DEF Shape, n
        <5>2. doc.turns[n].start < doc.turns[n].end
          BY <3>1 DEF TurnsFit
        <5>3. doc.turns[n].end = m
          BY <1>1, <3>1
        <5> QED BY <3>3, <5>1, <5>2, <5>3
      <4> QED BY <1>4, <4>1, <4>2
    <3> QED BY <3>3, <3>5, <3>6
  <2> QED BY <2>1, <2>2
<1>12. TurnsFit(new)
  <2>1. \A i, j \in DOMAIN us : us[i].id = us[j].id => i = j
    <3>1. \A i \in 1..(n + 1) : i = n + 1 \/ i \in 1..n
      BY <1>4
    <3>2. \A i, j \in 1..n : doc.turns[i].id = doc.turns[j].id => i = j
      BY <1>4 DEF TurnsFit
    <3> QED BY <1>3, <1>5, <1>11, <3>1, <3>2
  <2>2. ASSUME NEW i \in DOMAIN us
        PROVE  /\ us[i].start = (IF i = 1 THEN new.origin ELSE us[i - 1].end)
               /\ us[i].start < us[i].end
               /\ us[i].status = "running" => i = Len(us)
    <3>1. CASE i \in 1..n
      <4>1. i = 1 \/ i - 1 \in 1..n
        BY <3>1, <1>4
      <4>2. us[i] = doc.turns[i] /\ (i # 1 => us[i - 1] = doc.turns[i - 1])
        BY <1>5, <3>1, <4>1
      <4>3. /\ doc.turns[i].start = (IF i = 1 THEN doc.origin ELSE doc.turns[i - 1].end)
            /\ doc.turns[i].start < doc.turns[i].end
        BY <1>4, <3>1 DEF TurnsFit
      <4> QED BY <1>8, <1>11, <3>1, <4>2, <4>3
    <3>2. CASE i = n + 1
      <4>1. us[i] = turn
        BY <1>5, <3>2
      <4>2. turn.start < turn.end /\ i = Len(us)
        BY <1>1, <1>3, <1>5, <3>2
      <4>3. turn.start = (IF i = 1 THEN new.origin ELSE us[i - 1].end)
        <5>1. CASE n = 0
          <6>1. doc.turns = <<>> /\ i = 1
            BY <1>4, <3>2, <5>1 DEF n
          <6> QED BY <1>1, <1>3, <1>8, <6>1
        <5>2. CASE n # 0
          <6>1. doc.turns # <<>> /\ n \in 1..n /\ i # 1 /\ i - 1 = n
            BY <1>4, <3>2, <5>2 DEF n
          <6>2. us[i - 1] = doc.turns[n] /\ Last(doc.turns) = doc.turns[n]
            BY <1>5, <6>1 DEF Last, n
          <6> QED BY <1>1, <1>3, <6>1, <6>2
        <5> QED BY <5>1, <5>2
      <4> QED BY <4>1, <4>2, <4>3
    <3> QED BY <1>4, <1>5, <3>1, <3>2
  <2> QED BY <1>8, <2>1, <2>2 DEF TurnsFit
<1>13. Shape(new)
  <2>1. new.turns # <<>> /\ Last(new.turns) = turn /\ new.base.set /\ new.base.pending
    BY <1>5, <1>6, <1>8
  <2>2. Len(new.archive) = Last(new.turns).start /\ Last(new.turns).end = Len(new.archive) + Len(Spoken(new))
    BY <1>3, <1>8, <1>9, <2>1 DEF m
  <2>3. \A i \in DOMAIN new.turns : i < Len(new.turns) => new.turns[i].end <= Last(new.turns).start
    <3>1. \A i \in 1..(n + 1) : i < n + 1 => i \in 1..n
      BY <1>4
    <3> QED BY <1>3, <1>5, <1>8, <1>11, <2>1, <3>1
  <2>4. new.status = Last(new.turns).status
    BY <1>3, <1>8, <2>1
  <2> HIDE DEF Spoken
  <2> QED BY <2>1, <2>2, <2>3, <2>4 DEF Shape
<1>14. History(new) \in Seq(Messages) /\ History(new) = h \o <<Prompt(t)>> /\ <<Prompt(t)>> \in Seq(Messages)
  <2>1. History(new) \in Seq(Messages) /\ History(new) = new.archive \o Spoken(new) /\ Spoken(new) \in Seq(Messages)
    BY <1>8, <1>10, <1>13, ShapeRooted, HistoryIs
  <2> HIDE DEF History, Spoken
  <2> QED BY <1>8, <1>9, <2>1
<1>15. \E z \in Seq(Messages) : History(new) = h \o z
  <2> HIDE DEF History
  <2> QED BY <1>14
<1>16. /\ new.cp.run = 0 /\ new.base.input = w /\ new.turns[n + 1].id = t /\ new.turns[n + 1].run = 0
       /\ new.turns[n + 1].status = "running" /\ new.turns # <<>> /\ Len(new.turns) = n + 1
       /\ DOMAIN new.turns = 1..(n + 1) /\ \A i \in DOMAIN doc.turns : new.turns[i] = doc.turns[i]
  BY <1>3, <1>4, <1>5, <1>6, <1>7, <1>8
<1> HIDE DEF History
<1> QED BY <1>4, <1>8, <1>10, <1>12, <1>13, <1>14, <1>15, <1>16 DEF new, h, n

\* A turn is admitted.
LEMMA PrepareStep ==
    ASSUME SessionInv, NEW revision \in DOMAIN log, NEW t \in TurnIds, NEW o, Prepare(t, revision, o)
    PROVE  SessionInv' /\ Fixed(doc, doc')
<1>1. PICK w \in Worksets :
        /\ Save(Admitted(t, w), o)
        /\ adm' = IF o = "ok" THEN [pc |-> "starting", turn |-> t, run |-> 0, input |-> w] ELSE Idle
  BY DEF Prepare
<1>2. /\ up /\ gate = 0 /\ adm.pc = "idle" /\ doc.status # "running" /\ revision = doc.rev /\ t \notin TurnSet /\ present
      /\ sentOn' = [sentOn EXCEPT ![t] = log[revision]]
      /\ UNCHANGED <<up, gate, runs, present, created, edits, crashes>>
  BY DEF Prepare, GateFree, Editable, CanLoad
<1>3. /\ doc \in Docs /\ TurnsFit(doc) /\ Shape(doc) /\ Checked(doc) /\ log \in Seq(Nat)
  BY LogLength DEF SessionInv, FileInv
<1>4. w \in Seq(Messages) /\ History(doc) \in Seq(Messages)
  <2>1. WorkingHistory(doc) \in Seq(Messages) /\ History(doc) \in Seq(Messages)
    BY <1>3, ShapeRooted, HistoryIs
  <2>2. <<Summary>> \in Seq(Messages)
    BY Kinds, ShortSeqs
  <2> HIDE DEF WorkingHistory, History, Summary
  <2> QED BY <2>1, <2>2 DEF Worksets
<1> DEFINE new == Admitted(t, w)
           n == Len(doc.turns)
<1>5. /\ new \in Docs /\ TurnsFit(new) /\ Shape(new) /\ Checked(new)
      /\ new.rev = doc.rev /\ new.cp.run = 0 /\ new.archive = History(doc) /\ new.base.input = w
      /\ new.status = "running" /\ Len(new.turns) = n + 1 /\ new.turns # <<>>
      /\ new.turns[n + 1].id = t /\ new.turns[n + 1].run = 0 /\ new.turns[n + 1].status = "running"
      /\ \A i \in DOMAIN doc.turns : new.turns[i] = doc.turns[i]
      /\ DOMAIN new.turns = 1..(n + 1) /\ DOMAIN doc.turns = 1..n
      /\ History(new) \in Seq(Messages) /\ \E z \in Seq(Messages) : History(new) = History(doc) \o z
  BY ZenonT(40), <1>2, <1>3, <1>4, AdmittedIs
<1>6. n \in Nat
  BY <1>3, DocTypes
<1> HIDE DEF new, n, History
<1>7. /\ doc' \in Docs /\ log' \in Seq(Nat) /\ faults' \in Nat /\ faults' >= faults
      /\ o = "lost" => doc' = doc /\ log' = log
      /\ o # "lost" => Kept(new, doc') /\ Len(log') = doc'.rev /\ doc'.rev > 0 /\ log'[doc'.rev] = Len(doc'.turns)
  BY <1>1, <1>5, SaveFacts DEF new
<1>8. /\ log[revision] \in Nat /\ log[revision] = n
      /\ sentOn' \in [TurnIds -> Nat] /\ sentOn'[t] = n /\ \A x \in TurnIds : x # t => sentOn'[x] = sentOn[x]
  <2>1. log[revision] = n
    BY <1>2 DEF SessionInv, Logged, n
  <2>2. sentOn \in [TurnIds -> Nat]
    BY DEF SessionInv, Types
  <2> QED BY <1>2, <1>6, <2>1, <2>2
<1>9. adm' \in Admissions
  <2>1. 0 \in 0..MaxRuns /\ Idle \in Admissions
    BY RunsAssumption DEF Idle, Admissions
  <2>2. [pc |-> "starting", turn |-> t, run |-> 0, input |-> w] \in Admissions
    BY <1>4, <2>1 DEF Admissions
  <2> QED BY <1>1, <2>1, <2>2
<1>10. Types'
  BY <1>2, <1>7, <1>8, <1>9 DEF SessionInv, Types
<1>11. \A i \in DOMAIN doc.turns : doc.turns[i].id \in TurnIds /\ doc.turns[i].id # t /\ sentOn[doc.turns[i].id] = i - 1
  <2>1. ASSUME NEW i \in DOMAIN doc.turns PROVE doc.turns[i].id \in TurnIds /\ doc.turns[i].id # t
    <3>1. doc.turns[i] \in Turns
      BY <1>3, DocTypes
    <3> QED BY <1>2, <3>1 DEF Turns, TurnSet
  <2> QED BY <2>1 DEF SessionInv, Logged
<1>12. CASE o = "lost"
  <2>1. doc' = doc /\ log' = log /\ Kept(doc, doc') /\ adm' = Idle
    BY <1>1, <1>7, <1>12 DEF Kept
  <2>2. FileInv' /\ Fixed(doc, doc')
    BY <1>3, <2>1, KeptShape DEF FileInv
  <2>3. Logged'
    <3>1. Logged
      BY DEF SessionInv
    <3>2. \A i \in DOMAIN doc'.turns : sentOn'[doc'.turns[i].id] = i - 1
      BY <1>8, <1>11, <2>1
    <3>3. present' /\ Len(log') = doc'.rev /\ doc'.rev > 0 /\ log'[doc'.rev] = Len(doc'.turns)
      BY <1>2, <2>1, <3>1 DEF Logged
    <3> QED BY <3>2, <3>3 DEF Logged
  <2>4. Owned'
    <3>1. \A q \in RunIds : runs[q].pc # "unused" => runs[q].turn \in TurnSet
      BY <1>2 DEF SessionInv, Owned
    <3>2. TurnSet' = TurnSet
      BY <2>1 DEF TurnSet
    <3> QED BY <1>2, <2>1, <3>1, <3>2, OwnedIdle
  <2>5. Tasks' /\ Stored' /\ Denied'
    BY <1>2, <1>7, <2>1, RunsStay
  <2> QED BY <1>10, <2>2, <2>3, <2>4, <2>5 DEF SessionInv
<1>13. CASE o # "lost"
  <2>1. /\ Kept(new, doc') /\ doc'.turns = new.turns /\ doc'.cp = new.cp /\ doc'.archive = History(doc) /\ doc'.base = new.base
        /\ doc'.status = "running"
    BY <1>5, <1>7, <1>13 DEF Kept
  <2>2. TurnsFit(doc') /\ Shape(doc') /\ Checked(doc') /\ History(doc') = History(new)
    BY <1>5, <2>1, KeptShape
  <2>3. FileInv'
    BY <2>2 DEF FileInv
  <2>4. Logged'
    <3>1. ASSUME NEW i \in DOMAIN doc'.turns PROVE sentOn'[doc'.turns[i].id] = i - 1
      <4>1. i = n + 1 \/ i \in DOMAIN doc.turns
        BY <1>5, <1>6, <2>1
      <4>2. CASE i = n + 1
        BY <1>5, <1>6, <1>8, <2>1, <4>2
      <4>3. CASE i \in DOMAIN doc.turns
        <5>1. doc'.turns[i].id = doc.turns[i].id
          BY <1>5, <2>1, <4>3
        <5>2. doc.turns[i].id \in TurnIds /\ doc.turns[i].id # t /\ sentOn[doc.turns[i].id] = i - 1
          BY <1>11, <4>3
        <5> QED BY <1>8, <5>1, <5>2
      <4> QED BY <4>1, <4>2, <4>3
    <3> QED BY <1>2, <1>7, <1>13, <3>1 DEF Logged
  <2>5. LastTurn'.id = t /\ LastTurn'.run = 0
    BY <1>5, <2>1 DEF LastTurn
  <2>6. TurnSet \subseteq TurnSet'
    <3>1. \A i \in DOMAIN doc.turns : i \in DOMAIN doc'.turns /\ doc'.turns[i] = doc.turns[i]
      BY <1>5, <1>6, <2>1
    <3> QED BY <3>1 DEF TurnSet
  <2>7. \A q \in RunIds : runs[q].turn # t /\ (runs[q].pc # "unused" => runs[q].turn \in TurnSet)
    <3>1. \A q \in RunIds : runs[q].pc # "unused" => runs[q].turn \in TurnSet
      BY <1>2 DEF SessionInv, Owned
    <3>2. \A q \in RunIds : runs[q].pc = "unused" => runs[q].turn = 0
      BY UnusedIs DEF SessionInv, Owned
    <3> QED BY <1>2, <3>1, <3>2, TurnAssumption
  <2>8. Owned'
    <3>1. CASE o # "ok"
      BY <1>1, <1>2, <2>6, <2>7, <3>1, OwnedIdle
    <3>2. CASE o = "ok"
      <4>1. adm'.pc = "starting" /\ adm'.turn = t /\ adm'.input = w
        BY <1>1, <3>2
      <4>2. Owned
        BY DEF SessionInv
      <4>3. doc'.turns # <<>> /\ doc'.base.input = w
        BY <1>5, <2>1
      <4>4. \A q \in RunIds : runs[q].pc # "unused" => runs[q].turn \in TurnSet'
        BY <2>6, <2>7
      <4> HIDE DEF TurnSet, LastTurn
      <4> QED BY <1>2, <2>1, <2>5, <2>7, <4>1, <4>2, <4>3, <4>4 DEF Owned
    <3> QED BY <3>1, <3>2
  <2>9. ASSUME NEW q \in RunIds PROVE ~Current(q)' /\ (Done(q) => Done(q)')
    <3>1. ~Current(q)'
      BY <1>2, <2>5, <2>7 DEF Current
    <3>2. ASSUME Done(q) PROVE Done(q)'
      <4>1. PICK i \in DOMAIN doc.turns : doc.turns[i].id = runs[q].turn /\ doc.turns[i].status = "completed"
                                          /\ Answer(q) \in Range(History(doc))
        BY <1>2, <3>2 DEF Done
      <4>2. PICK z \in Seq(Messages) : History(doc') = History(doc) \o z
        BY <1>5, <2>2
      <4>3. Range(History(doc')) = Range(History(doc)) \union Range(z)
        BY <1>4, <4>2, ConcatFacts
      <4>4. i \in DOMAIN doc'.turns /\ doc'.turns[i] = doc.turns[i]
        BY <1>5, <1>6, <2>1
      <4> HIDE DEF Answer
      <4> QED BY <1>2, <4>1, <4>3, <4>4 DEF Done
    <3> QED BY <3>1, <3>2
  <2>10. Tasks' /\ Stored'
    BY <1>2, <1>5, <1>7, <2>1, <2>9, NewFile
  <2>11. Denied'
    <3>1. \A q \in RunIds : Outcome(q, "skipped") \in Range(History(doc)) => runs[q].pc # "unused" /\ runs[q].acked <= 2
      BY SkippedOnly
    <3> HIDE DEF Outcome, Current
    <3> QED BY <1>2, <2>1, <2>9, <3>1 DEF Denied
  <2>12. Fixed(doc, doc')
    <3>1. ASSUME NEW i \in DOMAIN doc.turns
          PROVE  i \in DOMAIN doc'.turns /\ Settled(doc', i) = Settled(doc, i)
      <4>1. PICK z \in Seq(Messages) : History(doc') = History(doc) \o z
        BY <1>5, <2>2
      <4>2. i \in DOMAIN doc'.turns /\ doc'.turns[i] = doc.turns[i]
        BY <1>5, <1>6, <2>1
      <4>3. doc.turns[i].start + 1 \in Nat /\ doc.turns[i].start + 1 >= 1 /\ doc.turns[i].end \in Nat
            /\ doc.turns[i].end <= Len(History(doc))
        <5>1. doc.turns[i] \in Turns /\ doc.turns # <<>>
          BY <1>3, DocTypes
        <5>2. Len(History(doc)) = Last(doc.turns).end
          BY <1>3, <5>1, ShapeLoads DEF Loads
        <5>3. doc.turns[i].end <= Last(doc.turns).end
          <6>1. CASE i = n
            BY <5>1, <6>1 DEF Last, n, Turns
          <6>2. CASE i # n
            <7>1. n \in DOMAIN doc.turns /\ Last(doc.turns) = doc.turns[n] /\ Last(doc.turns) \in Turns
              BY <1>3, <5>1, DocTypes DEF n
            <7>2. doc.turns[i].end <= Last(doc.turns).start
              BY <1>3, <1>5, <1>6, <6>2 DEF Shape, n
            <7>3. Last(doc.turns).start < Last(doc.turns).end
              BY <1>3, <7>1 DEF TurnsFit
            <7> QED BY <5>1, <7>1, <7>2, <7>3 DEF Turns
          <6> QED BY <6>1, <6>2
        <5> QED BY <5>1, <5>2, <5>3 DEF Turns
      <4>4. SubSeq(History(doc'), doc.turns[i].start + 1, doc.turns[i].end)
              = SubSeq(History(doc), doc.turns[i].start + 1, doc.turns[i].end)
        <5>1. ASSUME NEW s \in Seq(Messages), NEW u \in Seq(Messages), NEW a \in Nat, NEW b \in Nat, a >= 1, b <= Len(s)
              PROVE  SubSeq(s \o u, a, b) = SubSeq(s, a, b)
          BY <5>1, ConcatCut
        <5> DEFINE a == doc.turns[i].start + 1
                   b == doc.turns[i].end
        <5>2. a \in Nat /\ a >= 1 /\ b \in Nat /\ b <= Len(History(doc))
          BY <4>3
        <5> HIDE DEF a, b
        <5>3. SubSeq(History(doc'), a, b) = SubSeq(History(doc), a, b)
          BY <1>4, <4>1, <5>1, <5>2
        <5> QED BY <5>3 DEF a, b
      <4> QED BY <4>2, <4>4 DEF Settled
    <3> QED BY <3>1 DEF Fixed
  <2> QED BY <1>10, <2>3, <2>4, <2>8, <2>10, <2>11, <2>12 DEF SessionInv
<1> QED BY <1>12, <1>13

-----------------------------------------------------------------------------
(* The commit                                                              *)

\* What a run's snapshot is.
LEMMA SnapshotIs ==
    ASSUME SessionInv, NEW r \in RunIds, Running(r), runs[r].pc \notin {"unused", "dead"}
    PROVE  LET cp == Snapshot(r)
           IN  /\ cp \in Checkpoints /\ cp.run = r /\ cp.rev = runs[r].acked + 1 /\ cp.turn = Len(doc.turns)
               /\ cp.final = runs[r].want /\ r # 0 /\ Body(cp) \in Seq(Messages)
               /\ cp.call = (IF cp.final = "none" THEN CallState(cp.rev) ELSE "none")
               /\ cp.msgs = doc.base.input \o (<<Prompt(LastTurn.id)>> \o Body(cp))
<1> DEFINE cp == Snapshot(r)
           input == runs[r].input
           p == <<Prompt(runs[r].turn)>>
           a == runs[r].acked
           w == runs[r].want
           body == CASE w = "none" -> Said(r, a + 1)
                     [] w = "failed" -> Closed(r, a)
                     [] w = "completed" -> Append(Closed(r, a), Answer(r))
           msgs == Transcript(r)
           state == IF w = "none" THEN CallState(a + 1) ELSE "none"
           n == Len(doc.turns)
<1>1. Current(r) /\ StoredOk(r) /\ doc.base.input = input
  BY DEF Running, SessionInv, Stored, StoredOk
<1>2. /\ a \in 0..LastStage /\ a + 1 \in Nat /\ (a + 1) - 1 = a /\ w \in {"none", "completed", "failed"}
      /\ input \in Seq(Messages) /\ r # 0 /\ r \in 0..MaxRuns /\ n \in Nat
  <2>1. r # 0 /\ r \in 0..MaxRuns
    BY RunsAssumption DEF RunIds
  <2>2. n \in Nat
    BY LogLength, DocTypes
  <2>3. a \in 0..LastStage /\ w \in {"none", "completed", "failed"} /\ input \in Seq(Messages)
    BY RunTypes
  <2> HIDE DEF n, input, w, a
  <2> QED BY <2>1, <2>2, <2>3 DEF LastStage
<1>3. LastTurn.id = runs[r].turn /\ runs[r].turn \in TurnIds
  BY <1>1, OneCurrent
<1>4. p \in Seq(Messages)
  BY <1>3, Kinds, ShortSeqs
<1>5. body \in Seq(Messages)
  <2>1. Said(r, a + 1) \in Seq(Messages) /\ Closed(r, a) \in Seq(Messages) /\ Answer(r) \in Messages
    <3>1. a \in Int /\ a + 1 \in Int
      BY <1>2
    <3> QED BY <3>1, SaidFacts, Kinds
  <2>2. Append(Closed(r, a), Answer(r)) \in Seq(Messages)
    <3> HIDE DEF Closed, Answer, a
    <3> QED BY <2>1
  <2> HIDE DEF Said, Closed, Answer, a, w
  <2> QED BY <1>2, <2>1, <2>2
<1>6. msgs = (input \o p) \o body
  BY DEF Transcript
<1>7. state \in {"none", "pending", "intent", "settled"}
  BY DEF CallState
<1>8. cp = [run |-> r, rev |-> a + 1, turn |-> n, msgs |-> msgs, call |-> state, final |-> w]
  BY DEF Snapshot
<1> HIDE DEF input, p, a, w, body, msgs, state, n, cp
<1>9. msgs = input \o (p \o body) /\ msgs \in Seq(Messages)
  <2>1. p \o body \in Seq(Messages) /\ (input \o p) \o body = input \o (p \o body)
    BY SMTT(30), <1>2, <1>4, <1>5, ConcatAssoc, ConcatFacts
  <2>2. ASSUME NEW x \in Seq(Messages), NEW y \in Seq(Messages) PROVE x \o y \in Seq(Messages)
    OBVIOUS
  <2> QED BY <1>2, <1>6, <2>1, <2>2
<1>10. /\ cp \in Checkpoints /\ cp.run = r /\ cp.rev = a + 1 /\ cp.turn = n /\ cp.final = w /\ cp.call = state /\ cp.msgs = msgs
  BY <1>2, <1>7, <1>8, <1>9 DEF Checkpoints
<1>11. Body(cp) = body
  <2>1. Body(cp) = CASE w = "none" -> Said(r, a + 1)
                     [] w = "failed" -> Closed(r, a)
                     [] w = "completed" -> Append(Closed(r, a), Answer(r))
    <3> HIDE DEF Said, Closed, Answer
    <3> QED BY <1>2, <1>10 DEF Body
  <2> QED BY <2>1 DEF body
<1>12. state = (IF w = "none" THEN CallState(a + 1) ELSE "none")
  BY DEF state
<1> HIDE DEF Body, CallState
<1>13. cp.msgs = doc.base.input \o (<<Prompt(LastTurn.id)>> \o Body(cp))
  BY <1>1, <1>3, <1>9, <1>10, <1>11 DEF p
<1>14. cp.call = (IF cp.final = "none" THEN CallState(cp.rev) ELSE "none")
  BY <1>10, <1>12
<1> QED BY <1>2, <1>5, <1>10, <1>11, <1>13, <1>14 DEF cp, a, w, n

\* The file with a run's snapshot.
LEMMA CommittedIs ==
    ASSUME SessionInv, NEW r \in RunIds, Running(r), runs[r].pc \notin {"unused", "dead"}
    PROVE  LET new == Committed(r)
               n == Len(doc.turns)
           IN  /\ new \in Docs /\ TurnsFit(new) /\ Shape(new) /\ Checked(new)
               /\ new.rev = doc.rev /\ new.archive = doc.archive /\ new.base.input = doc.base.input
               /\ new.cp.run = r /\ new.cp.rev = runs[r].acked + 1 /\ new.cp.final = runs[r].want
               /\ Len(new.turns) = n /\ DOMAIN new.turns = DOMAIN doc.turns /\ n \in DOMAIN doc.turns
               /\ \A i \in DOMAIN doc.turns : /\ new.turns[i].id = doc.turns[i].id
                                              /\ i # n => new.turns[i] = doc.turns[i]
               /\ new.turns[n].run = r /\ new.status = new.turns[n].status
               /\ new.status = (IF runs[r].want = "none" THEN "running" ELSE runs[r].want)
               /\ History(new) = doc.archive \o Spoken(new) /\ Spoken(new) \in Seq(Messages)
               /\ runs[r].want = "completed" => Answer(r) \in Range(History(new))
<1> DEFINE cp == Snapshot(r)
           n == Len(doc.turns)
           with == [doc EXCEPT !.cp = cp, !.base.pending = FALSE, !.turns[cp.turn].run = r]
           st == IF cp.final = "none" THEN "running" ELSE cp.final
           e == Len(History(with))
           new == Committed(r)
           ts == doc.turns
           b == [doc.base EXCEPT !.pending = FALSE]
           t1 == [ts[n] EXCEPT !.run = r]
           ts1 == [ts EXCEPT ![n] = t1]
           t2 == [t1 EXCEPT !.end = e, !.status = st]
           ts2 == [ts1 EXCEPT ![n] = t2]
<1>1. /\ cp \in Checkpoints /\ cp.run = r /\ cp.rev = runs[r].acked + 1 /\ cp.turn = n
      /\ cp.final = runs[r].want /\ r # 0 /\ Body(cp) \in Seq(Messages)
      /\ cp.call = (IF cp.final = "none" THEN CallState(cp.rev) ELSE "none")
      /\ cp.msgs = doc.base.input \o (<<Prompt(LastTurn.id)>> \o Body(cp))
  BY SnapshotIs
<1>2. /\ doc \in Docs /\ TurnsFit(doc) /\ Shape(doc) /\ Checked(doc) /\ doc.turns # <<>>
  BY LogLength DEF SessionInv, FileInv, Running, Current
<1>3. new = [with EXCEPT !.turns[cp.turn].end = e, !.turns[cp.turn].status = st, !.status = st]
  BY DEF Committed
<1>4. with = [doc EXCEPT !.cp = cp, !.base = b, !.turns = ts1]
  BY <1>1, <1>2 DEF Docs
<1> HIDE DEF cp, with, new, e, st, History, Body, CallState, Spoken
<1>5. /\ ts \in Seq(Turns) /\ n \in DOMAIN ts /\ DOMAIN ts = 1..n /\ n \in Nat /\ ts[n] \in Turns /\ doc.base \in Bases
      /\ LastTurn = ts[n] /\ Last(doc.turns) = ts[n] /\ doc.archive \in Seq(Messages) /\ doc.cp \in Checkpoints
  BY <1>2, DocTypes DEF LastTurn
<1>6. /\ b \in Bases /\ b.set = doc.base.set /\ b.input = doc.base.input /\ b.pending = FALSE
  BY <1>5 DEF Bases
<1>7. /\ t1 \in Turns /\ t1.id = ts[n].id /\ t1.run = r /\ t1.start = ts[n].start
  <2> DEFINE o == ts[n]
  <2>1. o \in Turns /\ r \in 0..MaxRuns
    BY <1>5, RunsAssumption DEF RunIds
  <2> HIDE DEF o
  <2>2. [o EXCEPT !.run = r] \in Turns /\ [o EXCEPT !.run = r].id = o.id /\ [o EXCEPT !.run = r].run = r
        /\ [o EXCEPT !.run = r].start = o.start
    BY <2>1 DEF Turns
  <2> QED BY <2>2 DEF o
<1> HIDE DEF t1, b
<1>8. /\ ts1 \in Seq(Turns) /\ Len(ts1) = n /\ DOMAIN ts1 = DOMAIN ts /\ ts1[n] = t1
      /\ \A i \in DOMAIN ts : i # n => ts1[i] = ts[i]
  <2>1. ASSUME NEW s \in Seq(Turns), NEW k \in DOMAIN s, NEW t \in Turns
        PROVE  /\ [s EXCEPT ![k] = t] \in Seq(Turns) /\ Len([s EXCEPT ![k] = t]) = Len(s)
               /\ DOMAIN [s EXCEPT ![k] = t] = DOMAIN s /\ [s EXCEPT ![k] = t][k] = t
               /\ \A i \in DOMAIN s : i # k => [s EXCEPT ![k] = t][i] = s[i]
    OBVIOUS
  <2> HIDE DEF ts
  <2> QED BY <1>5, <1>7, <2>1 DEF n, ts
<1> HIDE DEF ts1
<1>9. /\ with \in Docs /\ with.cp = cp /\ with.base = b /\ with.turns = ts1 /\ with.archive = doc.archive
      /\ with.status = doc.status /\ with.rev = doc.rev /\ with.origin = doc.origin
  BY <1>1, <1>2, <1>4, <1>6, <1>8 DEF Docs
<1>10. ts1 # <<>> /\ Last(ts1) = t1
  BY <1>5, <1>8 DEF Last
<1>11. doc.base.set
  BY <1>2 DEF Shape
<1>12. Rooted(with)
  <2>1. Last(with.turns).id = LastTurn.id
    BY <1>5, <1>7, <1>9, <1>10
  <2>2. with.base.set /\ with.turns # <<>> /\ with.base.input = doc.base.input
    BY <1>6, <1>9, <1>10, <1>11
  <2> HIDE DEF LastTurn
  <2> QED BY <1>1, <1>9, <2>1, <2>2 DEF Rooted
<1>13. /\ Spoken(with) \in Seq(Messages) /\ History(with) = doc.archive \o Spoken(with)
       /\ e = Len(doc.archive) + Len(Spoken(with)) /\ Len(Spoken(with)) > 0 /\ e \in Nat
  <2>1. /\ Spoken(with) \in Seq(Messages) /\ History(with) = with.archive \o Spoken(with)
        /\ Len(History(with)) = Len(with.archive) + Len(Spoken(with)) /\ Len(Spoken(with)) > 0
    BY <1>9, <1>10, <1>12, HistoryIs
  <2> QED BY <1>5, <1>9, <2>1 DEF e
<1>14. st \in Statuses /\ st \in {"running", "completed", "failed"} /\ (cp.final # "none" => st = cp.final)
       /\ st = (IF runs[r].want = "none" THEN "running" ELSE runs[r].want)
  <2>1. cp.final \in {"none", "completed", "failed"}
    BY <1>1 DEF Checkpoints
  <2> QED BY <1>1, <2>1 DEF st, Statuses, Ended
<1>15. /\ t2 \in Turns /\ t2.id = ts[n].id /\ t2.run = r /\ t2.start = ts[n].start /\ t2.end = e /\ t2.status = st
  <2>1. t2 \in Turns /\ t2.id = t1.id /\ t2.run = t1.run /\ t2.start = t1.start /\ t2.end = e /\ t2.status = st
    BY <1>7, <1>13, <1>14 DEF Turns
  <2> HIDE DEF t2, ts
  <2> QED BY <1>7, <2>1
<1>16. new = [with EXCEPT !.turns = ts2, !.status = st]
  <2> DEFINE us == with.turns
             t3 == [us[n] EXCEPT !.end = e, !.status = st]
  <2>1. new = [with EXCEPT !.turns[n].end = e, !.turns[n].status = st, !.status = st]
    BY <1>1, <1>3
  <2>2. n \in DOMAIN us
    BY <1>5, <1>8, <1>9
  <2> HIDE DEF n
  <2>3. new = [with EXCEPT !.turns = [us EXCEPT ![n] = t3], !.status = st]
    BY <1>9, <2>1, <2>2 DEF Docs
  <2>4. us = ts1 /\ t3 = t2
    BY <1>8, <1>9
  <2> HIDE DEF us, t2, t3
  <2> QED BY <2>3, <2>4
<1> HIDE DEF t2
<1>17. /\ ts2 \in Seq(Turns) /\ Len(ts2) = n /\ DOMAIN ts2 = DOMAIN ts /\ ts2[n] = t2
       /\ \A i \in DOMAIN ts : i # n => ts2[i] = ts[i]
  <2>1. ASSUME NEW s \in Seq(Turns), NEW k \in DOMAIN s, NEW t \in Turns
        PROVE  /\ [s EXCEPT ![k] = t] \in Seq(Turns) /\ Len([s EXCEPT ![k] = t]) = Len(s)
               /\ DOMAIN [s EXCEPT ![k] = t] = DOMAIN s /\ [s EXCEPT ![k] = t][k] = t
               /\ \A i \in DOMAIN s : i # k => [s EXCEPT ![k] = t][i] = s[i]
    OBVIOUS
  <2>2. /\ ts2 \in Seq(Turns) /\ Len(ts2) = Len(ts1) /\ DOMAIN ts2 = DOMAIN ts1 /\ ts2[n] = t2
        /\ \A i \in DOMAIN ts1 : i # n => ts2[i] = ts1[i]
    BY <1>5, <1>8, <1>15, <2>1
  <2> HIDE DEF ts2, ts
  <2> QED BY <1>8, <2>2
<1> HIDE DEF ts2
<1>18. /\ new \in Docs /\ new.cp = cp /\ new.base = b /\ new.turns = ts2 /\ new.archive = doc.archive
       /\ new.status = st /\ new.rev = doc.rev /\ new.origin = doc.origin
  BY <1>9, <1>14, <1>16, <1>17 DEF Docs
<1>19. ts2 # <<>> /\ Last(ts2) = t2
  BY <1>5, <1>17 DEF Last
<1>20. Spoken(new) = Spoken(with) /\ History(new) = History(with)
  BY <1>7, <1>9, <1>10, <1>15, <1>18, <1>19, SameHistory
<1> HIDE DEF ts
<1>21. ts[n].start = Len(doc.archive) /\ \A i \in DOMAIN ts : i # n => ts[i].end <= ts[n].start /\ ts[i].status # "running"
  <2>1. ts[n].start = Len(doc.archive) /\ \A i \in DOMAIN ts : i < n => ts[i].end <= ts[n].start
    BY <1>2, <1>5 DEF Shape, ts
  <2>2. \A i \in DOMAIN ts : i # n => ts[i].status # "running" /\ i < n
    BY <1>2, <1>5 DEF TurnsFit, ts
  <2> QED BY <2>1, <2>2
<1>22. TurnsFit(new)
  <2>1. \A i \in DOMAIN ts : ts2[i].id = ts[i].id /\ ts2[i].start = ts[i].start
    BY <1>15, <1>17
  <2>2. \A i, j \in DOMAIN ts2 : ts2[i].id = ts2[j].id => i = j
    BY <1>2, <1>17, <2>1 DEF TurnsFit, ts
  <2>3. ASSUME NEW i \in DOMAIN ts
        PROVE  /\ ts2[i].start = (IF i = 1 THEN new.origin ELSE ts2[i - 1].end)
               /\ ts2[i].start < ts2[i].end
               /\ ts2[i].status = "running" => i = n
    <3>1. /\ ts[i].start = (IF i = 1 THEN doc.origin ELSE ts[i - 1].end) /\ ts[i].start < ts[i].end
      BY <1>2 DEF TurnsFit, ts
    <3>2. i = 1 \/ (i - 1 \in DOMAIN ts /\ i - 1 # n)
      BY <1>5
    <3>3. i # 1 => ts2[i - 1] = ts[i - 1]
      BY <1>17, <3>2
    <3>4. ts2[i].start = (IF i = 1 THEN new.origin ELSE ts2[i - 1].end)
      BY <1>18, <2>1, <3>1, <3>3
    <3>5. CASE i = n
      <4>1. ts2[i].start = Len(doc.archive) /\ ts2[i].end = e
        BY <1>15, <1>17, <1>21, <3>5
      <4> QED BY <1>5, <1>13, <3>4, <3>5, <4>1
    <3>6. CASE i # n
      BY <1>17, <1>21, <3>1, <3>4, <3>6
    <3> QED BY <3>5, <3>6
  <2>4. new.turns = ts2 /\ Len(ts2) = n /\ DOMAIN ts2 = DOMAIN ts
    BY <1>17, <1>18
  <2> HIDE DEF n
  <2> QED BY <2>2, <2>3, <2>4 DEF TurnsFit
<1>23. Shape(new)
  <2>1. new.status = Last(new.turns).status /\ new.turns # <<>> /\ new.base.set /\ new.cp.run # 0
    BY <1>1, <1>6, <1>11, <1>15, <1>18, <1>19
  <2>2. Len(new.archive) = Last(new.turns).start /\ Last(new.turns).end = Len(new.archive) + Len(Spoken(new))
    BY <1>13, <1>15, <1>18, <1>19, <1>20, <1>21
  <2>3. \A i \in DOMAIN new.turns : i < Len(new.turns) => new.turns[i].end <= Last(new.turns).start
    <3>1. \A i \in DOMAIN ts : i < n => i # n
      BY <1>5
    <3> QED BY <1>15, <1>17, <1>18, <1>19, <1>21, <3>1
  <2> QED BY <2>1, <2>2, <2>3 DEF Shape
<1>24. Checked(new)
  <2>1. Last(new.turns).id = LastTurn.id /\ Last(new.turns).run = r
    BY <1>5, <1>15, <1>18, <1>19
  <2>2. new.turns # <<>> /\ new.cp.turn = Len(new.turns)
    BY <1>1, <1>17, <1>18, <1>19
  <2>3. new.cp.msgs = new.base.input \o (<<Prompt(Last(new.turns).id)>> \o Body(new.cp))
    <3> HIDE DEF LastTurn, Prompt
    <3> QED BY <1>1, <1>6, <1>18, <2>1
  <2> HIDE DEF LastTurn, Prompt
  <2> QED BY <1>1, <1>14, <1>18, <2>1, <2>2, <2>3 DEF Checked
<1>25. ASSUME runs[r].want = "completed" PROVE Answer(r) \in Range(History(new))
  <2>1. Answer(r) \in Range(Rest(cp)) /\ Rest(cp) \in Seq(Messages)
    BY <1>1, <1>25, RestFacts
  <2>2. Spoken(new) = <<Prompt(Last(new.turns).id)>> \o Rest(cp)
    BY <1>18, <1>19 DEF Spoken
  <2>3. <<Prompt(Last(new.turns).id)>> \in Seq(Messages)
    <3>1. Last(new.turns).id \in TurnIds
      BY <1>15, <1>18, <1>19 DEF Turns
    <3> QED BY <3>1, Kinds, ShortSeqs
  <2>4. ASSUME NEW x \in Seq(Messages), NEW y \in Seq(Messages) PROVE Range(x \o y) = Range(x) \union Range(y)
    BY ConcatFacts
  <2> HIDE DEF Answer, Rest, Prompt
  <2>5. Answer(r) \in Range(Spoken(new))
    BY <2>1, <2>2, <2>3, <2>4
  <2>6. History(new) = doc.archive \o Spoken(new) /\ Spoken(new) \in Seq(Messages)
    BY <1>13, <1>20
  <2> QED BY <1>5, <2>4, <2>5, <2>6
<1>26. \A i \in DOMAIN ts : new.turns[i].id = ts[i].id /\ (i # n => new.turns[i] = ts[i])
  BY <1>15, <1>17, <1>18
<1>27. /\ History(new) = doc.archive \o Spoken(new) /\ Spoken(new) \in Seq(Messages) /\ new.base.input = doc.base.input
       /\ new.turns[n].run = r /\ new.turns[n].status = new.status /\ Len(new.turns) = n /\ DOMAIN new.turns = DOMAIN ts
       /\ new.cp.run = r /\ new.cp.rev = runs[r].acked + 1 /\ new.cp.final = runs[r].want
  BY <1>1, <1>6, <1>13, <1>15, <1>17, <1>18, <1>20
<1> HIDE DEF Answer
<1> QED BY <1>5, <1>14, <1>18, <1>22, <1>23, <1>24, <1>25, <1>26, <1>27 DEF new, ts, n

\* The file is replaced, or not, and the commit leaves the gate.
LEMMA CommitEndStep ==
    ASSUME SessionInv, NEW r \in RunIds, NEW o, CommitEnd(r, o)
    PROVE  SessionInv' /\ Fixed(doc, doc')
<1> DEFINE op == Answered(r, IF o = "ok" THEN "done" ELSE "error")
           new == [runs[r] EXCEPT !.op = op]
           file2 == Committed(r)
           n == Len(doc.turns)
<1>1. /\ up /\ gate = r /\ gate' = 0
      /\ o \in {"ok", "lost", "landed", "dropped"} /\ (o = "dropped" => runs[r].cancelled)
      /\ IF o = "dropped" THEN UNCHANGED <<doc, log, faults>> ELSE Save(file2, o)
      /\ runs' = [runs EXCEPT ![r] = new]
      /\ UNCHANGED <<up, adm, present, created, sentOn, edits, crashes>>
  BY DEF CommitEnd, SaveOutcomes
<1>2. TaskOk(r) /\ runs[r] \in RunRecords /\ r # 0
  BY RunTypes, RunsAssumption DEF SessionInv, Tasks, RunIds
<1>3. /\ runs[r].op = "writing" /\ Running(r) /\ Current(r) /\ runs[r].pc \in {"live", "settling", "over"}
      /\ (runs[r].pc = "live" => ~runs[r].cancelled) /\ doc.status = "running" /\ present
  <2>1. runs[r].op = "writing" /\ Running(r) /\ runs[r].pc \notin {"unused", "dead"} /\ (runs[r].pc = "live" => ~runs[r].cancelled)
    <3> HIDE DEF Running
    <3> QED BY <1>1, <1>2 DEF TaskOk
  <2> QED BY <1>2, <2>1 DEF Running, Current, RunRecords
<1>4. op \in {"done", "error", "none"} /\ (op # "none" => runs[r].pc = "live") /\ (op = "done" => o = "ok")
      /\ (op = "error" => o # "ok") /\ (runs[r].pc = "live" => op # "none")
  BY DEF Answered
<1> HIDE DEF op
<1>5. new \in RunRecords /\ new.op = op /\ new.want = runs[r].want /\ new.pc = runs[r].pc /\ new.turn = runs[r].turn
      /\ new.input = runs[r].input /\ new.acked = runs[r].acked /\ new.cancelled = runs[r].cancelled
      /\ new.report = runs[r].report /\ new.told = runs[r].told
  BY <1>2, <1>4 DEF RunRecords
<1> HIDE DEF new, file2, n
<1>6. runs' \in [RunIds -> RunRecords] /\ runs'[r] = new /\ \A q \in RunIds : q # r => runs'[q] = runs[q]
  BY <1>1, <1>5, RunSet
<1>7. StoredOk(r)
  BY <1>3 DEF SessionInv, Stored
<1>8. \A q \in RunIds : Current(q) => q = r
  BY <1>3, OneCurrent
<1>9. \A q \in RunIds : runs'[q].turn = runs[q].turn /\ (runs'[q].pc = "unused" <=> runs[q].pc = "unused")
                        /\ runs'[q].acked = runs[q].acked
  <2>1. ASSUME NEW q \in RunIds
        PROVE  runs'[q].turn = runs[q].turn /\ (runs'[q].pc = "unused" <=> runs[q].pc = "unused")
               /\ runs'[q].acked = runs[q].acked
    <3>1. CASE q = r
      BY <3>1, <1>5, <1>6
    <3>2. CASE q # r
      BY <3>2, <1>6
    <3> QED BY <3>1, <3>2
  <2> QED BY <2>1
<1>9a. gate' \in 0..MaxRuns
  BY <1>1, RunsAssumption
<1>9b. ~Done(r)
  <2>1. doc.turns # <<>> /\ LastTurn.id = runs[r].turn
    BY <1>3 DEF Current
  <2>2. n \in DOMAIN doc.turns /\ doc.turns[n] = LastTurn
    BY <2>1, LogLength, DocTypes DEF LastTurn, n
  <2>3. LastTurn.status = "running"
    BY <1>3, <2>1, LogLength, DocTypes DEF SessionInv, FileInv, Shape, LastTurn
  <2>4. \A i, j \in DOMAIN doc.turns : doc.turns[i].id = doc.turns[j].id => i = j
    BY DEF SessionInv, FileInv, TurnsFit
  <2> HIDE DEF LastTurn
  <2> QED BY <1>3, <2>1, <2>2, <2>3, <2>4 DEF Done
<1>9c. runs[r].report # "completed" /\ runs[r].told # "completed" /\ faults \in Nat
       /\ (runs[r].want = "none" => runs[r].acked < LastStage) /\ (runs[r].pc = "settling" => runs[r].report # "none")
  <2> HIDE DEF Done, Running, Current
  <2> QED BY <1>2, <1>3, <1>9b, LogLength DEF TaskOk
<1>10. CASE o \in {"lost", "dropped"}
  <2>1. /\ doc' \in Docs /\ log' \in Seq(Nat) /\ doc' = doc /\ log' = log /\ faults' \in Nat /\ faults' >= faults
        /\ (o = "lost" => faults' > 0)
    <3>1. CASE o = "lost"
      <4>1. file2 \in Docs /\ file2.rev = doc.rev
        BY <1>3, CommittedIs DEF file2
      <4> QED BY <1>1, <3>1, <4>1, SaveFacts, LogLength
    <3>2. CASE o = "dropped"
      BY <1>1, <3>2, LogLength
    <3> QED BY <1>10, <3>1, <3>2
  <2>2. Kept(doc, doc')
    BY <2>1 DEF Kept
  <2>3. Logged' /\ FileInv' /\ Fixed(doc, doc')
    <3>1. TurnsFit(doc) /\ Shape(doc) /\ Checked(doc)
      BY DEF SessionInv, FileInv
    <3> QED BY <1>1, <2>1, <2>2, <3>1, LoggedKept, KeptShape DEF FileInv
  <2>4. Types'
    BY <1>1, <1>6, <1>9a, <2>1 DEF SessionInv, Types
  <2>5. op # "done" /\ (op = "error" => faults' > 0)
    BY <1>1, <1>3, <1>4, <1>10, <2>1
  <2>6. TaskOk(r)'
    <3> HIDE DEF Current, Done, Running
    <3> QED BY <1>1, <1>2, <1>3, <1>4, <1>5, <1>6, <1>9c, <2>5 DEF TaskOk
  <2>7. StoredOk(r)'
    <3>1. doc'.cp = doc.cp /\ LastTurn' = LastTurn /\ doc'.base = doc.base
      BY <2>2 DEF Kept, LastTurn
    <3> HIDE DEF LastTurn
    <3> QED BY <1>3, <1>5, <1>6, <1>7, <3>1 DEF StoredOk
  <2>8. Owned' /\ Tasks' /\ Stored' /\ Denied'
    <3>1. \A q \in RunIds : q # r => (gate' = q <=> gate = q)
      BY <1>1, <1>2, RunsAssumption DEF RunIds
    <3>2. runs'[r].turn = runs[r].turn /\ runs'[r].input = runs[r].input /\ runs'[r].pc \in {"live", "settling", "over"}
          /\ runs'[r].acked = runs[r].acked
      BY <1>3, <1>5, <1>6
    <3> QED BY <1>1, <1>3, <1>6, <2>1, <2>2, <2>6, <2>7, <3>1, <3>2, OneRuns
  <2> QED BY <2>3, <2>4, <2>8 DEF SessionInv
<1>11. CASE o \in {"ok", "landed"}
  <2>1. /\ file2 \in Docs /\ TurnsFit(file2) /\ Shape(file2) /\ Checked(file2)
        /\ file2.rev = doc.rev /\ file2.archive = doc.archive /\ file2.base.input = doc.base.input
        /\ file2.cp.run = r /\ file2.cp.rev = runs[r].acked + 1 /\ file2.cp.final = runs[r].want
        /\ Len(file2.turns) = n /\ DOMAIN file2.turns = DOMAIN doc.turns /\ n \in DOMAIN doc.turns
        /\ \A i \in DOMAIN doc.turns : /\ file2.turns[i].id = doc.turns[i].id
                                       /\ i # n => file2.turns[i] = doc.turns[i]
        /\ file2.turns[n].run = r /\ file2.status = file2.turns[n].status
        /\ file2.status = (IF runs[r].want = "none" THEN "running" ELSE runs[r].want)
        /\ History(file2) = doc.archive \o Spoken(file2) /\ Spoken(file2) \in Seq(Messages)
        /\ runs[r].want = "completed" => Answer(r) \in Range(History(file2))
    <3>1. runs[r].pc \notin {"unused", "dead"}
      BY <1>3
    <3> QED BY <1>3, <3>1, CommittedIs DEF file2, n
  <2> HIDE DEF History, Spoken, Answer
  <2>2. Save(file2, o)
    BY <1>1, <1>11
  <2>3. /\ doc' \in Docs /\ log' \in Seq(Nat) /\ faults' \in Nat /\ faults' >= faults
        /\ Kept(file2, doc') /\ (o = "landed" => faults' > 0)
    BY <1>11, <2>1, <2>2, SaveFacts
  <2>4. /\ TurnsFit(doc') /\ Shape(doc') /\ Checked(doc') /\ History(doc') = History(file2)
    BY <2>1, <2>3, KeptShape
  <2>5. /\ doc'.turns = file2.turns /\ doc'.cp = file2.cp /\ doc'.base = file2.base /\ doc'.archive = doc.archive
        /\ doc'.status = file2.status
    BY <2>1, <2>3 DEF Kept
  <2>6. Logged'
    BY <1>1, <1>3, <2>1, <2>2, LoggedSaved DEF n
  <2>7. Types'
    BY <1>1, <1>6, <1>9a, <2>3 DEF SessionInv, Types
  <2>8. TurnSet' = TurnSet /\ LastTurn'.id = LastTurn.id /\ LastTurn'.run = r /\ doc'.turns # <<>> /\ doc.turns # <<>>
        /\ LastTurn = doc.turns[n] /\ doc'.turns[n].id = LastTurn.id
    <3>1. TurnSet' = TurnSet
      <4>1. /\ DOMAIN doc'.turns = DOMAIN doc.turns
            /\ \A i \in DOMAIN doc.turns : doc'.turns[i].id = doc.turns[i].id
        BY <2>1, <2>5
      <4> QED BY <4>1, Zenon DEF TurnSet
    <3>2. LastTurn' = doc'.turns[n] /\ LastTurn = doc.turns[n] /\ doc.turns # <<>> /\ doc'.turns # <<>>
      <4>1. doc.turns # <<>>
        BY <1>3 DEF Current
      <4>2. doc'.turns # <<>>
        BY <2>1, <2>5
      <4> QED BY <4>1, <4>2, <2>1, <2>5 DEF LastTurn, n
    <3> HIDE DEF LastTurn, TurnSet
    <3> QED BY <2>1, <2>5, <3>1, <3>2
  <2>9. \A q \in RunIds : Current(q)' <=> Current(q)
    <3> HIDE DEF LastTurn
    <3> QED BY <1>1, <1>9, <2>8 DEF Current
  <2>10. Owned'
    <3>1. Owned
      BY DEF SessionInv
    <3>2. adm.pc \notin {"starting", "failing"}
      <4>1. LastTurn.id = runs[r].turn
        BY <1>3 DEF Current
      <4> QED BY <3>1, <4>1 DEF Owned
    <3>3. \A q \in RunIds : runs'[q].pc = "unused" => runs'[q] = Unused
      BY <1>3, <1>5, <1>6, <3>1 DEF Owned
    <3> HIDE DEF TurnSet
    <3>4. \A p, q \in RunIds : runs'[p].pc # "unused" /\ runs'[q].pc # "unused" /\ runs'[p].turn = runs'[q].turn => p = q
      BY <1>9, <3>1 DEF Owned
    <3>5. \A q \in RunIds : runs'[q].pc # "unused" => runs'[q].turn \in TurnIds /\ (present' => runs'[q].turn \in TurnSet')
      BY <1>1, <1>9, <2>8, <3>1 DEF Owned
    <3>6. adm'.pc = "binding" => /\ adm'.run \in RunIds /\ adm'.turn \in TurnIds /\ runs'[adm'.run].turn = adm'.turn
                                 /\ runs'[adm'.run].pc # "unused"
      BY <1>1, <1>9, <3>1 DEF Owned
    <3>7. ~created' => \A q \in RunIds : runs'[q].pc = "unused"
      BY <1>1, <1>9, <3>1 DEF Owned
    <3>8. up' /\ adm'.pc \notin {"starting", "failing"}
      BY <1>1, <3>2
    <3> QED BY <3>3, <3>4, <3>5, <3>6, <3>7, <3>8 DEF Owned
  <2>11. TaskOk(r)'
    <3>1. op = "done" /\ runs[r].want = "none" =>
            /\ Current(r)' /\ doc'.status = "running" /\ doc'.cp.run = r /\ doc'.cp.rev = runs[r].acked + 1
      BY <1>3, <2>1, <2>5, <2>9
    <3>2. op = "done" /\ runs[r].want = "completed" => Done(r)'
      <4>1. ASSUME runs[r].want = "completed" PROVE Done(r)'
        <5>1. n \in DOMAIN doc'.turns /\ doc'.turns[n].id = runs'[r].turn /\ doc'.turns[n].status = "completed"
          <6>1. LastTurn.id = runs[r].turn
            BY <1>3 DEF Current
          <6> HIDE DEF LastTurn
          <6> QED BY <1>9, <2>1, <2>5, <2>8, <4>1, <6>1
        <5>2. Answer(r) \in Range(History(doc'))
          BY <2>1, <2>4, <4>1
        <5> QED BY <5>1, <5>2 DEF Done
      <4> QED BY <4>1
    <3>3. op = "error" => faults' > 0
      BY <1>4, <1>11, <2>3
    <3> HIDE DEF Current, Done, Running
    <3> QED BY <1>1, <1>2, <1>3, <1>4, <1>5, <1>6, <1>9c, <3>1, <3>2, <3>3 DEF TaskOk
  <2>12. ASSUME NEW q \in RunIds, q # r PROVE TaskOk(q)'
    <3>1. TaskOk(q) /\ ~Current(q) /\ ~Current(q)' /\ runs'[q] = runs[q]
      BY <1>6, <1>8, <2>9, <2>12 DEF SessionInv, Tasks
    <3>2. ~Running(q)
      BY <3>1 DEF Running
    <3>3. Done(q) => Done(q)'
      <4>1. ASSUME Done(q) PROVE Done(q)'
        <5>1. PICK i \in DOMAIN doc.turns : doc.turns[i].id = runs[q].turn /\ doc.turns[i].status = "completed"
                                            /\ Answer(q) \in Range(History(doc))
          BY <1>3, <4>1 DEF Done
        <5>2. i # n
          BY <1>3, <2>8, <3>1, <5>1 DEF Current
        <5>3. Answer(q) \in Range(doc.archive)
          <6>0. doc \in Docs /\ Rooted(doc) /\ doc.turns # <<>>
            BY <2>8, LogLength, ShapeRooted DEF SessionInv, FileInv
          <6>1. Range(History(doc)) = Range(doc.archive) \union Range(Spoken(doc))
            BY <6>0, HistoryIs
          <6>2. ASSUME Answer(q) \in Range(Spoken(doc)) PROVE FALSE
            <7>1. Last(doc.turns).id \in TurnIds /\ Prompt(Last(doc.turns).id) \in Messages
              BY <6>0, DocTypes, Kinds DEF Turns
            <7>2. Answer(q) # Prompt(Last(doc.turns).id)
              BY <7>1, Answers
            <7>3. Spoken(doc) = <<Prompt(Last(doc.turns).id)>> \o Rest(doc.cp)
              BY <6>0 DEF Spoken
            <7>4. <<Prompt(Last(doc.turns).id)>> \in Seq(Messages)
                  /\ Range(<<Prompt(Last(doc.turns).id)>>) = {Prompt(Last(doc.turns).id)}
              BY <7>1, ShortSeqs
            <7>5. doc.cp \in Checkpoints
              BY <6>0, DocTypes
            <7>6. CASE doc.cp.run = 0
              <8>1. Rest(doc.cp) = <<>>
                BY <7>6 DEF Rest
              <8>2. Spoken(doc) = <<Prompt(Last(doc.turns).id)>>
                BY <7>3, <8>1
              <8> HIDE DEF Prompt
              <8> QED BY <6>2, <7>2, <7>4, <8>2
            <7>7. CASE doc.cp.run # 0
              <8>1. Rest(doc.cp) \in Seq(Messages) /\ (Answer(q) \in Range(Rest(doc.cp)) => q = doc.cp.run)
                BY <7>5, <7>7, RestFacts
              <8>2. ASSUME NEW x \in Seq(Messages), NEW y \in Seq(Messages) PROVE Range(x \o y) = Range(x) \union Range(y)
                BY ConcatFacts
              <8>3. Current(doc.cp.run)
                BY <7>7, OwnCheckpoint
              <8> HIDE DEF Prompt, Rest, Current
              <8>4. q = doc.cp.run
                BY <6>2, <7>2, <7>3, <7>4, <8>1, <8>2
              <8> QED BY <3>1, <8>3, <8>4
            <7> QED BY <7>6, <7>7
          <6> QED BY <5>1, <6>1, <6>2
        <5>4. Answer(q) \in Range(History(doc'))
          <6>1. doc.archive \in Seq(Messages)
            BY LogLength, DocTypes
          <6>2. Range(History(doc')) = Range(doc.archive) \union Range(Spoken(file2))
            BY <2>1, <2>4, <6>1, ConcatFacts
          <6> QED BY <5>3, <6>2
        <5>5. i \in DOMAIN doc'.turns /\ doc'.turns[i] = doc.turns[i]
          BY <2>1, <2>5, <5>2
        <5> QED BY <3>1, <5>1, <5>4, <5>5 DEF Done
      <4> QED BY <4>1
    <3>4. gate # q /\ gate' # q
      BY <1>1, <2>12, RunsAssumption DEF RunIds
    <3> HIDE DEF Current, Done, Running
    <3> QED BY <1>9c, <2>3, <3>1, <3>2, <3>3, <3>4 DEF TaskOk
  <2>13. Tasks'
    BY <2>11, <2>12 DEF Tasks
  <2>14. Stored'
    <3>1. StoredOk(r)'
      <4>1. /\ runs'[r].acked = runs[r].acked /\ runs'[r].input = runs[r].input /\ runs[r].acked \in 0..LastStage
            /\ doc.base.input = runs[r].input
        BY <1>3, <1>5, <1>6, <1>7, RunTypes DEF StoredOk
      <4>2. doc'.cp.run = r /\ doc'.cp.rev = runs[r].acked + 1 /\ doc'.base.input = doc.base.input
        BY <2>1, <2>5
      <4>3. runs[r].acked = doc'.cp.rev - 1 /\ doc'.cp.rev > 0
        BY <4>1, <4>2
      <4> HIDE DEF LastTurn
      <4> QED BY <2>8, <4>1, <4>2, <4>3 DEF StoredOk
    <3>2. runs'[r].pc # "unused" /\ runs'[r].turn = LastTurn'.id
      <4>1. LastTurn.id = runs[r].turn
        BY <1>3 DEF Current
      <4> HIDE DEF LastTurn
      <4> QED BY <1>3, <1>9, <2>8, <4>1
    <3>3. \A q \in RunIds : Current(q)' => q = r
      BY <1>8, <2>9
    <3>4. doc'.cp.run = r
      BY <2>1, <2>5
    <3> HIDE DEF LastTurn, Current
    <3> QED BY <3>1, <3>2, <3>3, <3>4 DEF Stored
  <2>15. Denied'
    <3> HIDE DEF Current
    <3> QED BY <1>9, <2>5, <2>9 DEF SessionInv, Denied
  <2>16. Fixed(doc, doc')
    <3>1. ASSUME NEW i \in DOMAIN doc.turns, doc.turns[i].status \in Ended
          PROVE  i \in DOMAIN doc'.turns /\ Settled(doc', i) = Settled(doc, i)
      <4>1. doc \in Docs /\ TurnsFit(doc) /\ Shape(doc) /\ Checked(doc)
        BY LogLength DEF SessionInv, FileInv
      <4>2. /\ DOMAIN doc.turns = 1..n /\ n \in Nat /\ doc.turns[i] \in Turns /\ doc.turns[n] \in Turns
            /\ Last(doc.turns) = doc.turns[n] /\ doc.archive \in Seq(Messages)
        BY <2>1, <2>8, <4>1, DocTypes DEF n
      <4>3. i # n
        <5>1. doc.turns[n].status = "running"
          BY <1>3, <2>8, <4>1, <4>2 DEF Shape
        <5> QED BY <3>1, <5>1 DEF Ended
      <4>4. doc.turns[i].end <= Len(doc.archive)
        BY <2>8, <4>1, <4>2, <4>3 DEF Shape, n
      <4>5. i \in DOMAIN doc'.turns /\ doc'.turns[i] = doc.turns[i]
        BY <2>1, <2>5, <4>3
      <4>6. History(doc) = doc.archive \o Spoken(doc) /\ Spoken(doc) \in Seq(Messages)
        BY <4>1, ShapeRooted, HistoryIs
      <4>7. History(doc') = doc.archive \o Spoken(file2)
        BY <2>1, <2>4
      <4>8. ASSUME NEW s \in Seq(Messages), NEW u \in Seq(Messages), NEW a \in Nat, NEW b \in Nat, a >= 1, b <= Len(s)
            PROVE  SubSeq(s \o u, a, b) = SubSeq(s, a, b)
        BY <4>8, ConcatCut
      <4> DEFINE a == doc.turns[i].start + 1
                 b == doc.turns[i].end
      <4>9. a \in Nat /\ a >= 1 /\ b \in Nat /\ b <= Len(doc.archive)
        BY <4>2, <4>4 DEF Turns
      <4> HIDE DEF a, b
      <4>10. SubSeq(History(doc'), a, b) = SubSeq(doc.archive, a, b) /\ SubSeq(History(doc), a, b) = SubSeq(doc.archive, a, b)
        BY <2>1, <4>2, <4>6, <4>7, <4>8, <4>9
      <4> QED BY <4>5, <4>10 DEF a, b, Settled
    <3> QED BY <3>1 DEF Fixed
  <2> QED BY <2>4, <2>6, <2>7, <2>10, <2>13, <2>14, <2>15, <2>16 DEF SessionInv, FileInv
<1> QED BY <1>1, <1>10, <1>11

-----------------------------------------------------------------------------
(* The invariant, and what it says                                         *)

\* It holds at first.
LEMMA SessionInit == Init => SessionInv
<1> SUFFICES ASSUME Init PROVE SessionInv
  OBVIOUS
<1>0. /\ up = TRUE /\ gate = 0 /\ adm = Idle /\ runs = [r \in RunIds |-> Unused]
      /\ present = FALSE /\ created = FALSE /\ doc = Blank /\ log = <<>> /\ sentOn = [t \in TurnIds |-> 0]
      /\ edits = 0 /\ crashes = 0 /\ faults = 0
  BY DEF Init
<1>1. /\ Blank \in Docs /\ TurnsFit(Blank) /\ Shape(Blank) /\ Checked(Blank) /\ Blank.turns = <<>>
      /\ Blank.cp.run = 0 /\ Blank.archive = <<>>
  BY BlankIs
<1>2. Types
  <2>1. 0 \in 0..MaxRuns /\ Idle \in Admissions /\ <<>> \in Seq(Nat)
    BY RunsAssumption DEF Idle, Admissions
  <2>2. runs \in [RunIds -> RunRecords]
    BY <1>0, UnusedIs
  <2> HIDE DEF Blank, Idle
  <2> QED BY <1>0, <1>1, <2>1, <2>2 DEF Types
<1>3. \A r \in RunIds : runs[r] = Unused /\ runs[r].pc = "unused" /\ runs[r].op = "none" /\ runs[r].report = "none"
                        /\ runs[r].told = "none" /\ runs[r].cancelled = FALSE /\ r # 0
  <2>1. \A r \in RunIds : r # 0
    BY RunsAssumption DEF RunIds
  <2> HIDE DEF Unused
  <2> QED BY <1>0, <2>1, UnusedIs
<1>4. Owned
  <2>1. adm.pc = "idle"
    BY <1>0 DEF Idle
  <2> HIDE DEF Unused, TurnSet, LastTurn
  <2> QED BY <1>0, <1>3, <2>1 DEF Owned
<1>5. Tasks
  <2> HIDE DEF Current, Done, Running
  <2> QED BY <1>0, <1>3 DEF Tasks, TaskOk
<1> HIDE DEF Blank
<1>6. FileInv
  BY <1>0, <1>1 DEF FileInv
<1>7. Logged
  BY <1>0, <1>1 DEF Logged
<1>8. Stored /\ Denied
  <2>1. \A r \in RunIds : ~Current(r)
    BY <1>0 DEF Current
  <2>2. Range(doc.archive) = {}
    BY <1>0, <1>1 DEF Range
  <2> HIDE DEF Current
  <2> QED BY <1>0, <2>1, <2>2 DEF Stored, Denied
<1> QED BY <1>2, <1>4, <1>5, <1>6, <1>7, <1>8 DEF SessionInv

\* A step that changes nothing.
LEMMA SessionStutters == ASSUME SessionInv, UNCHANGED vars PROVE SessionInv' /\ Fixed(doc, doc')
<1>1. /\ UNCHANGED <<file, log, sentOn>> /\ UNCHANGED <<up, gate, adm, runs, edits, crashes, faults>>
  BY DEF vars, process, bounds
<1>2. /\ doc' \in Docs /\ log' \in Seq(Nat) /\ present' = present /\ created' = created
      /\ sentOn' \in [TurnIds -> Nat]
      /\ Kept(doc, doc') /\ FileInv' /\ Logged' /\ Fixed(doc, doc')
  BY <1>1, FileKept
<1>3. Types'
  BY <1>1, <1>2 DEF SessionInv, Types
<1>4. Owned' /\ Tasks' /\ Stored' /\ Denied'
  BY <1>1, <1>2, LogLength, RunsKept
<1> QED BY <1>2, <1>3, <1>4 DEF SessionInv

\* Every step keeps it, and every step that leaves a file keeps its ended turns.
LEMMA SessionStep ==
    ASSUME SessionInv, [Next]_vars
    PROVE  SessionInv' /\ (present' => Fixed(doc, doc'))
<1>1. ASSUME Clients PROVE SessionInv' /\ (present' => Fixed(doc, doc'))
  BY <1>1, DeleteStep, CreateStep, InitializeStep, EditStep, PrepareStep DEF Clients
<1>2. ASSUME Admission PROVE SessionInv' /\ (present' => Fixed(doc, doc'))
  BY <1>2, StartRefusedStep, StartStep, FailStartStep, BindStep DEF Admission
<1>3. ASSUME Process PROVE SessionInv' /\ (present' => Fixed(doc, doc'))
  BY <1>3, CrashStep, OpenStep DEF Process
<1>4. ASSUME NEW r \in RunIds, Task(r) PROVE SessionInv' /\ (present' => Fixed(doc, doc'))
  BY <1>4, WriteStep, AcknowledgedStep, NotAcknowledgedStep DEF Task
<1>5. ASSUME NEW r \in RunIds, Disk(r) PROVE SessionInv' /\ (present' => Fixed(doc, doc'))
  BY <1>5, CommitBeginStep, CommitEndStep DEF Disk
<1>6. ASSUME NEW r \in RunIds, Finalizer(r) PROVE SessionInv' /\ (present' => Fixed(doc, doc'))
  BY <1>6, SettleStep DEF Finalizer
<1> QED BY <1>1, <1>2, <1>3, <1>4, <1>5, <1>6, SessionStutters DEF Next

\* The invariant is one.
LEMMA SessionInvariant == Spec => []SessionInv
<1>1. SessionInv /\ [Next]_vars => SessionInv'
  BY SessionStep
<1> QED BY SessionInit, <1>1, PTL DEF Spec

\* What is in the file of a turn that has a number.
LEMMA DoneFacts ==
    ASSUME SessionInv, NEW r \in RunIds, present, Done(r)
    PROVE  doc.turns[IndexOf(runs[r].turn)].status = "completed" /\ Answer(r) \in Range(History(doc))
<1>1. PICK i \in DOMAIN doc.turns : doc.turns[i].id = runs[r].turn /\ doc.turns[i].status = "completed"
                                    /\ Answer(r) \in Range(History(doc))
  BY DEF Done
<1>2. runs[r].turn \in TurnSet
  BY <1>1 DEF TurnSet
<1>3. i = IndexOf(runs[r].turn)
  BY <1>1, <1>2, IndexIs
<1> QED BY <1>1, <1>3

\* A session that satisfies the invariant is honest.
LEMMA HonestNow == ASSUME SessionInv PROVE SessionHonest
<1>1. Loadable
  <2>1. Loads(doc)
    BY LogLength, ShapeLoads DEF SessionInv, FileInv
  <2>2. ASSUME NEW r \in RunIds, faults = 0 PROVE runs[r].op \notin {"error", "refused"}
    BY <2>2 DEF SessionInv, Tasks, TaskOk
  <2> HIDE DEF Loads
  <2> QED BY <2>1, <2>2 DEF Loadable
<1>2. AckedIsStored
  <2>1. ASSUME NEW r \in RunIds, runs[r].acked > 0, present, LastTurn.id = runs[r].turn
        PROVE  doc.cp.run = r /\ doc.cp.rev >= runs[r].acked
    <3>1. runs[r].pc # "unused"
      BY <2>1, UnusedIs DEF SessionInv, Owned
    <3>2. doc.turns # <<>>
      BY <2>1, <3>1 DEF SessionInv, Owned, TurnSet
    <3>3. Current(r)
      BY <2>1, <3>2 DEF Current
    <3>4. doc.cp.rev \in Nat /\ runs[r].acked \in 0..LastStage
      <4>1. doc.cp \in Checkpoints
        BY LogLength, DocTypes
      <4> QED BY <4>1, RunTypes DEF Checkpoints
    <3> QED BY <2>1, <3>3, <3>4 DEF SessionInv, Stored, StoredOk
  <2>2. ASSUME NEW r \in RunIds, runs[r].told = "completed", present
        PROVE  doc.turns[IndexOf(runs[r].turn)].status = "completed" /\ Answer(r) \in Range(History(doc))
    <3>1. Done(r)
      BY <2>2 DEF SessionInv, Tasks, TaskOk
    <3> QED BY <2>2, <3>1, DoneFacts
  <2> HIDE DEF LastTurn, IndexOf, Answer, History
  <2> QED BY <2>1, <2>2 DEF AckedIsStored
<1>3. EffectNotDenied
  <2>1. ASSUME NEW r \in RunIds, runs[r].acked >= 3 PROVE Outcome(r, "skipped") \notin Range(History(doc))
    <3>1. runs[r].acked \in 0..LastStage
      BY RunTypes
    <3> HIDE DEF Outcome, History
    <3> QED BY <2>1, <3>1, SkippedOnly
  <2> QED BY <2>1 DEF EffectNotDenied
<1>4. SeenBeforeSent
  BY DEF SessionInv, Logged, SeenBeforeSent
<1> QED BY <1>1, <1>2, <1>3, <1>4 DEF SessionHonest

\* The file a session is continued from can be opened, holds what was acknowledged, denies no effect, and
\* every turn in it was sent by someone who had seen the rest (Store::load, commit_with_state, editable,
\* Document::working_history), whatever saves fail, and whenever the process dies.
THEOREM SessionHonestHolds == Spec => []SessionHonest
BY SessionInvariant, HonestNow, PTL

\* No two runs of a session are of one turn.
LEMMA OnceNow == ASSUME SessionInv PROVE OneRunPerTurn
<1>1. \A r \in RunIds : runs[r].pc = "unused" => runs[r].turn = 0
  BY UnusedIs DEF SessionInv, Owned
<1> QED BY <1>1, TurnAssumption DEF OneRunPerTurn, SessionInv, Owned

\* No retry, failed save or restart gives a turn a second run (SessionApplication::start).
THEOREM OneRunPerTurnHolds == Spec => []OneRunPerTurn
BY SessionInvariant, OnceNow, PTL

\* A turn that has ended keeps its status and its messages (Store::prepare_with_context, commit_with_state,
\* finish and recovery at open).
THEOREM EndedTurnsFixedHolds == Spec => EndedTurnsFixed
<1>1. ASSUME SessionInv, [Next]_vars
      PROVE  [present /\ present' =>
                 \A i \in DOMAIN doc.turns : doc.turns[i].status \in Ended =>
                     i \in DOMAIN doc'.turns /\ Settled(doc', i) = Settled(doc, i)]_vars
  <2> HIDE DEF Settled
  <2> QED BY <1>1, SessionStep DEF Fixed
<1> QED BY SessionInvariant, <1>1, PTL DEF Spec, EndedTurnsFixed

\* A nonempty set of naturals has a least element.
LEMMA LeastExists ==
  ASSUME NEW S, S \subseteq Nat, S # {}
  PROVE  \E x \in S : \A y \in S : x <= y
<1> DEFINE R == OpToRel(<, Nat)
<1>1. IsWellFoundedOn(R, Nat)
  BY NatLessThanWellFounded
<1> HIDE DEF R
<1>2. PICK x \in S : \A y \in S : ~ (<<y, x>> \in R)
  BY <1>1, WFMin, Zenon
<1>3. \A a, b \in Nat : a < b => <<a, b>> \in R
  BY DEF R, OpToRel
<1>4. \A y \in S : y \in Nat /\ x \in Nat
  OBVIOUS
<1>5. \A y \in S : ~(y < x)
  BY <1>2, <1>3, <1>4, Zenon
<1>6. \A y \in S : x <= y
  BY <1>4, <1>5, SMT
<1>7. QED
  BY <1>6

\* A set that holds 0 and the successor of each of its elements holds every natural.
LEMMA SetInduction ==
  ASSUME NEW S, 0 \in S, \A n \in Nat : n \in S => n + 1 \in S
  PROVE  Nat \subseteq S
<1> SUFFICES ASSUME Nat \ S # {} PROVE FALSE
  OBVIOUS
<1>1. PICK x \in Nat \ S : \A y \in Nat \ S : x <= y
  BY LeastExists
<1>2. x - 1 \in Nat /\ x - 1 \notin Nat \ S
  BY <1>1
<1>3. (x - 1) + 1 \in S
  BY <1>2
<1> QED
  BY <1>1, <1>3

-----------------------------------------------------------------------------
(* The session among the other stores                                      *)

\* The other stores fail without the session's knowing more than that something failed.
LEMMA ElsewhereStep ==
  ASSUME SessionInv, UNCHANGED sessionVars, faults' \in {faults, faults + 1}
  PROVE  SessionInv'
<1>1. /\ UNCHANGED <<file, log, sentOn>> /\ UNCHANGED <<up, gate, adm, runs, edits, crashes>>
      /\ faults' \in Nat /\ faults' >= faults
  BY LogLength DEF sessionVars, process
<1>2. /\ doc' \in Docs /\ log' \in Seq(Nat) /\ present' = present /\ created' = created
      /\ sentOn' \in [TurnIds -> Nat]
      /\ Kept(doc, doc') /\ FileInv' /\ Logged'
  BY <1>1, FileKept
<1>3. Types'
  BY <1>1, <1>2 DEF SessionInv, Types
<1>4. Owned' /\ Tasks' /\ Stored' /\ Denied'
  BY <1>1, <1>2, RunsKept
<1> QED BY <1>2, <1>3, <1>4 DEF SessionInv

\* A step of another store counts at most one failure.
LEMMA FaultsElsewhere ==
  ASSUME Memory!Next \/ Spill!Next \/ UNCHANGED faults \/ Projects!Next
  PROVE  faults' \in {faults, faults + 1}
<1>1. CASE Memory!Next
  BY <1>1 DEF Memory!Next, Memory!ReadCall, Memory!ApplyCall, Memory!Acquire, Memory!Locked, Memory!Read,
     Memory!Prepare, Memory!Persist, Memory!Sync, Memory!Cancel, Memory!EditedOutside, Memory!Crash,
     Memory!Refuse, Memory!Return
<1>2. CASE Spill!Next
  <2>1. ASSUME NEW r \in Runs, Spill!CleanupFirst(r) \/ Spill!Finish(r) PROVE faults' \in {faults, faults + 1}
    BY <2>1 DEF Spill!CleanupFirst, Spill!Finish, Spill!Cleanup
  <2>2. ASSUME NEW r \in Runs, Spill!Admit(r) \/ Spill!Reserve(r) \/ Spill!Commit(r) \/ Spill!CopyFails(r)
                               \/ Spill!Abandon(r) \/ Spill!Cancel(r)
        PROVE  faults' \in {faults, faults + 1}
    BY <2>2 DEF Spill!Admit, Spill!Reserve, Spill!Commit, Spill!CopyFails, Spill!Abandon, Spill!Cancel
  <2>3. ASSUME NEW r \in Runs, (\E text \in Bodies : Spill!Transform(r, text))
                               \/ (\E fits \in BOOLEAN : Spill!Publish(r, fits))
        PROVE  faults' \in {faults, faults + 1}
    BY <2>3 DEF Spill!Transform, Spill!Publish
  <2>4. CASE \/ \E locator \in published : Spill!Open(locator)
             \/ \E limit \in Spill!PageLimits : Spill!ReadPage(limit)
             \/ Spill!Age \/ Spill!Restart
    BY <2>4 DEF Spill!Open, Spill!ReadPage, Spill!Age, Spill!Restart
  <2> QED BY <1>2, <2>1, <2>2, <2>3, <2>4 DEF Spill!Next
<1>3. CASE Projects!Next
  <2>1. ASSUME NEW listing, Projects!Save(listing) PROVE faults' \in {faults, faults + 1}
    BY <2>1 DEF Projects!Save
  <2>2. ASSUME NEW key, NEW revision, NEW path, Projects!Add(key, revision, path)
        PROVE  faults' \in {faults, faults + 1}
    BY <2>1, <2>2 DEF Projects!Add
  <2>3. ASSUME NEW id, NEW revision, Projects!Remove(id, revision) PROVE faults' \in {faults, faults + 1}
    BY <2>1, <2>3 DEF Projects!Remove
  <2>4. CASE Projects!Close \/ Projects!Open
    BY <2>4 DEF Projects!Close, Projects!Open
  <2> QED BY <1>3, <2>2, <2>3, <2>4 DEF Projects!Next
<1> QED BY <1>1, <1>2, <1>3

\* Failing saves, edits and restarts leave a file that opens and repeat no turn (Store::load,
\* SessionApplication::start), with both an edit and a crash in one behaviour.
THEOREM RecoverableHolds == AllSpec => []Recoverable
<1>1. AllInit => SessionInv
  BY SessionInit DEF AllInit
<1>2. SessionInv /\ [AllNext]_allVars => SessionInv'
  <2> SUFFICES ASSUME SessionInv, [AllNext]_allVars PROVE SessionInv'
    OBVIOUS
  <2>1. \/ Next
        \/ UNCHANGED sessionVars /\ (Memory!Next \/ Spill!Next \/ UNCHANGED faults \/ Projects!Next)
    <3>1. UNCHANGED allVars => UNCHANGED sessionVars /\ UNCHANGED faults
      BY DEF allVars, vars, sessionVars, bounds
    <3> QED BY <3>1 DEF AllNext, Within
  <2> QED BY <2>1, SessionStep, ElsewhereStep, FaultsElsewhere
<1>3. SessionInv => Recoverable
  <2> SUFFICES ASSUME SessionInv PROVE Loadable /\ OneRunPerTurn
    BY DEF Recoverable
  <2> QED BY HonestNow, OnceNow DEF SessionHonest
<1> QED BY <1>1, <1>2, <1>3, PTL DEF AllSpec
-----------------------------------------------------------------------------
(* The projects                                                            *)

Project == [id : Keys \X Nat, path : Paths, request_id : Keys]
Listing == [revision : Nat, projects : SUBSET Project]
Entry == [id : Keys \X Nat, path : Paths]

\* What is listed was shown; the file is the listing or, after a save that failed late, its successor,
\* whose new entry has an id nobody was shown.
ProjectsInv ==
    /\ data \in Listing /\ disk \in Listing /\ seen \subseteq Entry
    /\ Projects!Shown(data) \subseteq seen
    /\ \A p \in seen : p.id[2] <= data.revision
    /\ disk.revision \in {data.revision, data.revision + 1}
    /\ \A p \in Projects!Shown(disk) : p \in seen \/ (p.id[2] = disk.revision /\ disk.revision = data.revision + 1)
    /\ \A p, q \in seen \cup Projects!Shown(disk) : p.id = q.id => p.path = q.path

\* It holds at the start.
LEMMA ProjectsInit == Projects!Init => ProjectsInv
BY DEF Projects!Init, Projects!Empty, Projects!Shown, ProjectsInv, Listing, Entry

\* A listing's entries are entries.
LEMMA ShownIs == \A listing \in Listing : Projects!Shown(listing) \subseteq Entry
BY DEF Projects!Shown, Listing, Project, Entry

\* A save, whichever way it ends, of a listing with at most one new entry.
LEMMA SaveListing ==
    ASSUME ProjectsInv, NEW new \in Listing, new.revision = data.revision + 1, NEW x \in Entry,
           x.id[2] = data.revision + 1, Projects!Shown(new) \subseteq seen \cup {x}, Projects!Save(new)
    PROVE  ProjectsInv'
<1> DEFINE D == Projects!Shown(data)
           K == Projects!Shown(disk)
           N == Projects!Shown(new)
<1>1. /\ data.revision \in Nat /\ disk.revision \in Nat /\ D \subseteq Entry /\ K \subseteq Entry
      /\ D \subseteq seen /\ N \subseteq Entry /\ \A p \in Entry : p.id[2] \in Nat
  BY ShownIs DEF ProjectsInv, Listing, Entry
<1>2. \A p, q \in seen \cup {x} : p.id = q.id => p.path = q.path
  <2>1. \A p \in seen : p.id # x.id
    BY <1>1 DEF ProjectsInv
  <2> QED BY <2>1 DEF ProjectsInv
<1>3. CASE disk' = new /\ data' = new /\ seen' = seen \cup N
  <2>1. Projects!Shown(data)' = N /\ Projects!Shown(disk)' = N
    BY <1>3 DEF Projects!Shown
  <2>2. seen' \cup N \subseteq seen \cup {x}
    BY <1>3
  <2>3. seen' \subseteq Entry /\ \A p \in seen' : p.id[2] <= new.revision
    <3>1. \A p \in seen : p.id[2] <= data.revision /\ p.id[2] \in Nat
      BY <1>1 DEF ProjectsInv
    <3>2. \A p \in seen : p.id[2] <= new.revision
      BY <1>1, <3>1
    <3>3. x.id[2] <= new.revision
      BY <1>1
    <3> QED BY <3>2, <3>3, <2>2, <1>1, <1>3 DEF ProjectsInv
  <2>4. (\A p, q \in seen' \cup N : p.id = q.id => p.path = q.path) /\ N \subseteq seen'
    BY <1>2, <1>3, <2>2
  <2> HIDE DEF N
  <2> QED BY <1>3, <2>1, <2>3, <2>4 DEF ProjectsInv
<1>4. CASE disk' \in {disk, new} /\ UNCHANGED <<data, seen>>
  <2>1. CASE disk' = disk
    <3>1. Projects!Shown(disk)' = K /\ Projects!Shown(data)' = D
      BY <1>4, <2>1 DEF Projects!Shown
    <3> QED BY <1>4, <2>1, <3>1 DEF ProjectsInv
  <2>2. CASE disk' = new
    <3>1. Projects!Shown(disk)' = N /\ Projects!Shown(data)' = D
      BY <1>4, <2>2 DEF Projects!Shown
    <3>2. \A p \in N : p \in seen \/ (p.id[2] = new.revision /\ new.revision = data.revision + 1)
      OBVIOUS
    <3>3. seen \cup N \subseteq seen \cup {x}
      OBVIOUS
    <3> HIDE DEF N, D
    <3> QED BY <1>1, <1>2, <1>4, <2>2, <3>1, <3>2, <3>3 DEF ProjectsInv
  <2> QED BY <1>4, <2>1, <2>2
<1> QED BY <1>3, <1>4 DEF Projects!Save

\* A step of the registry.
LEMMA ProjectsStep == ASSUME ProjectsInv, Projects!Next PROVE ProjectsInv'
<1>1. ASSUME NEW revision \in 0..MaxChanges, NEW key \in Keys, NEW path \in Paths, Projects!Add(key, revision, path)
      PROVE  ProjectsInv'
  <2> DEFINE id == <<key, revision + 1>>
             x == [id |-> id, path |-> path]
             p == [id |-> id, path |-> path, request_id |-> key]
             new == [revision |-> revision + 1, projects |-> data.projects \cup {p}]
  <2>1. data.revision = revision /\ Projects!Save(new)
    BY <1>1 DEF Projects!Add, Projects!ProjectId
  <2>2. x \in Entry /\ x.id[2] = data.revision + 1 /\ p \in Project
    BY <2>1 DEF ProjectsInv, Listing, Entry, Project
  <2>3. new \in Listing /\ new.revision = data.revision + 1
    BY <2>1, <2>2 DEF ProjectsInv, Listing
  <2>4. Projects!Shown(new) \subseteq seen \cup {x}
    <3>1. ASSUME NEW q \in data.projects \cup {p}
          PROVE  [id |-> q.id, path |-> q.path] \in Projects!Shown(data) \cup {x}
      BY DEF Projects!Shown
    <3>2. Projects!Shown(new) \subseteq Projects!Shown(data) \cup {x}
      BY <3>1 DEF Projects!Shown
    <3> QED BY <3>2 DEF ProjectsInv
  <2> HIDE DEF x, new
  <2> QED BY <2>1, <2>2, <2>3, <2>4, SaveListing
<1>2. ASSUME NEW revision \in 0..MaxChanges, NEW r \in data.projects, Projects!Remove(r.id, revision)
      PROVE  ProjectsInv'
  <2> DEFINE x == [id |-> <<r.request_id, revision + 1>>, path |-> r.path]
             new == [revision |-> revision + 1, projects |-> {p \in data.projects : p.id # r.id}]
  <2>1. data.revision = revision /\ Projects!Save(new)
    BY <1>2 DEF Projects!Remove
  <2>2. x \in Entry /\ x.id[2] = data.revision + 1
    BY <2>1 DEF ProjectsInv, Listing, Entry, Project
  <2>3. new \in Listing /\ new.revision = data.revision + 1
    BY <2>1 DEF ProjectsInv, Listing
  <2>4. Projects!Shown(new) \subseteq seen \cup {x}
    <3>1. Projects!Shown(new) \subseteq Projects!Shown(data)
      BY DEF Projects!Shown
    <3> QED BY <3>1 DEF ProjectsInv
  <2> HIDE DEF x, new
  <2> QED BY <2>1, <2>2, <2>3, <2>4, SaveListing
<1>3. CASE Projects!Close
  <2>1. UNCHANGED <<data, disk, seen>> /\ Projects!Shown(disk)' = Projects!Shown(disk)
        /\ Projects!Shown(data)' = Projects!Shown(data)
    BY <1>3 DEF Projects!Close, Projects!Shown
  <2> QED BY <2>1 DEF ProjectsInv
<1>4. CASE Projects!Open
  <2>1. /\ data' = disk /\ disk' = disk /\ seen' = seen \cup Projects!Shown(disk)
        /\ Projects!Shown(disk)' = Projects!Shown(disk) /\ Projects!Shown(data)' = Projects!Shown(disk)
    BY <1>4 DEF Projects!Open, Projects!Shown
  <2>2. \A p \in seen' : p \in Entry /\ p.id[2] <= disk.revision
    <3>1. data.revision \in Nat /\ disk.revision \in Nat /\ \A p \in seen : p.id[2] \in Nat
      BY DEF ProjectsInv, Listing, Entry
    <3>2. \A p \in seen : p \in Entry /\ p.id[2] <= disk.revision
      BY <3>1 DEF ProjectsInv
    <3>3. \A p \in Projects!Shown(disk) : p \in Entry /\ p.id[2] <= disk.revision
      BY <3>1, <3>2, ShownIs DEF ProjectsInv
    <3> QED BY <2>1, <3>2, <3>3
  <2>3. /\ \A p, q \in seen' \cup Projects!Shown(disk) : p.id = q.id => p.path = q.path
        /\ Projects!Shown(disk) \subseteq seen'
    BY <2>1 DEF ProjectsInv
  <2>4. disk \in Listing /\ seen' \subseteq Entry
    BY <2>2 DEF ProjectsInv
  <2> HIDE DEF Entry, Listing
  <2> QED BY <2>1, <2>2, <2>3, <2>4 DEF ProjectsInv
<1> QED BY <1>1, <1>2, <1>3, <1>4 DEF Projects!Next

\* A project id that was ever listed names one directory for ever (Registry::add, remove and save).
THEOREM IdentityStableHolds == AllSpec => []IdentityStable
<1>1. AllInit => ProjectsInv
  BY ProjectsInit DEF AllInit
<1>2. ProjectsInv /\ [AllNext]_allVars => ProjectsInv'
  <2> SUFFICES ASSUME ProjectsInv, [AllNext]_allVars PROVE ProjectsInv'
    OBVIOUS
  <2>1. Projects!Next \/ UNCHANGED projectVars
    BY DEF AllNext, allVars, Within
  <2>2. CASE UNCHANGED projectVars
    <3>1. UNCHANGED <<data, disk, seen>> /\ Projects!Shown(disk)' = Projects!Shown(disk)
          /\ Projects!Shown(data)' = Projects!Shown(data)
      BY <2>2 DEF projectVars, Projects!Shown
    <3> QED BY <3>1 DEF ProjectsInv
  <2> QED BY <2>1, <2>2, ProjectsStep
<1>3. ProjectsInv => IdentityStable
  BY DEF ProjectsInv, IdentityStable, Projects!IdentityStable
<1> QED BY <1>1, <1>2, <1>3, PTL DEF AllSpec
-----------------------------------------------------------------------------
(* The search index                                                        *)

DocFields == {"revision", "scope", "messages"}
IsDocument(d) == d = [f \in DocFields |-> d[f]] /\ d.revision \in Nat
ViewFields == {"at", "term", "stamps", "existing", "todo", "hits"}

\* The types the proof needs; a document that exists has a revision.
SearchTypes ==
    /\ DOMAIN docs = Sessions
    /\ \A s \in Sessions : IsDocument(docs[s]) /\ (docs[s] # SearchIndex!Gone => docs[s].revision # 0)
    /\ DOMAIN rows = Sessions /\ catalog \in [Sessions -> Nat]

\* A row set is stamped with its document's revision, or an earlier one.
Stamped ==
    /\ \A s \in Sessions : docs[s] # SearchIndex!Gone => catalog[s] <= docs[s].revision
    /\ SearchIndex!IndexHonest

\* A search's view of the sessions is no newer than they are.
View(v) ==
    /\ v = [f \in ViewFields |-> v[f]]
    /\ DOMAIN v.stamps \subseteq Sessions /\ DOMAIN v.stamps \subseteq v.existing /\ v.todo \subseteq DOMAIN v.stamps
    /\ \A s \in DOMAIN v.stamps :
        /\ v.stamps[s] \in Nat \ {0}
        /\ docs[s] # SearchIndex!Gone => v.stamps[s] <= docs[s].revision

\* What a query finds in these rows.
Found(contents, term, ss) == UNION {{<<s, i>> : i \in SearchIndex!Matches(contents[s], term)} : s \in ss}

\* A search in progress has indexed what it no longer has to do; its hits are those of the rows.
Searching ==
    CASE search.at = "index" -> View(search) /\ \A s \in DOMAIN search.stamps \ search.todo : catalog[s] = search.stamps[s]
      [] search.at = "hits" ->
            /\ View(search) /\ \A s \in DOMAIN search.stamps : catalog[s] = search.stamps[s]
            /\ search.hits = Found(rows, search.term, DOMAIN search.stamps)
      [] search.at = "page" -> SearchIndex!PageCurrent
      [] OTHER -> search = SearchIndex!Idle

SearchInv == SearchTypes /\ Stamped /\ Searching

\* A search that has ended says nothing.
LEMMA IdleSearch == ASSUME search' = SearchIndex!Idle PROVE Searching'
BY DEF Searching, SearchIndex!Idle

\* It holds at the start.
LEMMA SearchInit == SearchIndex!Init => SearchInv
<1> SUFFICES ASSUME SearchIndex!Init PROVE SearchInv
  OBVIOUS
<1>1. SearchTypes
  <2>1. \A s \in Sessions : docs[s] = [revision |-> 1, scope |-> TRUE, messages |-> <<>>]
    BY DEF SearchIndex!Init
  <2>2. \A s \in Sessions : IsDocument(docs[s]) /\ docs[s].revision = 1
    BY <2>1 DEF IsDocument, DocFields
  <2> QED BY <2>2 DEF SearchIndex!Init, SearchTypes
<1>2. Stamped
  BY DEF SearchIndex!Init, Stamped, SearchIndex!IndexHonest
<1>3. Searching
  BY DEF SearchIndex!Init, Searching, SearchIndex!Idle
<1> QED BY <1>1, <1>2, <1>3 DEF SearchInv

\* A commit: the revision moves past every stamp.
LEMMA CommitDocument == ASSUME SearchInv, NEW s \in Sessions, SearchIndex!Commit(s) PROVE SearchInv'
<1>1. UNCHANGED <<rows, catalog, search>> /\ docs[s] # SearchIndex!Gone /\ DOMAIN docs = Sessions
  BY DEF SearchIndex!Commit, SearchInv, SearchTypes
<1>2. PICK d : /\ docs' = [docs EXCEPT ![s] = d] /\ IsDocument(d)
               /\ d # SearchIndex!Gone => d.revision = docs[s].revision + 1
               /\ d = SearchIndex!Gone \/ d.revision # 0
  <2>0. IsDocument(docs[s]) /\ docs[s].revision \in Nat
    BY DEF SearchInv, SearchTypes, IsDocument
  <2>1. ASSUME NEW e, docs' = [docs EXCEPT ![s] = e], e = [f \in DocFields |-> e[f]], e.revision = docs[s].revision + 1
        PROVE  \E d : docs' = [docs EXCEPT ![s] = d] /\ IsDocument(d) /\ d.revision = docs[s].revision + 1
    <3>1. IsDocument(e)
      BY <2>0, <2>1 DEF IsDocument
    <3> QED BY <2>1, <3>1
  <2>2. ASSUME NEW m, docs' = [docs EXCEPT ![s].revision = @ + 1, ![s].messages = Append(@, m)]
        PROVE  \E d : docs' = [docs EXCEPT ![s] = d] /\ IsDocument(d) /\ d.revision = docs[s].revision + 1
    <3> DEFINE e == [docs[s] EXCEPT !.revision = @ + 1, !.messages = Append(@, m)]
    <3>1. e = [f \in DocFields |-> e[f]] /\ e.revision = docs[s].revision + 1
      BY <2>0 DEF IsDocument, DocFields
    <3>2. docs' = [docs EXCEPT ![s] = e]
      BY <2>2, <1>1
    <3> HIDE DEF e
    <3> QED BY <2>1, <3>1, <3>2
  <2>3. ASSUME docs' = [docs EXCEPT ![s].revision = @ + 1, ![s].scope = ~@]
        PROVE  \E d : docs' = [docs EXCEPT ![s] = d] /\ IsDocument(d) /\ d.revision = docs[s].revision + 1
    <3> DEFINE e == [docs[s] EXCEPT !.revision = @ + 1, !.scope = ~@]
    <3>1. e = [f \in DocFields |-> e[f]] /\ e.revision = docs[s].revision + 1
      BY <2>0 DEF IsDocument, DocFields
    <3>2. docs' = [docs EXCEPT ![s] = e]
      BY <2>3, <1>1
    <3> HIDE DEF e
    <3> QED BY <2>1, <3>1, <3>2
  <2>4. IsDocument(SearchIndex!Gone) /\ docs[s].revision + 1 # 0
    BY <2>0 DEF SearchIndex!Gone, IsDocument, DocFields
  <2> QED BY <2>2, <2>3, <2>4 DEF SearchIndex!Commit
<1>3. DOMAIN docs' = Sessions /\ docs'[s] = d /\ \A q \in Sessions : q # s => docs'[q] = docs[q]
  BY <1>1, <1>2 DEF SearchInv, SearchTypes
<1>4. SearchTypes'
  BY <1>1, <1>2, <1>3 DEF SearchInv, SearchTypes
<1>5. catalog[s] \in Nat /\ docs[s].revision \in Nat /\ catalog[s] <= docs[s].revision /\ d.revision \in Nat
  BY <1>1, <1>2 DEF SearchInv, SearchTypes, Stamped, IsDocument
<1>6. catalog[s] <= docs[s].revision + 1 /\ catalog[s] # docs[s].revision + 1
  BY <1>5
<1>7. d = SearchIndex!Gone => d.revision = 0
  BY DEF SearchIndex!Gone
<1>8. Stamped'
  BY <1>1, <1>2, <1>3, <1>5, <1>6, <1>7 DEF SearchInv, Stamped, SearchIndex!IndexHonest
<1>9. ASSUME View(search) PROVE View(search)'
  <2>1. ASSUME NEW q \in DOMAIN search.stamps, docs'[q] # SearchIndex!Gone
        PROVE  search.stamps[q] <= docs'[q].revision
    <3>1. CASE q = s
      <4>1. search.stamps[q] \in Nat /\ search.stamps[q] <= docs[s].revision
        BY <1>1, <1>9, <3>1 DEF View
      <4> QED BY <1>2, <1>3, <1>5, <2>1, <3>1, <4>1
    <3>2. CASE q # s
      BY <1>3, <1>9, <2>1, <3>2 DEF View
    <3> QED BY <3>1, <3>2
  <2> QED BY <1>1, <1>9, <2>1 DEF View
<1>10. Searching'
  BY <1>1, <1>9 DEF SearchInv, Searching, SearchIndex!PageCurrent
<1> QED BY <1>4, <1>8, <1>10 DEF SearchInv

\* The view a search takes.
LEMMA TakeView == ASSUME SearchInv, NEW term \in Terms, SearchIndex!View(term) PROVE SearchInv'
<1> DEFINE E == SearchIndex!Existing
           A == SearchIndex!Allowed(E)
           v == [at |-> "index", term |-> term, stamps |-> SearchIndex!Stamps, existing |-> E, todo |-> A, hits |-> {}]
<1>1. search' = v /\ UNCHANGED <<docs, rows, catalog>>
  BY DEF SearchIndex!View
<1>2. SearchTypes' /\ Stamped'
  BY <1>1 DEF SearchInv, SearchTypes, Stamped, SearchIndex!IndexHonest
<1>3. A \subseteq E /\ E \subseteq Sessions /\ \A s \in E : docs[s] # SearchIndex!Gone
  BY DEF SearchIndex!Allowed, SearchIndex!Existing
<1>4. DOMAIN SearchIndex!Stamps = A /\ \A s \in A : SearchIndex!Stamps[s] = docs[s].revision
  BY DEF SearchIndex!Stamps
<1>5. \A s \in A : docs[s].revision \in Nat \ {0}
  BY <1>3 DEF SearchInv, SearchTypes, IsDocument
<1>6. v = [f \in ViewFields |-> v[f]]
  BY DEF ViewFields
<1>7. v.at = "index" /\ v.stamps = SearchIndex!Stamps /\ v.existing = E /\ v.todo = A
  OBVIOUS
<1> HIDE DEF v, E, A
<1>8. View(search)'
  BY <1>1, <1>3, <1>4, <1>5, <1>6, <1>7 DEF View
<1>9. Searching'
  BY <1>1, <1>4, <1>7, <1>8 DEF Searching
<1> QED BY <1>2, <1>9 DEF SearchInv

\* Pruning touches no session of the view; indexing brings one up to its stamp.
LEMMA IndexStep ==
    ASSUME SearchInv, NEW s \in Sessions, SearchIndex!Prune(s) \/ SearchIndex!Index(s) PROVE SearchInv'
<1>1. search.at = "index" /\ View(search) /\ \A q \in DOMAIN search.stamps \ search.todo : catalog[q] = search.stamps[q]
  BY DEF SearchInv, Searching, SearchIndex!Prune, SearchIndex!Index
<1>2. CASE SearchIndex!Prune(s)
  <2>1. /\ rows' = [rows EXCEPT ![s] = <<>>] /\ catalog' = [catalog EXCEPT ![s] = 0]
        /\ UNCHANGED <<docs, search>> /\ s \notin DOMAIN search.stamps
    BY <1>1, <1>2 DEF SearchIndex!Prune, View
  <2>2. SearchTypes'
    BY <2>1 DEF SearchInv, SearchTypes
  <2>3. \A q \in Sessions : IF q = s THEN catalog'[q] = 0 ELSE catalog'[q] = catalog[q] /\ rows'[q] = rows[q]
    BY <2>1 DEF SearchInv, SearchTypes
  <2>4. \A q \in Sessions : docs[q].revision \in Nat
    BY DEF SearchInv, SearchTypes, IsDocument
  <2>5. Stamped'
    BY <2>1, <2>3, <2>4 DEF SearchInv, Stamped, SearchIndex!IndexHonest
  <2>6. View(search)' /\ \A q \in DOMAIN search.stamps \ search.todo : catalog'[q] = search.stamps[q]
    BY <1>1, <2>1, <2>3 DEF View
  <2>7. Searching'
    BY <1>1, <2>1, <2>6 DEF Searching
  <2> QED BY <2>2, <2>5, <2>7 DEF SearchInv
<1>3. CASE SearchIndex!Index(s) /\ search' = SearchIndex!Idle
  <2>1. UNCHANGED <<docs, rows, catalog>>
    <3>1. search' # [search EXCEPT !.todo = @ \ {s}]
      <4>1. [search EXCEPT !.todo = @ \ {s}].at = "index"
        BY <1>1 DEF View, ViewFields
      <4> QED BY <4>1, <1>3 DEF SearchIndex!Idle
    <3> QED BY <1>3, <3>1 DEF SearchIndex!Index, SearchIndex!Error
  <2> QED BY <1>3, <2>1, IdleSearch DEF SearchInv, SearchTypes, Stamped, SearchIndex!IndexHonest
<1>4. CASE SearchIndex!Index(s) /\ search' # SearchIndex!Idle
  <2> DEFINE v == [search EXCEPT !.todo = @ \ {s}]
  <2>1. /\ search' = v /\ docs' = docs /\ s \in search.todo
        /\ \/ catalog[s] = search.stamps[s] /\ UNCHANGED <<rows, catalog>>
           \/ /\ docs[s] # SearchIndex!Gone /\ rows' = [rows EXCEPT ![s] = docs[s].messages]
              /\ catalog' = [catalog EXCEPT ![s] = search.stamps[s]]
    BY <1>4 DEF SearchIndex!Index, SearchIndex!Error
  <2>2. /\ v = [f \in ViewFields |-> v[f]] /\ v.at = "index" /\ v.stamps = search.stamps /\ v.existing = search.existing
        /\ v.todo = search.todo \ {s}
    BY <1>1 DEF View, ViewFields
  <2>3. s \in DOMAIN search.stamps /\ search.stamps[s] \in Nat
    BY <1>1, <2>1 DEF View
  <2>4. SearchTypes'
    BY <2>1, <2>3 DEF SearchInv, SearchTypes
  <2>5. \A q \in Sessions : q # s => catalog'[q] = catalog[q] /\ rows'[q] = rows[q]
    BY <2>1 DEF SearchInv, SearchTypes
  <2>6. catalog'[s] = search.stamps[s]
    BY <2>1 DEF SearchInv, SearchTypes
  <2>7. Stamped'
    <3>1. CASE UNCHANGED <<rows, catalog>>
      BY <2>1, <3>1 DEF SearchInv, Stamped, SearchIndex!IndexHonest
    <3>2. CASE docs[s] # SearchIndex!Gone /\ rows' = [rows EXCEPT ![s] = docs[s].messages]
      <4>1. search.stamps[s] <= docs[s].revision /\ rows'[s] = docs[s].messages
        BY <1>1, <2>3, <3>2 DEF View, SearchInv, SearchTypes
      <4> QED BY <2>1, <2>5, <2>6, <4>1 DEF SearchInv, Stamped, SearchIndex!IndexHonest
    <3> QED BY <2>1, <3>1, <3>2
  <2> HIDE DEF v
  <2>8. View(search)'
    BY <1>1, <2>1, <2>2 DEF View
  <2>9. \A q \in DOMAIN v.stamps \ v.todo : catalog'[q] = v.stamps[q]
    BY <1>1, <2>2, <2>5, <2>6 DEF View
  <2>10. Searching'
    BY <2>1, <2>2, <2>8, <2>9 DEF Searching
  <2> QED BY <2>4, <2>7, <2>10 DEF SearchInv
<1> QED BY <1>2, <1>3, <1>4

\* The query, the second look at each hit, the confirmation and every end of a search.
LEMMA SearchStep == ASSUME SearchInv, SearchIndex!Next PROVE SearchInv'
<1>1. ASSUME NEW s \in Sessions, SearchIndex!Commit(s) \/ SearchIndex!Prune(s) \/ SearchIndex!Index(s) PROVE SearchInv'
  BY <1>1, CommitDocument, IndexStep
<1>2. ASSUME NEW term \in Terms, SearchIndex!View(term) PROVE SearchInv'
  BY <1>2, TakeView
<1>3. ASSUME UNCHANGED <<docs, rows, catalog>>, Searching' PROVE SearchInv'
  BY <1>3 DEF SearchInv, SearchTypes, Stamped, SearchIndex!IndexHonest
<1>4. ASSUME SearchIndex!Error PROVE SearchInv'
  BY <1>3, <1>4, IdleSearch DEF SearchIndex!Error
<1>5. CASE SearchIndex!Query
  <2> DEFINE h == Found(rows, search.term, DOMAIN search.stamps)
             left == {s \in DOMAIN search.stamps : SearchIndex!Matches(rows[s], search.term) # {}}
             v == [search EXCEPT !.at = "hits", !.hits = h, !.todo = left]
  <2>1. /\ search.at = "index" /\ View(search) /\ UNCHANGED <<docs, rows, catalog>>
        /\ \A s \in DOMAIN search.stamps : catalog[s] = search.stamps[s]
    BY <1>5 DEF SearchInv, Searching, SearchIndex!Query
  <2>2. search' = v
    BY <1>5 DEF SearchIndex!Query, Found
  <2>3. /\ v = [f \in ViewFields |-> v[f]] /\ v.at = "hits" /\ v.stamps = search.stamps /\ v.existing = search.existing
        /\ v.todo = left /\ v.hits = h /\ v.term = search.term
    BY <2>1 DEF View, ViewFields
  <2> HIDE DEF v
  <2>4. View(search)'
    BY <2>1, <2>2, <2>3 DEF View
  <2>5. \A s \in DOMAIN v.stamps : catalog'[s] = v.stamps[s]
    BY <2>1, <2>3
  <2>6. v.hits = Found(rows', v.term, DOMAIN v.stamps)
    BY <2>1, <2>3
  <2> HIDE DEF h, left
  <2>7. Searching'
    BY <2>2, <2>3, <2>4, <2>5, <2>6 DEF Searching
  <2> QED BY <1>3, <2>1, <2>7
<1>6. ASSUME NEW s \in Sessions, SearchIndex!Hit(s), ~SearchIndex!Error PROVE SearchInv'
  <2> DEFINE v == [search EXCEPT !.todo = @ \ {s}]
  <2>1. /\ search.at = "hits" /\ View(search) /\ UNCHANGED <<docs, rows, catalog>> /\ search' = v
        /\ \A q \in DOMAIN search.stamps : catalog[q] = search.stamps[q]
        /\ search.hits = Found(rows, search.term, DOMAIN search.stamps)
    BY <1>6 DEF SearchInv, Searching, SearchIndex!Hit
  <2>2. /\ v = [f \in ViewFields |-> v[f]] /\ v.at = "hits" /\ v.stamps = search.stamps /\ v.existing = search.existing
        /\ v.todo = search.todo \ {s} /\ v.hits = search.hits /\ v.term = search.term
    BY <2>1 DEF View, ViewFields
  <2> HIDE DEF v
  <2>3. View(search)'
    BY <2>1, <2>2 DEF View
  <2>4. Searching'
    BY <2>1, <2>2, <2>3 DEF Searching
  <2> QED BY <1>3, <2>1, <2>4
<1>7. CASE SearchIndex!Confirm /\ ~SearchIndex!Error
  <2> DEFINE v == [at |-> "page", term |-> search.term, hits |-> search.hits, docs |-> docs]
             A == DOMAIN search.stamps
  <2>1. /\ search.at = "hits" /\ View(search) /\ UNCHANGED <<docs, rows, catalog>> /\ search' = v
        /\ \A q \in A : catalog[q] = search.stamps[q]
        /\ search.hits = Found(rows, search.term, A)
        /\ SearchIndex!Stamps = search.stamps
    BY <1>7 DEF SearchInv, Searching, SearchIndex!Confirm
  <2>2. A = SearchIndex!Allowed(SearchIndex!Existing) /\ \A q \in A : search.stamps[q] = docs[q].revision
    <3>1. /\ DOMAIN SearchIndex!Stamps = SearchIndex!Allowed(SearchIndex!Existing)
          /\ \A q \in SearchIndex!Allowed(SearchIndex!Existing) : SearchIndex!Stamps[q] = docs[q].revision
      BY DEF SearchIndex!Stamps
    <3> HIDE DEF SearchIndex!Stamps
    <3> QED BY <2>1, <3>1
  <2>3. A = {q \in Sessions : docs[q].scope}
    BY <2>2 DEF SearchIndex!Allowed, SearchIndex!Existing, SearchIndex!Gone
  <2>4. \A q \in A : rows[q] = docs[q].messages
    BY <2>1, <2>2, <2>3 DEF View, SearchInv, Stamped, SearchIndex!IndexHonest
  <2>5. v.hits = UNION {{<<q, i>> : i \in SearchIndex!Matches(v.docs[q].messages, v.term)} : q \in {q \in Sessions : v.docs[q].scope}}
    <3>1. search.hits = UNION {{<<q, i>> : i \in SearchIndex!Matches(docs[q].messages, search.term)} : q \in A}
      BY <2>1, <2>4 DEF Found
    <3> QED BY <2>3, <3>1
  <2>6. v.at = "page"
    OBVIOUS
  <2> HIDE DEF v
  <2>7. Searching'
    BY <2>1, <2>5, <2>6 DEF Searching, SearchIndex!PageCurrent
  <2> QED BY <1>3, <2>1, <2>7
<1>8. CASE SearchIndex!Leave
  BY <1>4, <1>8 DEF SearchIndex!Leave
<1> QED BY <1>1, <1>2, <1>4, <1>5, <1>6, <1>7, <1>8 DEF SearchIndex!Next

\* A page is the answer for the sessions as they were when it was returned, and the index skips nothing
\* that has changed (HistorySearch::search, prune and the second look at the stamps).
THEOREM SearchExactHolds == AllSpec => []SearchExact
<1>1. AllInit => SearchInv
  BY SearchInit DEF AllInit
<1>2. SearchInv /\ [AllNext]_allVars => SearchInv'
  <2> SUFFICES ASSUME SearchInv, [AllNext]_allVars PROVE SearchInv'
    OBVIOUS
  <2>1. SearchIndex!Next \/ UNCHANGED searchVars
    BY DEF AllNext, allVars, Within
  <2>2. CASE UNCHANGED searchVars
    <3>1. UNCHANGED <<docs, rows, catalog, search>>
      BY <2>2 DEF searchVars
    <3>2. View(search)' = View(search)
      BY <3>1 DEF View
    <3>3. Searching'
      BY <3>1, <3>2 DEF SearchInv, Searching, SearchIndex!PageCurrent
    <3> QED BY <3>1, <3>3 DEF SearchInv, SearchTypes, Stamped, SearchIndex!IndexHonest
  <2> QED BY <2>1, <2>2, SearchStep
<1>3. SearchInv => SearchExact
  <2> SUFFICES ASSUME SearchInv PROVE SearchExact
    OBVIOUS
  <2>1. search.at = "page" => SearchIndex!PageCurrent
    BY DEF SearchInv, Searching
  <2>2. search.at # "page" => SearchIndex!PageCurrent
    BY DEF SearchIndex!PageCurrent
  <2> QED BY <2>1, <2>2 DEF SearchInv, Stamped, SearchExact, SearchIndex!SearchExact
<1> QED BY <1>1, <1>2, <1>3, PTL DEF AllSpec

-----------------------------------------------------------------------------
(* Memory                                                                  *)

Fact == [id : Nat, text : Texts, origin : MemoryClients]
Document == [next_id : Nat, entries : Seq(Fact)]

\* The document b came after a: what b has and a has not bears an id a had not handed out.
Follows(a, b) ==
    /\ a.next_id <= b.next_id
    /\ \A j \in DOMAIN b.entries : b.entries[j].id < a.next_id =>
            \E i \in DOMAIN a.entries : a.entries[i].id = b.entries[j].id

\* Documents follow one another in a line.
LEMMA FollowsOn ==
  /\ \A a \in Document : Follows(a, a)
  /\ \A a, b, c \in Document : Follows(a, b) /\ Follows(b, c) => Follows(a, c)
<1>1. ASSUME NEW a \in Document PROVE Follows(a, a)
  BY DEF Follows, Document
<1>2. ASSUME NEW a \in Document, NEW b \in Document, NEW c \in Document, Follows(a, b), Follows(b, c)
      PROVE  Follows(a, c)
  <2>1. a.next_id \in Nat /\ b.next_id \in Nat /\ c.next_id \in Nat
    BY DEF Document
  <2>2. ASSUME NEW j \in DOMAIN c.entries, c.entries[j].id < a.next_id
        PROVE  \E i \in DOMAIN a.entries : a.entries[i].id = c.entries[j].id
    <3>1. c.entries[j].id \in Nat
      <4>1. c.entries \in Seq(Fact) /\ j \in 1..Len(c.entries)
        BY <2>2 DEF Document
      <4>2. c.entries[j] \in Fact
        BY <4>1
      <4> QED BY <4>2 DEF Fact
    <3>2. PICK k \in DOMAIN b.entries : b.entries[k].id = c.entries[j].id
      BY <1>2, <2>1, <2>2, <3>1 DEF Follows
    <3>3. PICK i \in DOMAIN a.entries : a.entries[i].id = b.entries[k].id
      BY <1>2, <2>2, <3>2 DEF Follows
    <3> QED BY <3>2, <3>3
  <2> QED BY <1>2, <2>1, <2>2 DEF Follows
<1> QED BY <1>1, <1>2

\* The three values in place of a document are none, and an empty file is one.
LEMMA NoDocument ==
  /\ Memory!Broken \notin Document /\ Memory!Nothing \notin Document /\ Memory!Failed \notin Document
  /\ Memory!Nothing # Memory!Broken /\ Memory!Empty \in Document
BY DEF Memory!Broken, Memory!Nothing, Memory!Failed, Memory!Empty, Document

\* IndexOf finds an entry of the id it is asked for, or none.
LEMMA IndexOfIs ==
  ASSUME NEW d \in Document, NEW id
  PROVE  /\ Memory!IndexOf(d, id) \in 0..Len(d.entries)
         /\ Memory!IndexOf(d, id) # 0 => d.entries[Memory!IndexOf(d, id)].id = id
<1> DEFINE I == {i \in 1..Len(d.entries) : d.entries[i].id = id}
           least == CHOOSE x \in I : \A y \in I : x =< y
<1>1. Memory!IndexOf(d, id) = IF I # {} THEN least ELSE 0
  BY DEF Memory!IndexOf, Memory!SelectInSeq, Memory!Min
<1>2. d.entries \in Seq(Fact) /\ Len(d.entries) \in Nat
  BY DEF Document
<1>3. CASE I # {}
  <2>1. \E x \in I : \A y \in I : x =< y
    <3>1. I \subseteq Nat
      BY <1>2
    <3> HIDE DEF I
    <3> QED BY <3>1, <1>3, LeastExists
  <2>2. least \in I
    BY <2>1
  <2> HIDE DEF least
  <2> QED BY <1>1, <1>2, <1>3, <2>2
<1>4. CASE I = {}
  BY <1>1, <1>2, <1>4
<1> QED BY <1>3, <1>4

\* Removing an element of a sequence leaves the others.
LEMMA RemoveAtIs ==
  ASSUME NEW S, NEW s \in Seq(S), NEW i \in 1..Len(s)
  PROVE  /\ Memory!RemoveAt(s, i) \in Seq(S)
         /\ \A j \in DOMAIN Memory!RemoveAt(s, i) : \E k \in DOMAIN s : Memory!RemoveAt(s, i)[j] = s[k]
<1> DEFINE a == SubSeq(s, 1, i - 1)
           b == SubSeq(s, i + 1, Len(s))
<1>1. Memory!RemoveAt(s, i) = a \o b
  BY DEF Memory!RemoveAt
<1>2. /\ a \in Seq(S) /\ Len(a) = i - 1 /\ \A j \in 1..Len(a) : a[j] = s[j]
      /\ b \in Seq(S) /\ Len(b) = Len(s) - i /\ \A j \in 1..Len(b) : b[j] = s[i + j]
  <2>1. Len(s) \in Nat /\ i - 1 \in 0..Len(s) /\ i + 1 \in 1..(Len(s) + 1)
    OBVIOUS
  <2>2. a \in Seq(S) /\ Len(a) = i - 1 /\ \A j \in 1..Len(a) : a[j] = s[j]
    BY <2>1, SubSeqProperties
  <2>3. b \in Seq(S) /\ Len(b) = Len(s) - i /\ \A j \in 1..Len(b) : b[j] = s[i + j]
    BY <2>1, SubSeqProperties
  <2> QED BY <2>2, <2>3
<1> HIDE DEF a, b
<1>3. /\ a \o b \in Seq(S) /\ Len(a \o b) = Len(a) + Len(b)
      /\ \A j \in 1..(Len(a) + Len(b)) : (a \o b)[j] = IF j <= Len(a) THEN a[j] ELSE b[j - Len(a)]
  BY <1>2, ConcatProperties
<1>4. ASSUME NEW j \in DOMAIN (a \o b) PROVE \E k \in DOMAIN s : (a \o b)[j] = s[k]
  <2>1. j \in 1..(Len(a) + Len(b)) /\ Len(a) = i - 1 /\ Len(b) = Len(s) - i /\ Len(s) \in Nat
    BY <1>2, <1>3
  <2>2. CASE j <= Len(a)
    <3>1. j \in 1..Len(a) /\ j \in 1..Len(s)
      BY <2>1, <2>2
    <3> QED BY <1>2, <1>3, <2>1, <2>2, <3>1
  <2>3. CASE ~(j <= Len(a))
    <3>1. j - Len(a) \in 1..Len(b) /\ i + (j - Len(a)) \in 1..Len(s)
      BY <2>1, <2>3
    <3>2. (a \o b)[j] = s[i + (j - Len(a))]
      BY <1>2, <1>3, <2>1, <2>3, <3>1
    <3> QED BY <3>1, <3>2
  <2> QED BY <2>2, <2>3
<1> QED BY <1>1, <1>3, <1>4

\* An operation makes of a document one that follows it, or fails.
LEMMA AppliedIs ==
  ASSUME NEW d \in Document, NEW k, NEW op \in Memory!Operations(k), NEW by \in MemoryClients,
         Memory!Applied(d, op, by) # Memory!Failed
  PROVE  Memory!Applied(d, op, by) \in Document /\ Follows(d, Memory!Applied(d, op, by))
<1> DEFINE e == Memory!Applied(d, op, by)
           at == Memory!IndexOf(d, op.id)
<1>1. d # Memory!Failed /\ d.next_id \in Nat /\ d.entries \in Seq(Fact)
      /\ d = [next_id |-> d.next_id, entries |-> d.entries]
  BY NoDocument DEF Document
<1>2. d \in Document /\ Follows(d, d)
  BY FollowsOn
<1>3. \/ op.action = "add" /\ op.text \in Texts \cup {BadText}
      \/ op.action = "replace" /\ op.text \in Texts
      \/ op.action = "remove"
  BY DEF Memory!Operations
<1>4. ~(op.action # "remove" /\ op.text = BadText)
  BY DEF Memory!Applied
<1>5. CASE op.action = "add"
  <2>1. CASE \E i \in DOMAIN d.entries : d.entries[i].text = op.text
    <3>1. e = d
      BY <1>1, <1>4, <1>5, <2>1 DEF Memory!Applied
    <3> QED BY <1>2, <3>1
  <2>2. CASE \A i \in DOMAIN d.entries : d.entries[i].text # op.text
    <3> DEFINE fact == [id |-> d.next_id, text |-> op.text, origin |-> by]
    <3>1. e = [next_id |-> d.next_id + 1, entries |-> Append(d.entries, fact)]
      BY <1>1, <1>4, <1>5, <2>2 DEF Memory!Applied
    <3>2. fact \in Fact /\ fact.id = d.next_id
      BY <1>1, <1>3, <1>4, <1>5 DEF Fact
    <3> HIDE DEF fact, e
    <3>3. e \in Document
      BY <1>1, <3>1, <3>2 DEF Document
    <3>4. ASSUME NEW j \in DOMAIN e.entries, e.entries[j].id < d.next_id
          PROVE  \E i \in DOMAIN d.entries : d.entries[i].id = e.entries[j].id
      <4>1. j \in DOMAIN d.entries /\ e.entries[j] = d.entries[j]
        BY <1>1, <3>1, <3>2, <3>4
      <4> QED BY <4>1
    <3> QED BY <1>1, <3>1, <3>3, <3>4 DEF Follows, e
  <2> QED BY <2>1, <2>2
<1>6. CASE op.action # "add"
  <2>1. at # 0
    BY <1>1, <1>4, <1>6 DEF Memory!Applied
  <2>2. at \in 1..Len(d.entries)
    BY <1>1, <2>1, IndexOfIs
  <2>3. CASE op.action = "replace" /\ d.entries[at].text = op.text
    <3>1. e = d
      BY <1>1, <1>4, <2>1, <2>3 DEF Memory!Applied
    <3> QED BY <1>2, <3>1
  <2>4. CASE op.action = "replace" /\ d.entries[at].text # op.text
    <3> DEFINE fact == [id |-> op.id, text |-> op.text, origin |-> by]
    <3>1. e = [d EXCEPT !.entries[at] = fact]
      BY <1>1, <1>4, <2>1, <2>4 DEF Memory!Applied
    <3>2. fact \in Fact /\ fact.id = d.entries[at].id
      <4>1. d.entries[at] \in Fact /\ d.entries[at].id = op.id
        BY <1>1, <2>1, <2>2, IndexOfIs
      <4>2. op.id \in Nat
        BY <4>1 DEF Fact
      <4> HIDE DEF at
      <4> QED BY <1>3, <2>4, <4>1, <4>2 DEF Fact
    <3> HIDE DEF fact
    <3>4. e = [next_id |-> d.next_id, entries |-> [d.entries EXCEPT ![at] = fact]]
      BY <1>1, <2>2, <3>1
    <3> HIDE DEF e, at
    <3>5. e \in Document
      BY <1>1, <2>2, <3>2, <3>4 DEF Document
    <3>6. ASSUME NEW j \in DOMAIN e.entries, e.entries[j].id < d.next_id
          PROVE  \E i \in DOMAIN d.entries : d.entries[i].id = e.entries[j].id
      <4>1. j \in DOMAIN d.entries /\ e.entries[j].id = d.entries[j].id
        BY <1>1, <3>4, <3>2, <2>2
      <4> QED BY <4>1
    <3> QED BY <1>1, <3>4, <3>5, <3>6 DEF Follows, e
  <2>5. CASE op.action = "remove"
    <3>1. e = [d EXCEPT !.entries = Memory!RemoveAt(@, at)]
      BY <1>1, <1>4, <2>1, <2>5 DEF Memory!Applied
    <3>2. e = [next_id |-> d.next_id, entries |-> Memory!RemoveAt(d.entries, at)]
      BY <1>1, <3>1
    <3>3. /\ Memory!RemoveAt(d.entries, at) \in Seq(Fact)
          /\ \A j \in DOMAIN Memory!RemoveAt(d.entries, at) :
                \E i \in DOMAIN d.entries : Memory!RemoveAt(d.entries, at)[j] = d.entries[i]
      BY <1>1, <2>2, RemoveAtIs
    <3> HIDE DEF e, at
    <3>4. e \in Document
      BY <1>1, <3>2, <3>3 DEF Document
    <3>5. ASSUME NEW j \in DOMAIN e.entries, e.entries[j].id < d.next_id
          PROVE  \E i \in DOMAIN d.entries : d.entries[i].id = e.entries[j].id
      <4>1. PICK i \in DOMAIN d.entries : e.entries[j] = d.entries[i]
        BY <3>2, <3>3
      <4> QED BY <4>1
    <3> QED BY <1>1, <3>2, <3>4, <3>5 DEF Follows, e
  <2> QED BY <1>3, <1>6, <2>3, <2>4, <2>5
<1> QED BY <1>5, <1>6

\* f holds the first n working copies of a batch.
Copies(d, operations, by, n, f) ==
    /\ f \in [0..n -> Document \cup {Memory!Failed}]
    /\ f[0] = d
    /\ \A m \in 1..n : f[m] = Memory!Applied(f[m - 1], operations[m], by)

\* An operation on a working copy gives a working copy, and keeps a failed one.
LEMMA AppliedStays ==
  ASSUME NEW d \in Document \cup {Memory!Failed}, NEW k, NEW op \in Memory!Operations(k),
         NEW by \in MemoryClients
  PROVE  /\ Memory!Applied(d, op, by) \in Document \cup {Memory!Failed}
         /\ Memory!Applied(d, op, by) # Memory!Failed =>
                d \in Document /\ Follows(d, Memory!Applied(d, op, by))
<1>1. CASE d = Memory!Failed
  BY <1>1 DEF Memory!Applied
<1>2. CASE d \in Document
  BY <1>2, AppliedIs
<1> QED BY <1>1, <1>2

\* The working copies of a batch exist, so that the recursive function of Working is one.
LEMMA CopiesExist ==
  ASSUME NEW d \in Document, NEW k, NEW operations \in Seq(Memory!Operations(k)), NEW by \in MemoryClients
  PROVE  \A n \in 0..Len(operations) : \E f : Copies(d, operations, by, n, f)
<1> DEFINE S == {n \in Nat : n <= Len(operations) => \E f : Copies(d, operations, by, n, f)}
<1>1. 0 \in S
  <2> DEFINE f == [m \in 0..0 |-> d]
  <2>1. Copies(d, operations, by, 0, f)
    BY DEF Copies
  <2> HIDE DEF f
  <2> QED BY <2>1
<1>2. ASSUME NEW n \in Nat, n \in S PROVE n + 1 \in S
  <2> SUFFICES ASSUME n + 1 <= Len(operations) PROVE \E f : Copies(d, operations, by, n + 1, f)
    OBVIOUS
  <2>1. PICK f : Copies(d, operations, by, n, f)
    BY <1>2
  <2>2. operations[n + 1] \in Memory!Operations(k)
    OBVIOUS
  <2> DEFINE new == Memory!Applied(f[n], operations[n + 1], by)
             g == [m \in 0..(n + 1) |-> IF m = n + 1 THEN new ELSE f[m]]
  <2>3. f[n] \in Document \cup {Memory!Failed}
    BY <2>1 DEF Copies
  <2>4. new \in Document \cup {Memory!Failed}
    BY <2>2, <2>3, AppliedStays
  <2>5. new = Memory!Applied(f[n], operations[n + 1], by)
    OBVIOUS
  <2> HIDE DEF new
  <2>6. Copies(d, operations, by, n + 1, g)
    BY <2>1, <2>4, <2>5 DEF Copies
  <2> HIDE DEF g
  <2> QED BY <2>6
<1> HIDE DEF S
<1>3. Nat \subseteq S
  BY <1>1, <1>2, SetInduction
<1> QED BY <1>3 DEF S

\* A batch makes of a document one that follows it, or fails.
LEMMA WorkingIs ==
  ASSUME NEW d \in Document, NEW k, NEW operations \in Seq(Memory!Operations(k)), NEW by \in MemoryClients,
         Memory!Working(d, operations, by)[Len(operations)] # Memory!Failed
  PROVE  /\ Memory!Working(d, operations, by)[Len(operations)] \in Document
         /\ Follows(d, Memory!Working(d, operations, by)[Len(operations)])
<1> DEFINE N == Len(operations)
           F(f) == [n \in 0..N |-> IF n = 0 THEN d ELSE Memory!Applied(f[n - 1], operations[n], by)]
           Copy == CHOOSE f : f = F(f)
<1>1. Memory!Working(d, operations, by) = Copy
  BY DEF Memory!Working
<1>2. N \in Nat
  OBVIOUS
<1>3. \E f : f = F(f)
  <2>1. PICK f : Copies(d, operations, by, N, f)
    BY <1>2, CopiesExist
  <2>2. f = F(f)
    BY <1>2, <2>1 DEF Copies
  <2> QED BY <2>2
<1>4. Copy = F(Copy)
  BY <1>3
<1> HIDE DEF Copy
<1> DEFINE S == {n \in Nat : n <= N => /\ Copy[n] \in Document \cup {Memory!Failed}
                                       /\ Copy[n] # Memory!Failed => Follows(d, Copy[n])}
<1>5. 0 \in S
  BY <1>2, <1>4, FollowsOn
<1>6. ASSUME NEW n \in Nat, n \in S PROVE n + 1 \in S
  <2> SUFFICES ASSUME n + 1 <= N
               PROVE  /\ Copy[n + 1] \in Document \cup {Memory!Failed}
                      /\ Copy[n + 1] # Memory!Failed => Follows(d, Copy[n + 1])
    OBVIOUS
  <2>1. Copy[n + 1] = Memory!Applied(Copy[n], operations[n + 1], by) /\ operations[n + 1] \in Memory!Operations(k)
    BY <1>2, <1>4
  <2>2. Copy[n] \in Document \cup {Memory!Failed} /\ (Copy[n] # Memory!Failed => Follows(d, Copy[n]))
    BY <1>2, <1>6
  <2>3. /\ Copy[n + 1] \in Document \cup {Memory!Failed}
        /\ Copy[n + 1] # Memory!Failed => Copy[n] \in Document /\ Follows(Copy[n], Copy[n + 1])
    BY <2>1, <2>2, AppliedStays
  <2> QED BY <2>2, <2>3, FollowsOn, NoDocument
<1> HIDE DEF S
<1>7. N \in S
  BY <1>2, <1>5, <1>6, SetInduction
<1> QED BY <1>1, <1>2, <1>7 DEF S

\* A change is made against the document it names, and follows it.
LEMMA ChangedIs ==
  ASSUME NEW d \in Document, NEW revision, NEW operations \in Memory!SeqOf(Memory!Operations(revision), MaxOps),
         NEW by \in MemoryClients, Memory!Changed(d, revision, operations, by) # Memory!Failed
  PROVE  /\ revision = d /\ Memory!Changed(d, revision, operations, by) \in Document
         /\ Follows(d, Memory!Changed(d, revision, operations, by))
<1>1. operations \in Seq(Memory!Operations(revision))
  BY MemoryAssumption DEF Memory!SeqOf
<1>2. revision = d /\ Memory!Changed(d, revision, operations, by) = Memory!Working(d, operations, by)[Len(operations)]
  BY DEF Memory!Changed
<1> QED BY <1>1, <1>2, WorkingIs

Phases == {"idle", "acquire", "lock", "load", "persist", "sync"}

\* A call that reads or replaces the file holds the lock on it; a change about to replace the
\* file is one of the document its caller saw, which the file still holds unless someone edited
\* it by hand; and whatever any caller was shown came before what the file holds.
MemTypes ==
    /\ memoryFile \in Document \cup {Memory!Broken}
    /\ pc \in [MemoryClients -> Phases]
    /\ known \in [MemoryClients -> Document \cup {Memory!Nothing}]
    /\ next \in [MemoryClients -> Document]
Holders == \A c \in MemoryClients : pc[c] \in {"load", "persist", "sync"} => flock = c
Writing == \A c \in MemoryClients :
    /\ pc[c] = "persist" =>
        /\ known[c] \in Document /\ memoryFile \in {known[c], Memory!Broken} /\ Follows(known[c], next[c])
        /\ \A e \in MemoryClients : known[e] \in Document => Follows(known[e], known[c])
    /\ pc[c] = "sync" => memoryFile \in {next[c], Memory!Broken}
Shown == memoryFile \in Document =>
    \A c \in MemoryClients : known[c] \in Document => Follows(known[c], memoryFile)
MemInv == MemTypes /\ Holders /\ Writing /\ Shown

\* In the first state nobody has been shown anything.
LEMMA MemInit == Memory!Init => MemInv
BY NoDocument DEF Memory!Init, MemInv, MemTypes, Holders, Writing, Shown, Phases

\* A way out leaves the locks of the others as they are.
LEMMA ReleaseIs ==
  ASSUME MemInv, NEW c \in MemoryClients, Memory!ReleaseLocks(c)
  PROVE  /\ pc' \in [MemoryClients -> Phases] /\ next' \in [MemoryClients -> Document] /\ Holders'
         /\ pc'[c] = "idle"
         /\ \A e \in MemoryClients : e # c => pc'[e] = pc[e] /\ next'[e] = next[e]
<1>1. /\ pc' \in [MemoryClients -> Phases] /\ next' \in [MemoryClients -> Document] /\ pc'[c] = "idle"
      /\ \A e \in MemoryClients : e # c => pc'[e] = pc[e] /\ next'[e] = next[e]
  BY NoDocument DEF Memory!ReleaseLocks, MemInv, MemTypes, Phases
<1>2. flock' = IF flock = c THEN Memory!Nobody ELSE flock
  BY DEF Memory!ReleaseLocks
<1>3. Holders'
  BY <1>1, <1>2 DEF Holders, MemInv
<1> QED BY <1>1, <1>3

\* A refused call tells its caller nothing and leaves the file.
LEMMA RefuseStep == ASSUME MemInv, NEW c \in MemoryClients, Memory!Refuse(c) PROVE MemInv'
<1>1. Memory!ReleaseLocks(c) /\ memoryFile' = memoryFile /\ known' = known
  BY DEF Memory!Refuse
<1>2. MemTypes' /\ Shown'
  BY <1>1, ReleaseIs DEF MemInv, MemTypes, Shown
<1>3. Writing'
  BY <1>1, ReleaseIs DEF MemInv, Writing
<1> QED BY <1>1, <1>2, <1>3, ReleaseIs DEF MemInv

\* A caller is shown what the file holds, or held before someone edited it by hand.
LEMMA ReturnStep ==
  ASSUME MemInv, NEW c \in MemoryClients, NEW d \in Document, Memory!Return(c, d), flock = c,
         memoryFile \in {d, Memory!Broken}
  PROVE  MemInv'
<1>1. Memory!ReleaseLocks(c) /\ memoryFile' = memoryFile /\ known' = [known EXCEPT ![c] = d]
  BY DEF Memory!Return
<1>2. known' \in [MemoryClients -> Document \cup {Memory!Nothing}] /\ known'[c] = d
      /\ \A e \in MemoryClients : e # c => known'[e] = known[e]
  BY <1>1 DEF MemInv, MemTypes
<1>3. \A e \in MemoryClients : pc'[e] \notin {"load", "persist", "sync"}
  BY <1>1, ReleaseIs DEF MemInv, Holders
<1>4. Writing'
  BY <1>3 DEF Writing
<1>5. Shown'
  BY <1>1, <1>2, FollowsOn, NoDocument DEF Shown, MemInv
<1> QED BY <1>1, <1>2, <1>4, <1>5, ReleaseIs DEF MemInv, MemTypes

\* A step outside the critical section that shows and writes nothing.
LEMMA OutsideStep ==
  ASSUME MemInv, NEW c \in MemoryClients, NEW p \in Phases \ {"persist", "sync"}, pc' = [pc EXCEPT ![c] = p],
         UNCHANGED <<memoryFile, known, next>>,
         \/ flock' = flock /\ p # "load"
         \/ flock = Memory!Nobody /\ flock' = c
  PROVE  MemInv'
<1>1. pc' \in [MemoryClients -> Phases] /\ pc'[c] = p /\ \A e \in MemoryClients : e # c => pc'[e] = pc[e]
  BY DEF MemInv, MemTypes
<1>2. Holders'
  BY <1>1, MemoryAssumption DEF MemInv, Holders, Memory!Nobody
<1>3. Writing' /\ Shown'
  BY <1>1 DEF MemInv, Writing, Shown
<1> QED BY <1>1, <1>2, <1>3 DEF MemInv, MemTypes

\* A change is computed from the document the caller named, which is the file's.
LEMMA MemPrepareStep == ASSUME MemInv, NEW c \in MemoryClients, Memory!Prepare(c) PROVE MemInv'
<1> DEFINE Result(operations) ==
             IF memoryFile = Memory!Broken THEN Memory!Failed
             ELSE Memory!Changed(memoryFile, known[c], operations, c)
<1>1. PICK operations \in Memory!SeqOf(Memory!Operations(known[c]), MaxOps) :
         \/ Memory!Refuse(c)
         \/ Result(operations) # Memory!Failed /\ Result(operations) = known[c] /\ Memory!Return(c, known[c])
         \/ /\ Result(operations) # Memory!Failed /\ next' = [next EXCEPT ![c] = Result(operations)]
            /\ pc' = [pc EXCEPT ![c] = "persist"] /\ UNCHANGED <<memoryFile, flock, known>>
  <2> HIDE DEF Result
  <2>1. PICK operations \in Memory!SeqOf(Memory!Operations(known[c]), MaxOps) :
           CASE Result(operations) = Memory!Failed -> Memory!Refuse(c)
             [] Result(operations) = known[c] -> Memory!Return(c, Result(operations))
             [] OTHER -> /\ next' = [next EXCEPT ![c] = Result(operations)]
                         /\ pc' = [pc EXCEPT ![c] = "persist"]
                         /\ UNCHANGED <<memoryFile, memoryGate, flock, call, known, cancel, faults>>
    BY DEF Memory!Prepare, Result
  <2>2. known[c] # Memory!Failed
    BY NoDocument DEF MemInv, MemTypes, Memory!Nothing, Memory!Failed
  <2> QED BY <2>1, <2>2
<1> DEFINE d == Result(operations)
<1>2. pc[c] = "load" /\ flock = c
  BY DEF Memory!Prepare, MemInv, Holders
<1>3. CASE Memory!Refuse(c)
  BY <1>3, RefuseStep
<1>4. CASE d # Memory!Failed
  <2>1. memoryFile \in Document /\ d = Memory!Changed(memoryFile, known[c], operations, c)
    BY <1>4 DEF MemInv, MemTypes
  <2>2. known[c] = memoryFile /\ d \in Document /\ Follows(memoryFile, d)
    BY <1>4, <2>1, ChangedIs
  <2> HIDE DEF d
  <2>3. CASE d = known[c] /\ Memory!Return(c, known[c])
    BY <1>2, <2>1, <2>2, <2>3, ReturnStep
  <2>4. CASE /\ next' = [next EXCEPT ![c] = d] /\ pc' = [pc EXCEPT ![c] = "persist"]
             /\ UNCHANGED <<memoryFile, flock, known>>
    <3>1. MemTypes' /\ next'[c] = d /\ pc'[c] = "persist"
          /\ \A e \in MemoryClients : e # c => next'[e] = next[e] /\ pc'[e] = pc[e]
      BY <2>2, <2>4 DEF MemInv, MemTypes, Phases
    <3>2. Holders' /\ Shown'
      BY <1>2, <2>4, <3>1 DEF MemInv, Holders, Shown
    <3>3. \A e \in MemoryClients : e # c => pc'[e] \notin {"persist", "sync"}
      BY <1>2, <3>1 DEF MemInv, Holders
    <3>4. /\ known'[c] \in Document /\ memoryFile' = known'[c] /\ Follows(known'[c], next'[c])
          /\ \A e \in MemoryClients : known'[e] \in Document => Follows(known'[e], known'[c])
      BY <2>1, <2>2, <2>4, <3>1 DEF MemInv, Shown
    <3>5. Writing'
      BY <3>1, <3>3, <3>4 DEF Writing
    <3> QED BY <3>1, <3>2, <3>5 DEF MemInv
  <2> QED BY <1>1, <1>4, <2>3, <2>4, RefuseStep DEF d
<1> QED BY <1>1, <1>3, <1>4

\* The rename puts the change in place of the document it was made against.
LEMMA MemPersistStep == ASSUME MemInv, NEW c \in MemoryClients, Memory!Persist(c) PROVE MemInv'
<1>1. pc[c] = "persist" /\ flock = c
  BY DEF Memory!Persist, MemInv, Holders
<1>2. CASE Memory!Refuse(c)
  BY <1>2, RefuseStep
<1>3. CASE memoryFile' = next[c] /\ pc' = [pc EXCEPT ![c] = "sync"] /\ UNCHANGED <<flock, known, next>>
  <2>1. pc'[c] = "sync" /\ (\A e \in MemoryClients : e # c => pc'[e] = pc[e]) /\ MemTypes'
    BY <1>3 DEF MemInv, MemTypes, Phases
  <2>2. Holders'
    BY <1>1, <1>3, <2>1 DEF MemInv, Holders
  <2>3. \A e \in MemoryClients : e # c => pc'[e] \notin {"persist", "sync"}
    BY <1>1, <2>1 DEF MemInv, Holders
  <2>4. Writing'
    BY <1>3, <2>1, <2>3 DEF Writing
  <2>5. Shown'
    <3> SUFFICES ASSUME NEW e \in MemoryClients, known[e] \in Document PROVE Follows(known[e], next[c])
      BY <1>3 DEF Shown
    <3>1. known[c] \in Document /\ next[c] \in Document /\ Follows(known[e], known[c]) /\ Follows(known[c], next[c])
      BY <1>1 DEF MemInv, MemTypes, Writing
    <3> QED BY <3>1, FollowsOn
  <2> QED BY <2>1, <2>2, <2>4, <2>5 DEF MemInv
<1> QED BY <1>2, <1>3 DEF Memory!Persist

\* A sync returns what the file holds, or fails and returns nothing.
LEMMA MemSyncStep == ASSUME MemInv, NEW c \in MemoryClients, Memory!Sync(c) PROVE MemInv'
<1>1. pc[c] = "sync" /\ flock = c /\ next[c] \in Document /\ memoryFile \in {next[c], Memory!Broken}
  BY DEF Memory!Sync, MemInv, Holders, MemTypes, Writing
<1>2. CASE Memory!Return(c, next[c])
  BY <1>1, <1>2, ReturnStep
<1>3. CASE Memory!ReleaseLocks(c) /\ UNCHANGED <<memoryFile, known>>
  <2>1. MemTypes' /\ Shown'
    BY <1>3, ReleaseIs DEF MemInv, MemTypes, Shown
  <2>2. Writing'
    BY <1>3, ReleaseIs DEF MemInv, Writing
  <2> QED BY <1>3, <2>1, <2>2, ReleaseIs DEF MemInv
<1> QED BY <1>2, <1>3 DEF Memory!Sync

\* Every step of the memory keeps its invariant.
LEMMA MemStep == ASSUME MemInv, Memory!Next PROVE MemInv'
<1>1. ASSUME NEW c \in MemoryClients,
             \/ Memory!ReadCall(c) \/ Memory!ApplyCall(c) \/ Memory!Acquire(c) \/ Memory!Locked(c) \/ Memory!Read(c)
             \/ Memory!Prepare(c) \/ Memory!Persist(c) \/ Memory!Sync(c) \/ Memory!Cancel(c)
      PROVE  MemInv'
  <2>1. CASE Memory!ReadCall(c)
    BY <2>1, OutsideStep DEF Memory!ReadCall, Phases
  <2>2. CASE Memory!ApplyCall(c)
    BY <2>2, OutsideStep DEF Memory!ApplyCall, Phases
  <2>3. CASE Memory!Acquire(c)
    <3>1. Memory!Refuse(c) \/ (pc' = [pc EXCEPT ![c] = "lock"] /\ UNCHANGED <<memoryFile, known, next, flock>>)
      BY <2>3 DEF Memory!Acquire
    <3> QED BY <3>1, RefuseStep, OutsideStep DEF Phases
  <2>4. CASE Memory!Locked(c)
    <3>1. \/ Memory!Refuse(c)
          \/ /\ pc' = [pc EXCEPT ![c] = "load"] /\ UNCHANGED <<memoryFile, known, next>>
             /\ flock = Memory!Nobody /\ flock' = c
      BY <2>4 DEF Memory!Locked
    <3> QED BY <3>1, RefuseStep, OutsideStep DEF Phases
  <2>5. CASE Memory!Read(c)
    <3>1. flock = c /\ (Memory!Refuse(c) \/ (memoryFile # Memory!Broken /\ Memory!Return(c, memoryFile)))
      BY <2>5 DEF Memory!Read, MemInv, Holders
    <3> QED BY <3>1, RefuseStep, ReturnStep DEF MemInv, MemTypes
  <2>6. CASE Memory!Cancel(c)
    <3>1. UNCHANGED <<memoryFile, flock, pc, known, next>>
      BY <2>6 DEF Memory!Cancel
    <3> QED BY <3>1 DEF MemInv, MemTypes, Holders, Writing, Shown
  <2> QED BY <1>1, <2>1, <2>2, <2>3, <2>4, <2>5, <2>6, MemPrepareStep, MemPersistStep, MemSyncStep
<1>2. CASE Memory!EditedOutside
  <2>1. memoryFile' = Memory!Broken /\ UNCHANGED <<flock, pc, known, next>>
    BY <1>2 DEF Memory!EditedOutside
  <2> QED BY <2>1, NoDocument DEF MemInv, MemTypes, Holders, Writing, Shown
<1>3. CASE Memory!Crash
  <2>1. /\ pc' = [c \in MemoryClients |-> "idle"] /\ known' = [c \in MemoryClients |-> Memory!Nothing]
        /\ next' = [c \in MemoryClients |-> Memory!Empty] /\ memoryFile' = memoryFile
    BY <1>3 DEF Memory!Crash
  <2> QED BY <2>1, NoDocument DEF MemInv, MemTypes, Holders, Writing, Shown, Phases
<1> QED BY <1>1, <1>2, <1>3 DEF Memory!Next

\* The store replaces MEMORY.md only while it holds what the change was made against, and an id
\* once shown never means another fact (FileStore::with_lock, load, apply and persist, Document::changed).
THEOREM MemoryKeptHolds == AllSpec => MemoryKept
<1>1. AllInit => MemInv
  BY MemInit DEF AllInit
<1>2. MemInv /\ [AllNext]_allVars => MemInv'
  <2> SUFFICES ASSUME MemInv, [AllNext]_allVars PROVE MemInv'
    OBVIOUS
  <2>1. Memory!Next \/ UNCHANGED memoryVars
    BY DEF AllNext, allVars, Within
  <2>2. CASE UNCHANGED memoryVars
    BY <2>2 DEF memoryVars, MemInv, MemTypes, Holders, Writing, Shown
  <2> QED BY <2>1, <2>2, MemStep
<1>3. MemInv => [\A c \in MemoryClients : pc[c] = "persist" /\ pc'[c] = "sync"
                    => memoryFile \in {known[c], Memory!Broken}]_(Memory!vars)
  BY DEF MemInv, Writing
<1>4. MemInv => Memory!IdsNeverReused
  <2> SUFFICES ASSUME MemInv, NEW c \in MemoryClients, known[c] # Memory!Nothing, memoryFile # Memory!Broken
               PROVE  /\ memoryFile.next_id >= known[c].next_id
                      /\ \A e \in Memory!Range(memoryFile.entries) :
                            e.id < known[c].next_id =>
                                \E k \in Memory!Range(known[c].entries) : k.id = e.id
    BY DEF Memory!IdsNeverReused
  <2>1. known[c] \in Document /\ memoryFile \in Document /\ Follows(known[c], memoryFile)
    BY DEF MemInv, MemTypes, Shown
  <2> QED BY <2>1 DEF Follows, Document, Memory!Range
<1> QED BY <1>1, <1>2, <1>3, <1>4, PTL DEF AllSpec, MemoryKept, Memory!MemoryKept, Memory!NoLostUpdate

-----------------------------------------------------------------------------
(* Spilled results                                                         *)

\* The cardinality Spill counts with.
LEMMA CardinalityIs == \A S : Spill!Cardinality(S) = Cardinality(S)
BY DEF Spill!Cardinality, Cardinality

Widths == Nat \ {0}
\* f holds the bytes of the first characters of a text, up to n of them.
Sums(text, n, f) ==
    f \in [0..n -> Nat] /\ f[0] = 0 /\ \A m \in 1..n : f[m] = f[m - 1] + text[m]

\* Such sums exist, so that the recursive function of Prefix is one.
LEMMA SumsExist ==
  ASSUME NEW text \in Seq(Widths)
  PROVE  \A n \in 0..Len(text) : \E f : Sums(text, n, f)
<1> DEFINE S == {n \in Nat : n <= Len(text) => \E f : Sums(text, n, f)}
<1>1. 0 \in S
  <2> DEFINE f == [m \in 0..0 |-> 0]
  <2>1. Sums(text, 0, f)
    BY DEF Sums
  <2> HIDE DEF f
  <2> QED BY <2>1
<1>2. ASSUME NEW n \in Nat, n \in S PROVE n + 1 \in S
  <2> SUFFICES ASSUME n + 1 <= Len(text) PROVE \E f : Sums(text, n + 1, f)
    OBVIOUS
  <2>1. PICK f : Sums(text, n, f)
    BY <1>2
  <2>2. text[n + 1] \in Nat
    BY DEF Widths
  <2> DEFINE g == [m \in 0..(n + 1) |-> IF m = n + 1 THEN f[n] + text[n + 1] ELSE f[m]]
  <2>3. Sums(text, n + 1, g)
    BY <2>1, <2>2 DEF Sums
  <2> HIDE DEF g
  <2> QED BY <2>3
<1> HIDE DEF S
<1>3. Nat \subseteq S
  BY <1>1, <1>2, SetInduction
<1> QED BY <1>3 DEF S

\* The sums are those of Prefix.
LEMMA PrefixIs == ASSUME NEW text \in Seq(Widths) PROVE Sums(text, Len(text), Spill!Prefix(text))
<1> DEFINE N == Len(text)
           F(f) == [n \in 0..N |-> IF n = 0 THEN 0 ELSE f[n - 1] + text[n]]
           Bytes == CHOOSE f : f = F(f)
<1>1. Spill!Prefix(text) = Bytes
  BY DEF Spill!Prefix
<1>2. N \in Nat /\ \A n \in 1..N : text[n] \in Nat
  BY DEF Widths
<1>3. PICK f : Sums(text, N, f)
  BY <1>2, SumsExist
<1>4. f = F(f)
  BY <1>2, <1>3 DEF Sums
<1>5. Bytes = F(Bytes)
  BY <1>4
<1> HIDE DEF Bytes
<1> DEFINE S == {n \in Nat : n <= N => Bytes[n] = f[n]}
<1>6. 0 \in S
  BY <1>2, <1>3, <1>5 DEF Sums
<1>7. ASSUME NEW n \in Nat, n \in S PROVE n + 1 \in S
  <2>1. n + 1 <= N => Bytes[n + 1] = Bytes[n] + text[n + 1] /\ f[n + 1] = f[n] + text[n + 1]
    BY <1>2, <1>3, <1>5 DEF Sums
  <2> QED BY <1>2, <1>7, <2>1
<1> HIDE DEF S
<1>8. \A n \in 0..N : Bytes[n] = f[n]
  <2>1. Nat \subseteq S
    BY <1>6, <1>7, SetInduction
  <2> QED BY <1>2, <2>1 DEF S
<1>9. Bytes = f
  <2>1. DOMAIN Bytes = 0..N /\ DOMAIN f = 0..N /\ Bytes = [n \in 0..N |-> Bytes[n]] /\ f = [n \in 0..N |-> f[n]]
    BY <1>3, <1>5 DEF Sums
  <2> QED BY <1>8, <2>1
<1> QED BY <1>1, <1>3, <1>9

\* More characters are more bytes, and as many characters as bytes are asked for.
LEMMA PrefixGrows ==
  ASSUME NEW text \in Seq(Widths), NEW k \in 0..Len(text)
  PROVE  \A n \in 0..Len(text) : Spill!Prefix(text)[n] <= Spill!Prefix(text)[k] <=> n <= k
<1> DEFINE N == Len(text)
           P == Spill!Prefix(text)
           S == {d \in Nat : \A n \in 0..N : n + d + 1 <= N => P[n] < P[n + d + 1]}
<1>1. N \in Nat /\ \A n \in 1..N : text[n] \in Nat /\ text[n] > 0
  BY DEF Widths
<1>2. P \in [0..N -> Nat] /\ \A m \in 1..N : P[m] = P[m - 1] + text[m]
  BY PrefixIs DEF Sums
<1> HIDE DEF P, N
<1>3. ASSUME NEW n \in 0..N, n + 1 <= N PROVE P[n] < P[n + 1] /\ P[n] \in Nat /\ P[n + 1] \in Nat
  <2>1. n + 1 \in 1..N /\ (n + 1) - 1 = n /\ n + 1 \in 0..N
    BY <1>1, <1>3
  <2>2. P[n + 1] = P[n] + text[n + 1]
    BY <1>2, <2>1
  <2> QED BY <1>1, <1>2, <2>1, <2>2
<1>4. 0 \in S
  BY <1>1, <1>3
<1>5. ASSUME NEW d \in Nat, d \in S PROVE d + 1 \in S
  <2> SUFFICES ASSUME NEW n \in 0..N, n + (d + 1) + 1 <= N PROVE P[n] < P[n + (d + 1) + 1]
    OBVIOUS
  <2>1. n + d + 1 \in 0..N /\ (n + d + 1) + 1 <= N /\ n + (d + 1) + 1 = (n + d + 1) + 1
    BY <1>1
  <2>2. P[n] < P[n + d + 1] /\ P[n + d + 1] < P[(n + d + 1) + 1]
    BY <1>3, <1>5, <2>1
  <2>3. P[n] \in Nat /\ P[n + d + 1] \in Nat /\ P[(n + d + 1) + 1] \in Nat
    BY <1>1, <1>2, <2>1
  <2> QED BY <2>1, <2>2, <2>3
<1> HIDE DEF S
<1>6. Nat \subseteq S
  BY <1>4, <1>5, SetInduction
<1>7. ASSUME NEW m \in 0..N, NEW n \in 0..N, m < n PROVE P[m] < P[n]
  <2>1. n - m - 1 \in Nat /\ m + (n - m - 1) + 1 = n
    BY <1>1, <1>7
  <2>2. \A q \in 0..N : q + (n - m - 1) + 1 <= N => P[q] < P[q + (n - m - 1) + 1]
    BY <1>6, <2>1 DEF S
  <2> QED BY <2>1, <2>2
<1>8. ASSUME NEW n \in 0..N PROVE P[n] <= P[k] <=> n <= k
  <2>1. k \in 0..N /\ P[n] \in Nat /\ P[k] \in Nat
    BY <1>2 DEF N
  <2>2. CASE n < k
    BY <1>1, <1>7, <2>1, <2>2
  <2>3. CASE n = k
    BY <1>1, <2>1, <2>3
  <2>4. CASE k < n
    BY <1>1, <1>7, <2>1, <2>4
  <2> QED BY <1>1, <2>1, <2>2, <2>3, <2>4
<1> QED BY <1>8 DEF N, P

\* The bytes of a slice are those between its ends.
LEMMA SliceIs ==
  ASSUME NEW text \in Seq(Widths), NEW slice \in Seq(Widths), NEW k \in Nat, k + Len(slice) <= Len(text),
         \A j \in 1..Len(slice) : slice[j] = text[k + j]
  PROVE  Spill!Bytes(slice) = Spill!Prefix(text)[k + Len(slice)] - Spill!Prefix(text)[k]
<1> DEFINE N == Len(slice)
           P == Spill!Prefix(text)
           Q == Spill!Prefix(slice)
           S == {m \in Nat : m <= N => Q[m] = P[k + m] - P[k]}
<1>1. N \in Nat /\ Len(text) \in Nat
  OBVIOUS
<1>2. P \in [0..Len(text) -> Nat] /\ \A m \in 1..Len(text) : P[m] = P[m - 1] + text[m]
  BY PrefixIs DEF Sums
<1>3. Q \in [0..N -> Nat] /\ Q[0] = 0 /\ \A m \in 1..N : Q[m] = Q[m - 1] + slice[m]
  BY PrefixIs DEF Sums
<1>4. \A m \in 1..N : slice[m] \in Nat /\ text[k + m] = slice[m]
  BY DEF Widths
<1> HIDE DEF P, Q, N
<1>5. k + N <= Len(text)
  BY DEF N
<1>6. 0 \in S
  <2>1. k \in 0..Len(text) /\ k + 0 = k
    BY <1>1, <1>5
  <2>2. P[k] \in Nat
    BY <1>2, <2>1
  <2> QED BY <1>3, <2>1, <2>2
<1>7. ASSUME NEW m \in Nat, m \in S PROVE m + 1 \in S
  <2> SUFFICES ASSUME m + 1 <= N PROVE Q[m + 1] = P[k + (m + 1)] - P[k]
    OBVIOUS
  <2>1. Q[m] = P[k + m] - P[k]
    BY <1>1, <1>7
  <2>2. Q[m + 1] = Q[m] + slice[m + 1]
    BY <1>1, <1>3
  <2>3. P[k + (m + 1)] = P[k + m] + text[k + (m + 1)]
    BY <1>1, <1>2, <1>5
  <2>4. P[k + m] \in Nat /\ P[k] \in Nat /\ slice[m + 1] \in Nat /\ text[k + (m + 1)] = slice[m + 1]
    <3>1. k + m \in 0..Len(text) /\ k \in 0..Len(text) /\ m + 1 \in 1..N
      BY <1>1, <1>5
    <3> QED BY <1>2, <1>4, <3>1
  <2> QED BY <2>1, <2>2, <2>3, <2>4
<1> HIDE DEF S
<1>8. N \in S
  BY <1>1, <1>6, <1>7, SetInduction
<1> QED BY <1>1, <1>8 DEF S, P, Q, N, Spill!Bytes

\* As many numbers as the last of them.
LEMMA CountIs == ASSUME NEW n \in Nat PROVE IsFiniteSet(1..n) /\ Cardinality(1..n) = n
<1>1. IsFiniteSet(1..n) /\ Cardinality(1..n) = IF 1 > n THEN 0 ELSE n - 1 + 1
  BY FS_Interval
<1> QED BY <1>1

\* A page continues what was read by whole characters of the same text.
LEMMA PageIs ==
  ASSUME NEW text \in Seq(Widths), NEW k \in 0..Len(text), NEW limit
  PROVE  \E m \in 0..(Len(text) - k) :
            /\ Spill!Bytes(Spill!Page(text, Spill!Prefix(text)[k], limit))
                    = Spill!Prefix(text)[k + m] - Spill!Prefix(text)[k]
            /\ SubSeq(text, 1, k) \o Spill!Page(text, Spill!Prefix(text)[k], limit) = SubSeq(text, 1, k + m)
<1> DEFINE L == Len(text)
           P == Spill!Prefix(text)
           read == {n \in 1..L : P[n] <= P[k]}
           rest == SubSeq(text, k + 1, L)
           fitting == {n \in 1..Len(rest) : Spill!Prefix(rest)[n] <= limit}
           m == Cardinality(fitting)
           page == SubSeq(rest, 1, m)
<1>1. L \in Nat /\ k \in Nat /\ k <= L
  OBVIOUS
<1>2. Cardinality(read) = k
  <2>1. read = 1..k
    BY <1>1, PrefixGrows
  <2> HIDE DEF read
  <2> QED BY <1>1, <2>1, FS_Interval
<1>3. rest \in Seq(Widths) /\ Len(rest) = L - k /\ \A j \in 1..(L - k) : rest[j] = text[k + j]
  <2>1. k + 1 \in 1..(L + 1) /\ L \in 0..L
    BY <1>1
  <2>2. rest \in Seq(Widths) /\ Len(rest) = L - (k + 1) + 1 /\ \A j \in 1..(L - (k + 1) + 1) : rest[j] = text[k + 1 + j - 1]
    BY <2>1, SubSeqProperties
  <2>3. L - (k + 1) + 1 = L - k /\ \A j \in 1..(L - k) : k + 1 + j - 1 = k + j
    BY <1>1
  <2> HIDE DEF rest
  <2> QED BY <2>2, <2>3
<1>4. Spill!From(text, P[k]) = rest
  <2>1. Spill!Cardinality(read) = k
    BY <1>2, CardinalityIs
  <2>2. Spill!From(text, P[k]) = SubSeq(text, 1 + Spill!Cardinality(read), L)
    BY DEF Spill!From
  <2>3. 1 + k = k + 1
    BY <1>1
  <2> HIDE DEF read
  <2> QED BY <2>1, <2>2, <2>3
<1>5. m \in 0..(L - k)
  <2>1. fitting \subseteq 1..(L - k)
    BY <1>3
  <2> HIDE DEF fitting
  <2>2. IsFiniteSet(1..(L - k)) /\ Cardinality(1..(L - k)) = L - k
    BY <1>1, CountIs
  <2>3. IsFiniteSet(fitting) /\ Cardinality(fitting) <= L - k
    BY <2>1, <2>2, FS_Subset
  <2>4. Cardinality(fitting) \in Nat
    BY <2>3, FS_CardinalityType
  <2> QED BY <1>1, <2>3, <2>4
<1>6. Spill!Page(text, P[k], limit) = page
  <2>1. Spill!Cardinality(fitting) = m
    BY CardinalityIs
  <2> HIDE DEF rest
  <2> QED BY <1>4, <2>1 DEF Spill!Page
<1> HIDE DEF rest, fitting, m
<1>7. page \in Seq(Widths) /\ Len(page) = m /\ \A j \in 1..m : page[j] = text[k + j]
  <2>1. page \in Seq(Widths) /\ Len(page) = m /\ \A j \in 1..m : page[j] = rest[j]
    BY <1>1, <1>3, <1>5, SubSeqProperties
  <2> QED BY <1>1, <1>3, <1>5, <2>1
<1> HIDE DEF page
<1>8. Spill!Bytes(page) = P[k + m] - P[k]
  <2>1. k + Len(page) <= L /\ Len(page) = m /\ \A j \in 1..Len(page) : page[j] = text[k + j]
    BY <1>1, <1>5, <1>7
  <2> HIDE DEF P
  <2>2. Spill!Bytes(page) = Spill!Prefix(text)[k + Len(page)] - Spill!Prefix(text)[k]
    BY <1>1, <1>7, <2>1, SliceIs
  <2> QED BY <2>1, <2>2 DEF P
<1>9. SubSeq(text, 1, k) \o page = SubSeq(text, 1, k + m)
  <2> DEFINE a == SubSeq(text, 1, k)
             b == SubSeq(text, 1, k + m)
  <2>1. a \in Seq(Widths) /\ Len(a) = k /\ \A j \in 1..k : a[j] = text[j]
    BY <1>1, SubSeqProperties
  <2>2. b \in Seq(Widths) /\ Len(b) = k + m /\ \A j \in 1..(k + m) : b[j] = text[j]
    BY <1>1, <1>5, SubSeqProperties
  <2> HIDE DEF a, b
  <2>3. a \o page \in Seq(Widths) /\ Len(a \o page) = k + m
        /\ \A j \in 1..(k + m) : (a \o page)[j] = IF j <= k THEN a[j] ELSE page[j - k]
    <3>1. /\ a \o page \in Seq(Widths) /\ Len(a \o page) = Len(a) + Len(page)
          /\ \A j \in 1..(Len(a) + Len(page)) : (a \o page)[j] = IF j <= Len(a) THEN a[j] ELSE page[j - Len(a)]
      BY <1>7, <2>1, ConcatProperties
    <3>2. Len(a) = k /\ Len(page) = m
      BY <1>7, <2>1
    <3> QED BY <3>1, <3>2
  <2>4. \A j \in 1..(k + m) : (a \o page)[j] = text[j]
    <3> SUFFICES ASSUME NEW j \in 1..(k + m) PROVE (a \o page)[j] = text[j]
      OBVIOUS
    <3>1. CASE j <= k
      BY <1>1, <1>5, <2>1, <2>3, <3>1
    <3>2. CASE ~(j <= k)
      <4>1. j - k \in 1..m /\ k + (j - k) = j
        BY <1>1, <1>5, <3>2
      <4> QED BY <1>7, <2>3, <3>2, <4>1
    <3> QED BY <3>1, <3>2
  <2>5. a \o page = b
    <3> DEFINE c == a \o page
    <3> HIDE DEF c
    <3>1. c \in Seq(Widths) /\ Len(c) = Len(b) /\ \A j \in 1..Len(b) : c[j] = b[j]
      BY <2>2, <2>3, <2>4 DEF c
    <3>2. c = b
      BY <2>2, <3>1
    <3> QED BY <3>2 DEF c
  <2> QED BY <2>5 DEF a, b
<1> QED BY <1>5, <1>6, <1>8, <1>9

EntryFields == {"id", "run", "body", "old"}
IsEntry(f) == /\ f = [x \in EntryFields |-> f[x]]
              /\ f.id \in Nat /\ f.run \in Runs /\ f.body \in Seq(Widths)
Stages == {"idle", "admit", "cleanup", "put", "copy", "stored"}
Puts == [body : Seq(Widths), id : Nat]

\* The bytes entries occupy, and those of one run.
Units(set) == UNION {{f.id} \X (1..Spill!Bytes(f.body)) : f \in set}
Of(set, r) == {f \in set : f.run = r}
\* The ids given out.
Used == {f.id : f \in files} \cup expired
\* The id was given to this entry, which is there or has been removed.
Names(id, r, body) == id \in Used /\ \A f \in files : f.id = id => f.run = r /\ f.body = body

Named(r) == Names(put[r].id, r, put[r].body)

\* The entries are numbered in turn, and within the quotas.
Filed ==
    /\ \A f \in files : IsEntry(f)
    /\ \E n \in Nat : Used = 1..n
    /\ \A f, g \in files : f.id = g.id => f = g
    /\ \A f \in files : f.id \notin expired
    /\ IsFiniteSet(Units(files))
    /\ Spill!QuotaHeld
\* A put that copies holds the store's lock and has room; one that is stored has an entry.
Putting ==
    /\ stage \in [Runs -> Stages] /\ put \in [Runs -> Puts]
    /\ \A r \in Runs : /\ stage[r] = "copy" => lock = r /\ Spill!Fits(r)
                       /\ stage[r] = "stored" => Named(r)
Located == \A p \in published : p.body \in Seq(Widths) /\ Names(p.id, p.run, p.body)
\* A reader has the first characters of what was published, and its offset is after them.
HasRead(p, k) == \E eof \in BOOLEAN :
    /\ reader = [id |-> p.id, offset |-> Spill!Prefix(p.body)[k], text |-> SubSeq(p.body, 1, k), eof |-> eof]
    /\ eof => k = Len(p.body)
Reading == reader = Spill!NoReader \/ \E p \in published : \E k \in 0..Len(p.body) : HasRead(p, k)
SpillInv == Filed /\ Putting /\ Located /\ Reading

\* What the quotas count.
LEMMA UsageIs == \A set : Spill!Usage(set) = Cardinality(Units(set))
BY CardinalityIs DEF Spill!Usage, Units

\* Whatever is a subset of entries occupies no more.
LEMMA UnitsShrink ==
  ASSUME NEW S, NEW T, IsFiniteSet(Units(S)), \A g \in T : \E f \in S : g.id = f.id /\ g.body = f.body
  PROVE  IsFiniteSet(Units(T)) /\ Spill!Usage(T) <= Spill!Usage(S) /\ Spill!Usage(T) \in Nat /\ Spill!Usage(S) \in Nat
<1>1. Units(T) \subseteq Units(S)
  BY DEF Units
<1>2. IsFiniteSet(Units(T)) /\ Cardinality(Units(T)) <= Cardinality(Units(S))
  BY <1>1, FS_Subset
<1>3. Cardinality(Units(T)) \in Nat /\ Cardinality(Units(S)) \in Nat
  BY <1>2, FS_CardinalityType
<1> QED BY <1>2, <1>3, UsageIs

\* A body occupies its bytes.
LEMMA BytesIs == ASSUME NEW body \in Seq(Widths) PROVE Spill!Bytes(body) \in Nat
BY PrefixIs DEF Sums, Spill!Bytes

\* One more entry occupies no more than what was there and its bytes.
LEMMA UnitsGrow ==
  ASSUME NEW S, NEW e, IsFiniteSet(Units(S)), e.body \in Seq(Widths)
  PROVE  /\ IsFiniteSet(Units(S \cup {e})) /\ Spill!Usage(S \cup {e}) \in Nat
         /\ Spill!Usage(S \cup {e}) <= Spill!Usage(S) + Spill!Bytes(e.body)
<1> DEFINE n == Spill!Bytes(e.body)
           new == {e.id} \X (1..n)
<1>1. n \in Nat
  BY BytesIs
<1>2. Units(S \cup {e}) = Units(S) \cup new
  BY DEF Units
<1>3. IsFiniteSet(new) /\ Cardinality(new) = n
  <2> HIDE DEF n
  <2>1. IsFiniteSet({e.id}) /\ Cardinality({e.id}) = 1 /\ IsFiniteSet(1..n) /\ Cardinality(1..n) = n
    BY <1>1, CountIs, FS_Singleton
  <2>2. IsFiniteSet(new) /\ Cardinality(new) = Cardinality({e.id}) * Cardinality(1..n)
    BY <2>1, FS_Product
  <2> HIDE DEF new
  <2> QED BY <1>1, <2>1, <2>2
<1> HIDE DEF new, n
<1>4. /\ IsFiniteSet(Units(S) \cup new)
      /\ Cardinality(Units(S) \cup new)
            = Cardinality(Units(S)) + Cardinality(new) - Cardinality(Units(S) \cap new)
  BY <1>3, FS_Union
<1>5. /\ Cardinality(Units(S)) \in Nat /\ Cardinality(Units(S) \cap new) \in Nat
      /\ Cardinality(Units(S) \cup new) \in Nat
  <2>1. IsFiniteSet(Units(S) \cap new)
    BY FS_Intersection
  <2> QED BY <1>4, <2>1, FS_CardinalityType
<1>6. Spill!Usage(S \cup {e}) = Cardinality(Units(S) \cup new) /\ Spill!Usage(S) = Cardinality(Units(S))
  BY <1>2, UsageIs
<1>7. Spill!Usage(S \cup {e}) \in Nat /\ Spill!Usage(S \cup {e}) <= Spill!Usage(S) + n
  BY <1>1, <1>3, <1>4, <1>5, <1>6
<1>8. IsFiniteSet(Units(S \cup {e}))
  BY <1>2, <1>4
<1> QED BY <1>7, <1>8 DEF n

\* Names that stay, and room that stays.
NamesStay == \A id, r, body : Names(id, r, body) => Names(id, r, body)'
RoomStays == \A r \in Runs : put'[r] = put[r] /\ Spill!Fits(r) => Spill!Fits(r)'

\* Entries that are removed or grow old.
LEMMA ShrunkFiles ==
  ASSUME Filed, Putting, Used' = Used,
         \A g \in files' : IsEntry(g) /\ \E f \in files : g.id = f.id /\ g.run = f.run /\ g.body = f.body,
         \A f, g \in files' : f.id = g.id => f = g, \A f \in files' : f.id \notin expired'
  PROVE  Filed' /\ NamesStay /\ RoomStays
<1>1. /\ IsFiniteSet(Units(files')) /\ Spill!Usage(files') <= Spill!Usage(files)
      /\ Spill!Usage(files') \in Nat /\ Spill!Usage(files) \in Nat
  BY UnitsShrink DEF Filed
<1>2. ASSUME NEW r \in Runs
      PROVE  /\ Spill!Usage(Of(files', r)) <= Spill!Usage(Of(files, r))
             /\ Spill!Usage(Of(files', r)) \in Nat /\ Spill!Usage(Of(files, r)) \in Nat
  <2>1. IsFiniteSet(Units(Of(files, r)))
    BY UnitsShrink DEF Filed, Of
  <2>2. \A g \in Of(files', r) : \E f \in Of(files, r) : g.id = f.id /\ g.body = f.body
    BY DEF Of
  <2> QED BY <2>1, <2>2, UnitsShrink
<1>3. Spill!QuotaHeld'
  <2>1. Spill!Usage(files) <= MaxTotalBytes /\ \A r \in Runs : Spill!Usage(Of(files, r)) <= MaxRunBytes
    BY DEF Filed, Spill!QuotaHeld, Of
  <2>2. Spill!Usage(files') <= MaxTotalBytes /\ \A r \in Runs : Spill!Usage(Of(files', r)) <= MaxRunBytes
    BY <1>1, <1>2, <2>1, SpillAssumption
  <2> QED BY <2>2 DEF Spill!QuotaHeld, Of
<1>4. Filed'
  BY <1>1, <1>3 DEF Filed
<1>5. NamesStay
  BY DEF NamesStay, Names
<1>6. ASSUME NEW r \in Runs, put'[r] = put[r], Spill!Fits(r) PROVE Spill!Fits(r)'
  <2> DEFINE n == Spill!Bytes(put[r].body)
  <2>1. n \in Nat
    BY BytesIs DEF Putting, Puts
  <2>2. /\ n <= MaxEntryBytes /\ Spill!Usage(Of(files, r)) + n <= MaxRunBytes
        /\ Spill!Usage(files) + n <= MaxTotalBytes
    BY <1>6 DEF Spill!Fits, Of
  <2> HIDE DEF n
  <2>3. /\ n <= MaxEntryBytes /\ Spill!Usage(Of(files', r)) + n <= MaxRunBytes
        /\ Spill!Usage(files') + n <= MaxTotalBytes
    BY <1>1, <1>2, <2>1, <2>2, SpillAssumption
  <2> QED BY <1>6, <2>3 DEF Spill!Fits, n, Of
<1> QED BY <1>4, <1>5, <1>6 DEF RoomStays

\* A sweep removes entries and gives their ids to no other.
LEMMA SweptFiles ==
  ASSUME Filed, Putting, NEW removed \in SUBSET files, files' = files \ removed,
         expired' = expired \cup {f.id : f \in removed}
  PROVE  Filed' /\ NamesStay /\ RoomStays
<1>1. Used' = Used
  BY DEF Used
<1>2. /\ \A g \in files' : IsEntry(g) /\ \E f \in files : g.id = f.id /\ g.run = f.run /\ g.body = f.body
      /\ \A f, g \in files' : f.id = g.id => f = g
  BY DEF Filed
<1>3. \A f \in files' : f.id \notin expired'
  BY DEF Filed
<1> QED BY <1>1, <1>2, <1>3, ShrunkFiles

\* Time changes no entry but its age.
LEMMA AgedFiles ==
  ASSUME Filed, Putting, files' = {[f EXCEPT !.old = TRUE] : f \in files}, expired' = expired
  PROVE  Filed' /\ NamesStay /\ RoomStays
<1> DEFINE Aged(f) == [f EXCEPT !.old = TRUE]
<1>1. ASSUME NEW f \in files
      PROVE  IsEntry(Aged(f)) /\ Aged(f).id = f.id /\ Aged(f).run = f.run /\ Aged(f).body = f.body
  <2>1. f = [x \in EntryFields |-> f[x]] /\ f.id \in Nat /\ f.run \in Runs /\ f.body \in Seq(Widths)
    BY DEF Filed, IsEntry
  <2> QED BY <2>1 DEF EntryFields, IsEntry
<1>2. files' = {Aged(f) : f \in files}
  OBVIOUS
<1> HIDE DEF Aged
<1>3. Used' = Used
  BY <1>1, <1>2 DEF Used
<1>4. /\ \A g \in files' : IsEntry(g) /\ \E f \in files : g.id = f.id /\ g.run = f.run /\ g.body = f.body
      /\ \A f, g \in files' : f.id = g.id => f = g
      /\ \A f \in files' : f.id \notin expired'
  BY <1>1, <1>2 DEF Filed
<1> QED BY <1>3, <1>4, ShrunkFiles

\* Nothing happens to the entries.
LEMMA SameFiles ==
  ASSUME Filed, Putting, UNCHANGED <<files, expired>>
  PROVE  Filed' /\ NamesStay /\ RoomStays
<1>1. Used' = Used
  BY DEF Used
<1> QED BY <1>1, ShrunkFiles DEF Filed

\* A copy that is committed has room, and a number no other entry ever had.
LEMMA AddedFiles ==
  ASSUME Filed, Putting, NEW r \in Runs, Spill!Fits(r), expired' = expired,
         files' = files \cup {[id |-> Spill!NextId, run |-> r, body |-> put[r].body, old |-> FALSE]},
         NEW id, NEW body, id = Spill!NextId, body = put[r].body
  PROVE  Filed' /\ NamesStay /\ Names(id, r, body)'
<1> DEFINE e == [id |-> Spill!NextId, run |-> r, body |-> put[r].body, old |-> FALSE]
           b == Spill!Bytes(put[r].body)
<1>1. PICK n \in Nat : Used = 1..n
  BY DEF Filed
<1>2. Spill!NextId = n + 1
  <2>1. Spill!NextId = Cardinality(Used) + 1
    BY CardinalityIs DEF Spill!NextId, Used
  <2> QED BY <1>1, <2>1, CountIs
<1>3. IsEntry(e) /\ e.id = n + 1 /\ e.run = r /\ e.body = put[r].body /\ e.body \in Seq(Widths)
  <2>1. put[r].body \in Seq(Widths)
    BY DEF Putting, Puts
  <2> QED BY <1>2, <2>1 DEF IsEntry, EntryFields
<1>4. files' = files \cup {e}
  OBVIOUS
<1> HIDE DEF e
<1>5. Used' = 1..(n + 1)
  <2>1. Used' = Used \cup {n + 1}
    BY <1>3, <1>4 DEF Used
  <2> QED BY <1>1, <2>1
<1>6. n + 1 \notin Used
  BY <1>1
<1>7. /\ \A f \in files' : IsEntry(f) /\ f.id \notin expired'
      /\ \A f, g \in files' : f.id = g.id => f = g
  BY <1>3, <1>4, <1>6 DEF Filed, Used
<1>8. /\ IsFiniteSet(Units(files')) /\ Spill!Usage(files') \in Nat
      /\ Spill!Usage(files') <= Spill!Usage(files) + b
  BY <1>3, <1>4, UnitsGrow DEF Filed
<1>9. ASSUME NEW q \in Runs
      PROVE  /\ Spill!Usage(Of(files', q)) \in Nat
             /\ Spill!Usage(Of(files', q))
                    <= Spill!Usage(Of(files, q)) + (IF q = r THEN b ELSE 0)
  <2> DEFINE S == Of(files, q)
  <2>1. IsFiniteSet(Units(S)) /\ Spill!Usage(S) \in Nat
    BY UnitsShrink DEF Filed, Of
  <2>2. CASE q = r
    <3>1. Of(files', q) = S \cup {e}
      BY <1>3, <1>4, <2>2 DEF Of
    <3> HIDE DEF S
    <3>2. Spill!Usage(S \cup {e}) \in Nat /\ Spill!Usage(S \cup {e}) <= Spill!Usage(S) + b
      BY <1>3, <2>1, UnitsGrow
    <3> QED BY <2>2, <3>1, <3>2 DEF S
  <2>3. CASE q # r
    <3>1. Of(files', q) = S
      BY <1>3, <1>4, <2>3 DEF Of
    <3> HIDE DEF S
    <3> QED BY <2>1, <2>3, <3>1 DEF S
  <2> QED BY <2>2, <2>3
<1>10. Spill!QuotaHeld'
  <2>1. /\ Spill!Usage(Of(files, r)) + b <= MaxRunBytes /\ Spill!Usage(files) + b <= MaxTotalBytes
    BY DEF Spill!Fits, Of
  <2>2. b \in Nat /\ Spill!Usage(files) \in Nat /\ \A q \in Runs : Spill!Usage(Of(files, q)) \in Nat
    BY UnitsShrink, BytesIs, <1>3 DEF Filed, Of
  <2> HIDE DEF b
  <2>3. Spill!Usage(files') <= MaxTotalBytes
    BY <1>8, <2>1, <2>2, SpillAssumption
  <2>4. ASSUME NEW q \in Runs PROVE Spill!Usage(Of(files', q)) <= MaxRunBytes
    <3> DEFINE old == Spill!Usage(Of(files, q))
               new == Spill!Usage(Of(files', q))
    <3>3. /\ new \in Nat /\ old \in Nat /\ new <= old + (IF q = r THEN b ELSE 0)
          /\ q = r => old + b <= MaxRunBytes
      BY <1>9, <2>1, <2>2
    <3>4. old <= MaxRunBytes
      BY DEF Filed, Spill!QuotaHeld, Of
    <3> HIDE DEF old, new
    <3>1. CASE q = r
      BY <2>2, <3>1, <3>3, SpillAssumption DEF new
    <3>2. CASE q # r
      BY <2>2, <3>2, <3>3, <3>4, SpillAssumption DEF new
    <3> QED BY <3>1, <3>2
  <2> QED BY <2>3, <2>4 DEF Spill!QuotaHeld, Of
<1>11. Filed'
  BY <1>5, <1>7, <1>8, <1>10 DEF Filed
<1>12. NamesStay
  BY <1>3, <1>4, <1>5, <1>1, <1>6 DEF NamesStay, Names
<1>13. Names(id, r, body)'
  <2>1. n + 1 \in Used' /\ \A f \in files' : f.id = n + 1 => f = e
    BY <1>3, <1>4, <1>5, <1>6 DEF Used
  <2> QED BY <1>2, <1>3, <2>1 DEF Names
<1> QED BY <1>11, <1>12, <1>13

\* One run's put takes a step: the locks and puts of the others stay, and so do their files' names.
LEMMA PutStep ==
  ASSUME SpillInv, Filed', NamesStay, NEW r \in Runs,
         UNCHANGED <<published, reader>>,
         stage' \in [Runs -> Stages], put' \in [Runs -> Puts],
         \A q \in Runs : q # r => stage'[q] = stage[q] /\ put'[q] = put[q] /\ (lock = q => lock' = q),
         \A q \in Runs : q # r /\ stage[q] = "copy" => Spill!Fits(q)',
         stage'[r] = "copy" => lock' = r /\ Spill!Fits(r)',
         stage'[r] = "stored" => Named(r)'
  PROVE  SpillInv'
<1>1. ASSUME NEW q \in Runs
      PROVE  /\ stage'[q] = "copy" => lock' = q /\ Spill!Fits(q)'
             /\ stage'[q] = "stored" => Named(q)'
  <2>1. CASE q = r
    BY <2>1
  <2>2. CASE q # r
    BY <2>2 DEF SpillInv, Putting, NamesStay, Named
  <2> QED BY <2>1, <2>2
<1>2. Putting'
  BY <1>1 DEF Putting
<1>3. Located' /\ Reading'
  BY DEF SpillInv, Located, Reading, HasRead, NamesStay
<1> QED BY <1>2, <1>3 DEF SpillInv

\* A way out of a put leaves the others where they are.
LEMMA LeaveIs ==
  ASSUME SpillInv, NEW r \in Runs, Spill!Leave(r)
  PROVE  /\ stage' \in [Runs -> Stages] /\ put' \in [Runs -> Puts] /\ stage'[r] = "idle"
         /\ \A q \in Runs : q # r => stage'[q] = stage[q] /\ put'[q] = put[q] /\ (lock = q => lock' = q)
<1>1. Spill!NoPut \in Puts
  BY DEF Spill!NoPut, Puts
<1>2. stage' = [stage EXCEPT ![r] = "idle"] /\ put' = [put EXCEPT ![r] = Spill!NoPut]
      /\ lock' = IF lock = r THEN Spill!Nobody ELSE lock
  BY DEF Spill!Leave
<1> QED BY <1>1, <1>2 DEF SpillInv, Putting, Stages

\* A put that ends, and its entries stay.
LEMMA LeaveStep ==
  ASSUME SpillInv, NEW r \in Runs, Spill!Leave(r), UNCHANGED <<published, reader>>,
         Filed', NamesStay, \A q \in Runs : q # r /\ stage[q] = "copy" => Spill!Fits(q)'
  PROVE  SpillInv'
BY LeaveIs, PutStep

\* A step of one run that leaves the entries as they are.
LEMMA QuietStep ==
  ASSUME SpillInv, NEW r \in Runs, UNCHANGED <<files, expired, published, reader>>,
         stage' \in [Runs -> Stages], put' \in [Runs -> Puts],
         \A q \in Runs : q # r => stage'[q] = stage[q] /\ put'[q] = put[q] /\ (lock = q => lock' = q),
         stage'[r] = "copy" => lock' = r /\ put'[r] = put[r] /\ Spill!Fits(r),
         stage'[r] # "stored"
  PROVE  SpillInv'
<1>1. Filed' /\ NamesStay /\ RoomStays
  BY SameFiles DEF SpillInv
<1>2. \A q \in Runs : q # r /\ stage[q] = "copy" => Spill!Fits(q)'
  BY <1>1 DEF RoomStays, SpillInv, Putting
<1>3. stage'[r] = "copy" => lock' = r /\ Spill!Fits(r)'
  BY <1>1 DEF RoomStays
<1> QED BY <1>1, <1>2, <1>3, PutStep

\* A sweep, of a put or at the end of a run: nobody copies.
LEMMA SweepIs ==
  ASSUME SpillInv, NEW protected, NEW removed \in SUBSET Spill!Removable(protected), Spill!Cleanup(protected, removed)
  PROVE  Filed' /\ NamesStay /\ \A q \in Runs : stage[q] # "copy"
<1>1. lock = Spill!Nobody /\ files' = files \ removed /\ expired' = expired \cup {f.id : f \in removed}
  BY DEF Spill!Cleanup
<1>2. removed \in SUBSET files
  BY DEF Spill!Removable
<1>3. \A q \in Runs : stage[q] # "copy"
  BY <1>1, SpillAssumption DEF SpillInv, Putting, Spill!Nobody
<1> QED BY <1>1, <1>2, <1>3, SweptFiles DEF SpillInv

\* Committing gives the entry a number nobody had, and the put its name.
LEMMA SpillCommitStep == ASSUME SpillInv, NEW r \in Runs, Spill!Commit(r) PROVE SpillInv'
<1>1. stage[r] = "copy" /\ expired' = expired /\ UNCHANGED <<published, reader>>
      /\ files' = files \cup {[id |-> Spill!NextId, run |-> r, body |-> put[r].body, old |-> FALSE]}
  BY DEF Spill!Commit
<1>2. lock = r /\ Spill!Fits(r) /\ put[r] \in Puts /\ put[r].body \in Seq(Widths)
  BY <1>1 DEF SpillInv, Putting, Puts
<1> DEFINE id == Spill!NextId
           body == put[r].body
<1>3. Filed' /\ NamesStay /\ \A i, b : i = id /\ b = body => Names(i, r, b)'
  BY <1>1, <1>2, AddedFiles DEF SpillInv
<1>4. \A q \in Runs : q # r => stage[q] # "copy"
  BY <1>2 DEF SpillInv, Putting
<1>5. CASE Spill!Leave(r)
  BY <1>1, <1>3, <1>4, <1>5, LeaveStep
<1>6. CASE stage' = [stage EXCEPT ![r] = "stored"] /\ put' = [put EXCEPT ![r].id = id] /\ lock' = Spill!Nobody
  <2>1. id \in Nat
    <3>1. PICK n \in Nat : Used = 1..n
      BY DEF SpillInv, Filed
    <3>2. id = Cardinality(Used) + 1
      BY CardinalityIs DEF Spill!NextId, Used
    <3> HIDE DEF id
    <3> QED BY <3>1, <3>2, CountIs
  <2> HIDE DEF id, body
  <2>2. put[r] = [body |-> body, id |-> put[r].id] /\ body \in Seq(Widths)
    BY <1>2 DEF Puts, body
  <2>3. put'[r] = [body |-> body, id |-> id] /\ \A q \in Runs : q # r => put'[q] = put[q]
    BY <1>6, <2>2 DEF SpillInv, Putting
  <2>4. put' \in [Runs -> Puts]
    BY <1>6, <2>1, <2>2, <2>3 DEF SpillInv, Putting, Puts
  <2>5. stage' \in [Runs -> Stages] /\ stage'[r] = "stored" /\ \A q \in Runs : q # r => stage'[q] = stage[q]
    BY <1>6 DEF SpillInv, Putting, Stages
  <2>6. Named(r)'
    BY <1>3, <2>3 DEF Named
  <2> QED BY <1>1, <1>2, <1>3, <1>4, <2>3, <2>4, <2>5, <2>6, PutStep
<1> QED BY <1>5, <1>6 DEF Spill!Commit

\* Cleaning up before a put, and at the end of a run.
LEMMA CleanupStep == ASSUME SpillInv, NEW r \in Runs, Spill!CleanupFirst(r) PROVE SpillInv'
<1>1. PICK removed \in SUBSET Spill!Removable(active[ArchiveOf[r]]) :
         /\ Spill!Cleanup(active[ArchiveOf[r]], removed)
         /\ Spill!Leave(r) \/ (stage' = [stage EXCEPT ![r] = "put"] /\ UNCHANGED <<lock, put>>)
  BY DEF Spill!CleanupFirst
<1>2. Filed' /\ NamesStay /\ (\A q \in Runs : stage[q] # "copy") /\ UNCHANGED <<published, reader>>
  BY <1>1, SweepIs DEF Spill!CleanupFirst
<1>3. CASE Spill!Leave(r)
  BY <1>2, <1>3, LeaveStep
<1>4. CASE stage' = [stage EXCEPT ![r] = "put"] /\ UNCHANGED <<lock, put>>
  <2>1. /\ stage' \in [Runs -> Stages] /\ put' \in [Runs -> Puts] /\ stage'[r] = "put"
        /\ \A q \in Runs : q # r => stage'[q] = stage[q] /\ put'[q] = put[q] /\ (lock = q => lock' = q)
    BY <1>4 DEF SpillInv, Putting, Stages
  <2> QED BY <1>2, <2>1, PutStep
<1> QED BY <1>1, <1>3, <1>4

\* The sweep at the end of a run removes entries, and no put of it is under way.
LEMMA SpillFinishStep == ASSUME SpillInv, NEW r \in Runs, Spill!Finish(r) PROVE SpillInv'
<1>1. PICK removed \in SUBSET Spill!Removable(active'[ArchiveOf[r]]) : Spill!Cleanup(active'[ArchiveOf[r]], removed)
  BY DEF Spill!Finish
<1>2. UNCHANGED <<lock, stage, put, published, reader>>
  BY DEF Spill!Finish
<1>3. lock = Spill!Nobody /\ files' = files \ removed /\ expired' = expired \cup {f.id : f \in removed}
      /\ removed \in SUBSET files
  BY <1>1 DEF Spill!Cleanup, Spill!Removable
<1>4. \A q \in Runs : stage[q] # "copy"
  BY <1>3, SpillAssumption DEF SpillInv, Putting, Spill!Nobody
<1>5. Filed' /\ NamesStay
  BY <1>3, SweptFiles DEF SpillInv
<1>6. /\ stage' \in [Runs -> Stages] /\ put' \in [Runs -> Puts]
      /\ \A q \in Runs : stage'[q] = stage[q] /\ put'[q] = put[q]
  BY <1>2 DEF SpillInv, Putting
<1>7. stage'[r] = "stored" => Named(r)'
  BY <1>2, <1>5 DEF SpillInv, Putting, NamesStay, Named
<1> QED BY <1>2, <1>4, <1>5, <1>6, <1>7, PutStep

\* A reservation is made under the store's lock, and checks the quotas.
LEMMA SpillReserveStep == ASSUME SpillInv, NEW r \in Runs, Spill!Reserve(r) PROVE SpillInv'
<1>1. lock = Spill!Nobody /\ UNCHANGED <<files, expired, published, reader>>
  BY DEF Spill!Reserve
<1>2. CASE Spill!Leave(r)
  BY <1>1, <1>2, LeaveIs, QuietStep
<1>3. CASE Spill!Fits(r) /\ lock' = r /\ stage' = [stage EXCEPT ![r] = "copy"] /\ UNCHANGED put
  <2>1. /\ stage' \in [Runs -> Stages] /\ put' \in [Runs -> Puts] /\ stage'[r] = "copy"
        /\ \A q \in Runs : q # r => stage'[q] = stage[q] /\ put'[q] = put[q] /\ (lock = q => lock' = q)
    BY <1>1, <1>3, SpillAssumption DEF SpillInv, Putting, Stages, Spill!Nobody
  <2> QED BY <1>1, <1>3, <2>1, QuietStep
<1> QED BY <1>2, <1>3 DEF Spill!Reserve

\* What a result shows names the entry that was stored for it.
LEMMA SpillPublishStep == ASSUME SpillInv, NEW r \in Runs, NEW fits \in BOOLEAN, Spill!Publish(r, fits) PROVE SpillInv'
<1>1. /\ stage[r] = "stored" /\ stage' = [stage EXCEPT ![r] = "idle"] /\ put' = [put EXCEPT ![r] = Spill!NoPut]
      /\ UNCHANGED <<files, expired, reader, lock>>
  BY DEF Spill!Publish
<1> DEFINE p == [id |-> put[r].id, run |-> r, body |-> put[r].body]
<1>2. published' \in {published, published \cup {p}}
  BY DEF Spill!Publish
<1>3. p.body \in Seq(Widths) /\ Names(p.id, p.run, p.body) /\ p.id = put[r].id
  BY <1>1 DEF SpillInv, Putting, Puts, Named
<1> HIDE DEF p
<1>4. Filed' /\ NamesStay /\ RoomStays
  BY <1>1, SameFiles DEF SpillInv
<1>5. Located'
  BY <1>2, <1>3, <1>4 DEF SpillInv, Located, NamesStay
<1>6. Reading'
  BY <1>1, <1>2 DEF SpillInv, Reading, HasRead
<1>7. /\ stage' \in [Runs -> Stages] /\ put' \in [Runs -> Puts] /\ stage'[r] = "idle"
      /\ \A q \in Runs : q # r => stage'[q] = stage[q] /\ put'[q] = put[q]
  BY <1>1 DEF SpillInv, Putting, Stages, Puts, Spill!NoPut
<1>8. Putting'
  <2> SUFFICES ASSUME NEW q \in Runs
               PROVE  (stage'[q] = "copy" => lock' = q /\ Spill!Fits(q)') /\ (stage'[q] = "stored" => Named(q)')
    BY <1>7 DEF Putting
  <2>1. CASE q = r
    BY <1>7, <2>1
  <2>2. CASE q # r
    BY <1>1, <1>4, <1>7, <2>2 DEF SpillInv, Putting, NamesStay, RoomStays, Named
  <2> QED BY <2>1, <2>2
<1> QED BY <1>4, <1>5, <1>6, <1>8 DEF SpillInv

\* Steps that touch no put: the entries and the locators stay named.
LEMMA AsideStep ==
  ASSUME SpillInv, UNCHANGED <<lock, stage, put, published>>, Filed', NamesStay, RoomStays, Reading'
  PROVE  SpillInv'
<1>1. Putting'
  BY DEF SpillInv, Putting, NamesStay, RoomStays, Named
<1>2. Located'
  BY DEF SpillInv, Located, NamesStay
<1> QED BY <1>1, <1>2 DEF SpillInv

\* A reader starts before the first character.
LEMMA SpillOpenStep == ASSUME SpillInv, NEW p \in published, Spill!Open(p) PROVE SpillInv'
<1>1. UNCHANGED <<files, expired, lock, stage, put, published>>
      /\ reader' = [id |-> p.id, offset |-> 0, text |-> <<>>, eof |-> FALSE]
  BY DEF Spill!Open, Spill!NoReader
<1>2. p.body \in Seq(Widths)
  BY DEF SpillInv, Located
<1>3. 0 \in 0..Len(p.body) /\ Spill!Prefix(p.body)[0] = 0 /\ SubSeq(p.body, 1, 0) = <<>>
  BY <1>2, PrefixIs DEF Sums
<1>4. Reading'
  <2>1. /\ reader' = [id |-> p.id, offset |-> Spill!Prefix(p.body)[0], text |-> SubSeq(p.body, 1, 0), eof |-> FALSE]
        /\ p \in published'
    BY <1>1, <1>3
  <2>2. HasRead(p, 0)'
    BY <2>1 DEF HasRead
  <2> QED BY <1>3, <2>1, <2>2 DEF Reading
<1> QED BY <1>1, <1>4, SameFiles, AsideStep DEF SpillInv

\* A page goes on where the last one ended.
LEMMA SpillReadStep == ASSUME SpillInv, NEW limit, Spill!ReadPage(limit) PROVE SpillInv'
<1>1. UNCHANGED <<files, expired, lock, stage, put, published>> /\ reader # Spill!NoReader
  BY DEF Spill!ReadPage
<1>2. CASE reader' = Spill!NoReader
  <2>1. Reading'
    BY <1>2 DEF Reading
  <2> QED BY <1>1, <2>1, SameFiles, AsideStep DEF SpillInv
<1>3. ASSUME NEW f \in files, f.id = reader.id,
             LET page == Spill!Page(f.body, reader.offset, limit)
                 next_offset == reader.offset + Spill!Bytes(page)
             IN  reader' = [reader EXCEPT !.offset = next_offset, !.text = @ \o page,
                                          !.eof = next_offset >= Spill!Bytes(f.body)]
      PROVE  SpillInv'
  <2>0. PICK p \in published : \E k \in 0..Len(p.body) : HasRead(p, k)
    BY <1>1 DEF SpillInv, Reading
  <2>a. PICK k \in 0..Len(p.body) : HasRead(p, k)
    BY <2>0
  <2>1. PICK eof \in BOOLEAN :
           reader = [id |-> p.id, offset |-> Spill!Prefix(p.body)[k], text |-> SubSeq(p.body, 1, k), eof |-> eof]
    BY <2>a DEF HasRead
  <2>2. p.body \in Seq(Widths) /\ Names(p.id, p.run, p.body)
    BY DEF SpillInv, Located
  <2>3. f.body = p.body
    BY <1>3, <2>1, <2>2 DEF Names
  <2> DEFINE body == p.body
             P == Spill!Prefix(body)
             page == Spill!Page(body, P[k], limit)
             done == P[k] + Spill!Bytes(page) >= Spill!Bytes(body)
  <2>4. PICK m \in 0..(Len(body) - k) : Spill!Bytes(page) = P[k + m] - P[k] /\ SubSeq(body, 1, k) \o page = SubSeq(body, 1, k + m)
    BY <2>2, PageIs
  <2>5. reader' = [id |-> p.id, offset |-> P[k] + Spill!Bytes(page), text |-> SubSeq(body, 1, k) \o page, eof |-> done]
    <3>1. reader.offset = P[k] /\ reader.text = SubSeq(body, 1, k) /\ reader.id = p.id
      BY <2>1
    <3>2. reader' = [reader EXCEPT !.offset = P[k] + Spill!Bytes(page), !.text = reader.text \o page, !.eof = done]
      BY <1>3, <2>3, <3>1
    <3> HIDE DEF page, done, P, body
    <3> QED BY <2>1, <3>1, <3>2
  <2>6. k \in Nat /\ Len(body) \in Nat /\ k + m \in 0..Len(body) /\ k \in 0..Len(body)
    BY <2>2
  <2>7. P[k + m] \in Nat /\ P[k] \in Nat /\ Spill!Bytes(body) = P[Len(body)]
    BY <2>2, <2>6, PrefixIs DEF Sums, Spill!Bytes
  <2>8. done => k + m = Len(body)
    <3>1. Len(body) \in 0..Len(body)
      BY <2>6
    <3>2. P[Len(body)] <= P[k + m] <=> Len(body) <= k + m
      BY <2>2, <2>6, <3>1, PrefixGrows
    <3>3. P[Len(body)] \in Nat
      BY <2>2, <3>1, PrefixIs DEF Sums
    <3>4. done => P[Len(body)] <= P[k + m]
      <4> HIDE DEF page, P, body
      <4> QED BY <2>4, <2>7, <3>3
    <3> HIDE DEF done, P, page
    <3> QED BY <2>6, <3>2, <3>4
  <2>9. P[k] + Spill!Bytes(page) = P[k + m]
    <3> HIDE DEF page, P, body
    <3> QED BY <2>4, <2>7
  <2>10. done \in BOOLEAN
    OBVIOUS
  <2> HIDE DEF done, page
  <2>11. reader' = [id |-> p.id, offset |-> P[k + m], text |-> SubSeq(body, 1, k + m), eof |-> done]
    BY <2>4, <2>5, <2>9
  <2>12. Reading'
    <3>1. HasRead(p, k + m)'
      BY <2>8, <2>10, <2>11 DEF HasRead
    <3> QED BY <1>1, <2>6, <3>1 DEF Reading
  <2> QED BY <1>1, <2>12, SameFiles, AsideStep DEF SpillInv
<1> QED BY <1>2, <1>3 DEF Spill!ReadPage

\* A restart leaves no put and no reader.
LEMMA SpillRestartStep == ASSUME SpillInv, Spill!Restart PROVE SpillInv'
<1>1. /\ files' = files \ Spill!Removable({}) /\ expired' = expired \cup {f.id : f \in Spill!Removable({})}
      /\ stage' = [r \in Runs |-> "idle"] /\ put' = [r \in Runs |-> Spill!NoPut] /\ reader' = Spill!NoReader
      /\ published' = published
  BY DEF Spill!Restart
<1>2. Spill!Removable({}) \in SUBSET files
  BY DEF Spill!Removable
<1>3. Filed' /\ NamesStay
  BY <1>1, <1>2, SweptFiles DEF SpillInv
<1>4. Putting'
  BY <1>1 DEF Putting, Stages, Puts, Spill!NoPut
<1>5. Located' /\ Reading'
  BY <1>1, <1>3 DEF SpillInv, Located, Reading, HasRead, NamesStay
<1> QED BY <1>3, <1>4, <1>5 DEF SpillInv

\* Every step of the archive keeps its invariant.
LEMMA SpillStep == ASSUME SpillInv, Spill!Next PROVE SpillInv'
<1>1. ASSUME NEW r \in Runs, NEW text \in Bodies, Spill!Transform(r, text) PROVE SpillInv'
  <2>1. /\ stage' = [stage EXCEPT ![r] = "admit"] /\ put' = [put EXCEPT ![r].body = text]
        /\ UNCHANGED <<files, lock, published, expired, reader>>
    BY <1>1 DEF Spill!Transform
  <2>2. text \in Seq(Widths)
    BY SpillAssumption DEF Widths
  <2>3. put[r] = [body |-> put[r].body, id |-> put[r].id] /\ put[r].id \in Nat
    BY DEF SpillInv, Putting, Puts
  <2>4. put'[r] = [body |-> text, id |-> put[r].id] /\ put' \in [Runs -> Puts]
        /\ \A q \in Runs : q # r => put'[q] = put[q]
    <3>1. put'[r] = [put[r] EXCEPT !.body = text] /\ \A q \in Runs : q # r => put'[q] = put[q]
      BY <2>1 DEF SpillInv, Putting
    <3>2. put'[r] = [body |-> text, id |-> put[r].id]
      BY <2>3, <3>1
    <3>3. put'[r] \in Puts
      BY <2>2, <2>3, <3>2 DEF Puts
    <3> QED BY <2>1, <3>1, <3>2, <3>3 DEF SpillInv, Putting
  <2>5. stage' \in [Runs -> Stages] /\ stage'[r] = "admit" /\ \A q \in Runs : q # r => stage'[q] = stage[q]
    BY <2>1 DEF SpillInv, Putting, Stages
  <2> QED BY <2>1, <2>4, <2>5, QuietStep
<1>2. ASSUME NEW r \in Runs, Spill!Admit(r) PROVE SpillInv'
  <2>1. stage' = [stage EXCEPT ![r] = "cleanup"] /\ UNCHANGED <<files, lock, put, published, expired, reader>>
    BY <1>2 DEF Spill!Admit
  <2>2. stage' \in [Runs -> Stages] /\ stage'[r] = "cleanup" /\ \A q \in Runs : q # r => stage'[q] = stage[q]
    BY <2>1 DEF SpillInv, Putting, Stages
  <2> QED BY <2>1, <2>2, QuietStep DEF SpillInv, Putting
<1>3. ASSUME NEW r \in Runs, Spill!CopyFails(r) \/ Spill!Abandon(r) PROVE SpillInv'
  <2>1. Spill!Leave(r) /\ UNCHANGED <<files, published, expired, reader>>
    BY <1>3 DEF Spill!CopyFails, Spill!Abandon
  <2> QED BY <2>1, LeaveIs, QuietStep
<1>4. ASSUME NEW r \in Runs, Spill!Cancel(r) PROVE SpillInv'
  <2>1. UNCHANGED <<files, lock, stage, put, published, expired, reader>>
    BY <1>4 DEF Spill!Cancel
  <2>2. Reading'
    BY <2>1 DEF SpillInv, Reading, HasRead
  <2> QED BY <2>1, <2>2, SameFiles, AsideStep DEF SpillInv
<1>5. CASE Spill!Age
  <2>1. /\ UNCHANGED <<lock, stage, put, published, expired, reader>>
        /\ files' = {[f EXCEPT !.old = TRUE] : f \in files}
    BY <1>5 DEF Spill!Age
  <2>2. Reading'
    BY <2>1 DEF SpillInv, Reading, HasRead
  <2> QED BY <2>1, <2>2, AgedFiles, AsideStep DEF SpillInv
<1> QED BY <1>1, <1>2, <1>3, <1>4, <1>5, CleanupStep, SpillFinishStep, SpillReserveStep, SpillCommitStep,
           SpillPublishStep, SpillOpenStep, SpillReadStep, SpillRestartStep DEF Spill!Next

\* An empty archive.
LEMMA SpillInit == Spill!Init => SpillInv
<1> SUFFICES ASSUME Spill!Init PROVE SpillInv
  OBVIOUS
<1>1. files = {} /\ expired = {} /\ published = {} /\ reader = Spill!NoReader
      /\ stage = [r \in Runs |-> "idle"] /\ put = [r \in Runs |-> Spill!NoPut]
  BY DEF Spill!Init
<1>2. Used = 1..0
  BY <1>1 DEF Used
<1>3. IsFiniteSet(Units({})) /\ Spill!Usage({}) = 0
  <2>1. Units({}) = {}
    BY DEF Units
  <2> QED BY <2>1, FS_EmptySet, UsageIs
<1>4. Spill!QuotaHeld
  <2>1. \A r \in Runs : {f \in files : f.run = r} = {}
    BY <1>1
  <2> QED BY <1>1, <1>3, <2>1, SpillAssumption DEF Spill!QuotaHeld
<1>5. Filed
  BY <1>1, <1>2, <1>3, <1>4 DEF Filed
<1>6. Putting /\ Located /\ Reading
  BY <1>1 DEF Putting, Located, Reading, Stages, Puts, Spill!NoPut
<1> QED BY <1>5, <1>6 DEF SpillInv

\* An archived result stays within its quotas, is where its locator says until the retention sweep
\* removes it, and reads back whole (LocalSpillStore, SpillArchive, the reading tool).
THEOREM ArchiveSoundHolds == AllSpec => []ArchiveSound
<1>1. AllInit => SpillInv
  BY SpillInit DEF AllInit
<1>2. SpillInv /\ [AllNext]_allVars => SpillInv'
  <2> SUFFICES ASSUME SpillInv, [AllNext]_allVars PROVE SpillInv'
    OBVIOUS
  <2>1. Spill!Next \/ UNCHANGED spillVars
    BY DEF AllNext, allVars, Within
  <2>2. CASE UNCHANGED spillVars
    <3>1. UNCHANGED <<files, expired, lock, stage, put, published, reader>>
      BY <2>2 DEF spillVars
    <3>2. Reading'
      BY <3>1 DEF SpillInv, Reading, HasRead
    <3> QED BY <3>1, <3>2, SameFiles, AsideStep DEF SpillInv
  <2> QED BY <2>1, <2>2, SpillStep
<1>3. SpillInv => ArchiveSound
  <2> SUFFICES ASSUME SpillInv PROVE Spill!QuotaHeld /\ Spill!LocatorNamesEntry /\ Spill!ReadsWhole
    BY DEF ArchiveSound, Spill!ArchiveSound
  <2>1. Spill!LocatorNamesEntry
    BY DEF SpillInv, Located, Names, Used, Spill!LocatorNamesEntry
  <2>2. Spill!ReadsWhole
    <3> SUFFICES ASSUME reader.eof PROVE \E p \in published : p.id = reader.id /\ p.body = reader.text
      BY DEF Spill!ReadsWhole
    <3>1. reader # Spill!NoReader
      BY DEF Spill!NoReader
    <3>0. PICK p \in published : \E k \in 0..Len(p.body) : HasRead(p, k)
      BY <3>1 DEF SpillInv, Reading
    <3>a. PICK k \in 0..Len(p.body) : HasRead(p, k)
      BY <3>0
    <3>2. PICK eof \in BOOLEAN :
             /\ reader = [id |-> p.id, offset |-> Spill!Prefix(p.body)[k], text |-> SubSeq(p.body, 1, k), eof |-> eof]
             /\ eof => k = Len(p.body)
      BY <3>a DEF HasRead
    <3>3. p.body \in Seq(Widths)
      BY DEF SpillInv, Located
    <3>4. reader.text = SubSeq(p.body, 1, Len(p.body)) /\ p.id = reader.id
      BY <3>2
    <3>5. SubSeq(p.body, 1, Len(p.body)) = p.body
      BY <3>3
    <3> QED BY <3>4, <3>5
  <2> QED BY <2>1, <2>2 DEF SpillInv, Filed
<1> QED BY <1>1, <1>2, <1>3, PTL DEF AllSpec

-----------------------------------------------------------------------------
(* Compaction                                                              *)

\* The groups of a transcript: all of them, and those of a history, which has no system message.
AnyGroup == [kind : {"user", "step", "media", "system"}, size : Widths, covers : SUBSET Nat]
FreeGroup == [kind : {"user", "step", "media"}, size : Widths, covers : SUBSET Nat]
Handoff(text) == [kind |-> "user", size |-> 1 + text.size, covers |-> text.covers]

\* The sums are the prefix sums of Spill, for any numbers that are not 0.
LEMMA PrefixSums == \A ns : Compactor!Sums(ns) = Spill!Prefix(ns)
BY DEF Compactor!Sums, Spill!Prefix

\* What is in a history is in a transcript.
LEMMA FreeIs == FreeGroup \subseteq AnyGroup /\ \A g \in FreeGroup : g.kind # "system"
BY DEF FreeGroup, AnyGroup

\* The sizes of groups, and their widths in a history.
LEMMA SizesIs ==
  ASSUME NEW gs \in Seq(AnyGroup)
  PROVE  /\ [i \in DOMAIN gs |-> gs[i].size] \in Seq(Widths)
         /\ Len([i \in DOMAIN gs |-> gs[i].size]) = Len(gs)
         /\ [i \in DOMAIN gs |-> Compactor!Width(gs[i])] \in Seq(Widths)
         /\ Len([i \in DOMAIN gs |-> Compactor!Width(gs[i])]) = Len(gs)
<1>1. DOMAIN gs = 1..Len(gs) /\ Len(gs) \in Nat
  OBVIOUS
<1>2. \A i \in 1..Len(gs) : gs[i].size \in Widths /\ Compactor!Width(gs[i]) \in Widths
  <2> TAKE i \in 1..Len(gs)
  <2>1. gs[i] \in AnyGroup
    BY <1>1
  <2> QED BY <2>1 DEF AnyGroup, Compactor!Width, Widths
<1>3. ASSUME NEW f \in [1..Len(gs) -> Widths] PROVE f \in Seq(Widths) /\ Len(f) = Len(gs)
  BY <1>1
<1> DEFINE sizes == [i \in DOMAIN gs |-> gs[i].size]
           widths == [i \in DOMAIN gs |-> Compactor!Width(gs[i])]
<1>4. sizes \in [1..Len(gs) -> Widths] /\ widths \in [1..Len(gs) -> Widths]
  BY <1>1, <1>2
<1> HIDE DEF sizes, widths
<1>5. sizes \in Seq(Widths) /\ Len(sizes) = Len(gs) /\ widths \in Seq(Widths) /\ Len(widths) = Len(gs)
  BY <1>3, <1>4
<1> QED BY <1>5 DEF sizes, widths

\* A transcript has a size.
LEMMA TotalIs == ASSUME NEW gs \in Seq(AnyGroup) PROVE Compactor!Total(gs) \in Nat
<1> DEFINE sizes == [i \in DOMAIN gs |-> gs[i].size]
<1>1. sizes \in Seq(Widths) /\ Len(sizes) = Len(gs)
  BY SizesIs
<1>2. Compactor!Total(gs) = Spill!Prefix(sizes)[Len(gs)]
  BY PrefixSums DEF Compactor!Total
<1> HIDE DEF sizes
<1>3. Len(gs) \in 0..Len(gs)
  OBVIOUS
<1> QED BY <1>1, <1>2, <1>3, PrefixIs DEF Sums

\* A group at the end adds its size.
LEMMA TotalGrows ==
  ASSUME NEW gs \in Seq(AnyGroup), NEW g \in AnyGroup
  PROVE  Compactor!Total(Append(gs, g)) = Compactor!Total(gs) + g.size
<1> DEFINE hs == Append(gs, g)
           N == Len(gs)
           a == [i \in DOMAIN gs |-> gs[i].size]
           b == [i \in DOMAIN hs |-> hs[i].size]
           P == Spill!Prefix(b)
<1>1. hs \in Seq(AnyGroup) /\ Len(hs) = N + 1 /\ N \in Nat /\ DOMAIN hs = 1..(N + 1) /\ DOMAIN gs = 1..N
      /\ (\A i \in 1..N : hs[i] = gs[i]) /\ hs[N + 1] = g
  OBVIOUS
<1>2. a \in Seq(Widths) /\ Len(a) = N /\ b \in Seq(Widths) /\ Len(b) = N + 1
  BY <1>1, SizesIs
<1>3. (\A j \in 1..N : a[j] = b[0 + j]) /\ b[N + 1] = g.size
  BY <1>1
<1>4. Compactor!Total(gs) = Spill!Bytes(a) /\ Compactor!Total(hs) = P[N + 1]
  BY <1>1, <1>2, PrefixSums DEF Compactor!Total, Spill!Bytes
<1> HIDE DEF a, b, hs, N
<1>5. 0 \in Nat /\ 0 + Len(a) <= Len(b) /\ \A j \in 1..Len(a) : a[j] = b[0 + j]
  BY <1>1, <1>2, <1>3
<1>6. Spill!Bytes(a) = P[0 + N] - P[0]
  BY <1>2, <1>5, SliceIs
<1>7. P \in [0..(N + 1) -> Nat] /\ P[0] = 0 /\ \A m \in 1..(N + 1) : P[m] = P[m - 1] + b[m]
  BY <1>2, PrefixIs DEF Sums
<1> HIDE DEF P
<1>8. P[N + 1] = P[N] + g.size
  <2>1. N + 1 \in 1..(N + 1) /\ (N + 1) - 1 = N
    BY <1>1
  <2> QED BY <1>3, <1>7, <2>1
<1>9. P[N] \in Nat /\ 0 + N = N
  BY <1>1, <1>7
<1> QED BY <1>4, <1>6, <1>7, <1>8, <1>9 DEF hs

\* The groups of a history that goes on start where they started, and no two start together.
LEMMA OffsetIs ==
  ASSUME NEW gs \in Seq(AnyGroup), NEW hs \in Seq(AnyGroup), Len(gs) <= Len(hs),
         \A i \in 1..Len(gs) : gs[i] = hs[i]
  PROVE  /\ \A i \in 1..Len(gs) : Compactor!Span(gs, i) = Compactor!Span(hs, i)
         /\ \A i, j \in 1..Len(gs) : Compactor!Offset(gs, i) = Compactor!Offset(gs, j) => i = j
<1> DEFINE N == Len(gs)
           a == [i \in DOMAIN gs |-> Compactor!Width(gs[i])]
           b == [i \in DOMAIN hs |-> Compactor!Width(hs[i])]
           P == Spill!Prefix(a)
           Q == Spill!Prefix(b)
<1>1. N \in Nat /\ Len(hs) \in Nat /\ DOMAIN gs = 1..N /\ DOMAIN hs = 1..Len(hs)
  OBVIOUS
<1>2. a \in Seq(Widths) /\ Len(a) = N /\ b \in Seq(Widths) /\ Len(b) = Len(hs)
  BY SizesIs
<1>3. \A j \in 1..N : a[j] = b[j]
  BY <1>1
<1>4. \A i : Compactor!Offset(gs, i) = P[i - 1] /\ Compactor!Offset(hs, i) = Q[i - 1]
  BY PrefixSums DEF Compactor!Offset
<1>5. \A n \in 0..N : P[n] = Q[n]
  <2>1. P \in [0..N -> Nat] /\ P[0] = 0 /\ \A m \in 1..N : P[m] = P[m - 1] + a[m]
    BY <1>2, PrefixIs DEF Sums
  <2>2. Q \in [0..Len(hs) -> Nat] /\ Q[0] = 0 /\ \A m \in 1..Len(hs) : Q[m] = Q[m - 1] + b[m]
    BY <1>2, PrefixIs DEF Sums
  <2> HIDE DEF P, Q, a, b, N
  <2> DEFINE S == {n \in Nat : n <= N => P[n] = Q[n]}
  <2>3. 0 \in S
    BY <2>1, <2>2
  <2>4. ASSUME NEW n \in Nat, n \in S PROVE n + 1 \in S
    <3> SUFFICES ASSUME n + 1 <= N PROVE P[n + 1] = Q[n + 1]
      OBVIOUS
    <3>1. n + 1 \in 1..N /\ n + 1 \in 1..Len(hs) /\ (n + 1) - 1 = n /\ P[n] = Q[n]
      BY <1>1, <2>4 DEF N
    <3> QED BY <1>3, <2>1, <2>2, <3>1
  <2> HIDE DEF S
  <2>5. Nat \subseteq S
    BY <2>3, <2>4, SetInduction
  <2> QED BY <1>1, <2>5 DEF S
<1>6. \A m, n \in 0..N : P[m] <= P[n] <=> m <= n
  BY <1>2, PrefixGrows
<1>7. \A n \in 0..N : P[n] \in Nat
  BY <1>2, PrefixIs DEF Sums
<1> HIDE DEF P, Q, N
<1>8. ASSUME NEW i \in 1..N PROVE Compactor!Span(gs, i) = Compactor!Span(hs, i)
  <2>1. i - 1 \in 0..N /\ (i + 1) - 1 \in 0..N
    BY <1>1
  <2>2. Compactor!Offset(gs, i) = Compactor!Offset(hs, i) /\ Compactor!Offset(gs, i + 1) = Compactor!Offset(hs, i + 1)
    BY <1>4, <1>5, <2>1
  <2>3. gs[i] = hs[i]
    BY DEF N
  <2> QED BY <2>2, <2>3 DEF Compactor!Span
<1>9. ASSUME NEW i \in 1..N, NEW j \in 1..N, Compactor!Offset(gs, i) = Compactor!Offset(gs, j) PROVE i = j
  <2>1. i - 1 \in 0..N /\ j - 1 \in 0..N /\ P[i - 1] = P[j - 1] /\ P[i - 1] \in Nat
    BY <1>1, <1>4, <1>7, <1>9
  <2>2. i - 1 <= j - 1 /\ j - 1 <= i - 1
    BY <1>6, <2>1
  <2> QED BY <1>1, <2>2
<1> QED BY <1>8, <1>9 DEF N

\* What stands in the place of the n-th group.
Piece(gs, sel, by, n) ==
    IF n \notin sel THEN <<gs[n]>> ELSE IF \A i \in sel : n <= i THEN by ELSE <<>>
\* f holds what the first groups leave, up to n of them.
Keeps(gs, sel, by, n, f) ==
    f \in [0..n -> Seq(AnyGroup)] /\ f[0] = <<>> /\ \A m \in 1..n : f[m] = f[m - 1] \o Piece(gs, sel, by, m)

\* A piece is a sequence of groups.
LEMMA PieceIs ==
  ASSUME NEW gs \in Seq(AnyGroup), NEW sel, NEW by \in Seq(AnyGroup), NEW n \in 1..Len(gs)
  PROVE  Piece(gs, sel, by, n) \in Seq(AnyGroup)
<1>1. gs[n] \in AnyGroup
  OBVIOUS
<1> HIDE DEF AnyGroup
<1> QED BY <1>1 DEF Piece

\* Such a function exists, so that the recursive function of Replaced is one.
LEMMA KeepsExist ==
  ASSUME NEW gs \in Seq(AnyGroup), NEW sel, NEW by \in Seq(AnyGroup)
  PROVE  \A n \in 0..Len(gs) : \E f : Keeps(gs, sel, by, n, f)
<1> DEFINE S == {n \in Nat : n <= Len(gs) => \E f : Keeps(gs, sel, by, n, f)}
<1>1. 0 \in S
  <2> DEFINE f == [m \in 0..0 |-> <<>>]
  <2>1. Keeps(gs, sel, by, 0, f)
    BY DEF Keeps
  <2> HIDE DEF f
  <2> QED BY <2>1
<1>2. ASSUME NEW n \in Nat, n \in S PROVE n + 1 \in S
  <2> SUFFICES ASSUME n + 1 <= Len(gs) PROVE \E f : Keeps(gs, sel, by, n + 1, f)
    OBVIOUS
  <2>1. PICK f : Keeps(gs, sel, by, n, f)
    BY <1>2
  <2>2. Piece(gs, sel, by, n + 1) \in Seq(AnyGroup) /\ f[n] \in Seq(AnyGroup)
    BY <2>1, PieceIs DEF Keeps
  <2>3. f[n] \o Piece(gs, sel, by, n + 1) \in Seq(AnyGroup)
    BY <2>2, ConcatProperties
  <2> DEFINE g == [m \in 0..(n + 1) |-> IF m = n + 1 THEN f[n] \o Piece(gs, sel, by, n + 1) ELSE f[m]]
  <2>4. g \in [0..(n + 1) -> Seq(AnyGroup)] /\ g[0] = <<>>
    BY <2>1, <2>3 DEF Keeps
  <2>a. \A m \in 0..(n + 1) : g[m] = IF m = n + 1 THEN f[n] \o Piece(gs, sel, by, n + 1) ELSE f[m]
    OBVIOUS
  <2> HIDE DEF g
  <2>5. \A m \in 1..(n + 1) : g[m] = g[m - 1] \o Piece(gs, sel, by, m)
    <3> TAKE m \in 1..(n + 1)
    <3>1. CASE m = n + 1
      <4>1. m - 1 = n /\ m \in 0..(n + 1) /\ n \in 0..(n + 1) /\ n # n + 1
        BY <3>1
      <4>2. g[n] = f[n] /\ g[n + 1] = f[n] \o Piece(gs, sel, by, n + 1)
        BY <2>a, <3>1, <4>1
      <4> QED BY <3>1, <4>1, <4>2
    <3>2. CASE m # n + 1
      <4>1. m \in 1..n /\ m - 1 \in 0..n /\ m - 1 # n + 1
        BY <3>2
      <4>2. f[m] = f[m - 1] \o Piece(gs, sel, by, m)
        BY <2>1, <4>1 DEF Keeps
      <4>3. g[m] = f[m] /\ g[m - 1] = f[m - 1]
        <5>1. m \in 0..(n + 1) /\ m - 1 \in 0..(n + 1)
          BY <4>1
        <5> QED BY <2>a, <3>2, <4>1, <5>1
      <4> QED BY <4>2, <4>3
    <3> QED BY <3>1, <3>2
  <2>6. Keeps(gs, sel, by, n + 1, g)
    BY <2>4, <2>5 DEF Keeps
  <2> QED BY <2>6
<1> HIDE DEF S
<1>3. Nat \subseteq S
  BY <1>1, <1>2, SetInduction
<1> QED BY <1>3 DEF S

\* Replaced is the last of what the function holds.
LEMMA KeptIs ==
  ASSUME NEW gs \in Seq(AnyGroup), NEW sel, NEW by \in Seq(AnyGroup)
  PROVE  \E f : Keeps(gs, sel, by, Len(gs), f) /\ Compactor!Replaced(gs, sel, by) = f[Len(gs)]
<1> DEFINE N == Len(gs)
           F(f) == [n \in 0..N |-> IF n = 0 THEN <<>> ELSE f[n - 1] \o Piece(gs, sel, by, n)]
           Grown == CHOOSE f : f = F(f)
<1>1. Compactor!Replaced(gs, sel, by) = Grown[N]
  BY DEF Compactor!Replaced, Piece
<1>2. N \in Nat
  OBVIOUS
<1>3. PICK f : Keeps(gs, sel, by, N, f)
  <2>1. N \in 0..N
    BY <1>2
  <2> HIDE DEF N
  <2> QED BY <2>1, KeepsExist DEF N
<1>4. f = F(f)
  BY <1>2, <1>3 DEF Keeps
<1>5. Grown = F(Grown)
  BY <1>4
<1> HIDE DEF Grown
<1> DEFINE S == {n \in Nat : n <= N => Grown[n] = f[n]}
<1>6. 0 \in S
  BY <1>2, <1>3, <1>5 DEF Keeps
<1>7. ASSUME NEW n \in Nat, n \in S PROVE n + 1 \in S
  <2> SUFFICES ASSUME n + 1 <= N PROVE Grown[n + 1] = f[n + 1]
    OBVIOUS
  <2>1. n + 1 \in 1..N /\ (n + 1) - 1 = n /\ n + 1 \in 0..N /\ n + 1 # 0
    BY <1>2
  <2>4. Grown[n] = f[n]
    BY <1>2, <1>7
  <2> HIDE DEF N
  <2>2. f[n + 1] = f[n] \o Piece(gs, sel, by, n + 1)
    BY <1>3, <2>1 DEF Keeps
  <2>3. Grown[n + 1] = Grown[n] \o Piece(gs, sel, by, n + 1)
    BY <1>5, <2>1
  <2> QED BY <2>2, <2>3, <2>4
<1> HIDE DEF S
<1>8. Grown[N] = f[N]
  <2>1. Nat \subseteq S
    BY <1>6, <1>7, SetInduction
  <2> QED BY <1>2, <2>1 DEF S
<1> QED BY <1>1, <1>3, <1>8

\* What f has kept of the first n groups: each that was not selected, and by where the selection began.
Left(gs, sel, by, n, s) ==
    /\ \A i \in 1..n : i \notin sel => \E j \in DOMAIN s : s[j] = gs[i]
    /\ (\E i \in 1..n : i \in sel) => \A k \in DOMAIN by : \E j \in DOMAIN s : s[j] = by[k]
    /\ \A j \in DOMAIN s : \/ \E i \in 1..n : i \notin sel /\ s[j] = gs[i]
                           \/ (\E i \in 1..n : i \in sel) /\ \E k \in DOMAIN by : s[j] = by[k]

\* u holds what s and t hold.
Holds(u, s, t) ==
    /\ \A i \in DOMAIN s : \E j \in DOMAIN u : u[j] = s[i]
    /\ \A i \in DOMAIN t : \E j \in DOMAIN u : u[j] = t[i]
    /\ \A j \in DOMAIN u : (\E i \in DOMAIN s : u[j] = s[i]) \/ (\E i \in DOMAIN t : u[j] = t[i])

\* Two sequences in one.
LEMMA JoinedIs ==
  ASSUME NEW S, NEW s \in Seq(S), NEW t \in Seq(S)
  PROVE  s \o t \in Seq(S) /\ Holds(s \o t, s, t)
<1> DEFINE u == s \o t
<1>1. /\ u \in Seq(S) /\ Len(u) = Len(s) + Len(t)
      /\ \A j \in 1..(Len(s) + Len(t)) : u[j] = IF j <= Len(s) THEN s[j] ELSE t[j - Len(s)]
  BY ConcatProperties
<1> HIDE DEF u
<1>2. /\ DOMAIN u = 1..(Len(s) + Len(t)) /\ DOMAIN s = 1..Len(s) /\ DOMAIN t = 1..Len(t)
      /\ Len(s) \in Nat /\ Len(t) \in Nat
  BY <1>1
<1>3. ASSUME NEW i \in 1..Len(s) PROVE i \in DOMAIN u /\ u[i] = s[i]
  BY <1>1, <1>2
<1>4. ASSUME NEW i \in 1..Len(t) PROVE Len(s) + i \in DOMAIN u /\ u[Len(s) + i] = t[i]
  <2>1. Len(s) + i \in 1..(Len(s) + Len(t)) /\ ~(Len(s) + i <= Len(s)) /\ (Len(s) + i) - Len(s) = i
    BY <1>2
  <2> QED BY <1>1, <1>2, <2>1
<1>5. ASSUME NEW j \in DOMAIN u PROVE (\E i \in DOMAIN s : u[j] = s[i]) \/ (\E i \in DOMAIN t : u[j] = t[i])
  <2>1. CASE j <= Len(s)
    <3>1. j \in DOMAIN s /\ u[j] = s[j]
      BY <1>1, <1>2, <2>1
    <3> QED BY <3>1
  <2>2. CASE ~(j <= Len(s))
    <3>1. j - Len(s) \in DOMAIN t /\ u[j] = t[j - Len(s)]
      BY <1>1, <1>2, <2>2
    <3> QED BY <3>1
  <2> QED BY <2>1, <2>2
<1>6. Holds(u, s, t)
  BY <1>2, <1>3, <1>4, <1>5 DEF Holds
<1> QED BY <1>1, <1>6 DEF u

\* One more group, and its piece, leave what they should.
LEMMA LeftGrows ==
  ASSUME NEW gs \in Seq(AnyGroup), NEW sel, NEW by \in Seq(AnyGroup), NEW n \in Nat, n + 1 <= Len(gs),
         NEW s \in Seq(AnyGroup), Left(gs, sel, by, n, s), sel \subseteq Nat \ {0}
  PROVE  Left(gs, sel, by, n + 1, s \o Piece(gs, sel, by, n + 1))
<1> DEFINE t == Piece(gs, sel, by, n + 1)
           u == s \o t
<1>1. t \in Seq(AnyGroup)
  <2>1. n + 1 \in 1..Len(gs)
    OBVIOUS
  <2> QED BY <2>1, PieceIs
<1>2. Holds(u, s, t)
  <2> HIDE DEF t
  <2> QED BY <1>1, JoinedIs
<1>3. \A i : i \in 1..(n + 1) <=> i \in 1..n \/ i = n + 1
  OBVIOUS
<1>4. /\ n + 1 \notin sel => DOMAIN t = {1} /\ t[1] = gs[n + 1]
      /\ n + 1 \in sel => t = IF \A i \in sel : n + 1 <= i THEN by ELSE <<>>
      /\ DOMAIN <<>> = {}
  <2>1. \A g : DOMAIN <<g>> = {1} /\ <<g>>[1] = g
    OBVIOUS
  <2> QED BY <2>1 DEF Piece
<1> HIDE DEF t, u
<1>5. ASSUME n + 1 \in sel, ~(\A i \in sel : n + 1 <= i) PROVE (\E i \in 1..n : i \in sel) /\ DOMAIN t = {}
  <2>1. PICK i \in sel : ~(n + 1 <= i)
    BY <1>5
  <2>2. i \in 1..n
    BY <2>1
  <2> QED BY <1>4, <1>5, <2>1, <2>2
<1>6. ASSUME NEW i \in 1..(n + 1), i \notin sel PROVE \E j \in DOMAIN u : u[j] = gs[i]
  <2>1. CASE i \in 1..n
    <3>1. PICK j \in DOMAIN s : s[j] = gs[i]
      BY <1>6, <2>1 DEF Left
    <3> QED BY <1>2, <3>1 DEF Holds
  <2>2. CASE i = n + 1
    <3>1. 1 \in DOMAIN t /\ t[1] = gs[i]
      BY <1>4, <1>6, <2>2
    <3> QED BY <1>2, <3>1 DEF Holds
  <2> QED BY <1>3, <2>1, <2>2
<1>7. ASSUME NEW i \in 1..(n + 1), i \in sel, NEW k \in DOMAIN by PROVE \E j \in DOMAIN u : u[j] = by[k]
  <2>1. CASE \E m \in 1..n : m \in sel
    <3>1. PICK j \in DOMAIN s : s[j] = by[k]
      BY <2>1 DEF Left
    <3> QED BY <1>2, <3>1 DEF Holds
  <2>2. CASE ~(\E m \in 1..n : m \in sel)
    <3>1. n + 1 \in sel
      BY <1>3, <1>7, <2>2
    <3>2. t = by
      BY <1>4, <1>5, <2>2, <3>1
    <3> QED BY <1>2, <3>2 DEF Holds
  <2> QED BY <2>1, <2>2
<1>8. ASSUME NEW j \in DOMAIN u
      PROVE  \/ \E i \in 1..(n + 1) : i \notin sel /\ u[j] = gs[i]
             \/ (\E i \in 1..(n + 1) : i \in sel) /\ \E k \in DOMAIN by : u[j] = by[k]
  <2>1. CASE \E m \in DOMAIN s : u[j] = s[m]
    <3>1. PICK m \in DOMAIN s : u[j] = s[m]
      BY <2>1
    <3>2. \/ \E i \in 1..n : i \notin sel /\ s[m] = gs[i]
          \/ (\E i \in 1..n : i \in sel) /\ \E k \in DOMAIN by : s[m] = by[k]
      BY <3>1 DEF Left
    <3> QED BY <1>3, <3>1, <3>2
  <2>2. CASE \E m \in DOMAIN t : u[j] = t[m]
    <3>1. PICK m \in DOMAIN t : u[j] = t[m]
      BY <2>2
    <3>2. CASE n + 1 \notin sel
      <4>1. u[j] = gs[n + 1]
        BY <1>4, <3>1, <3>2
      <4> QED BY <1>3, <3>2, <4>1
    <3>3. CASE n + 1 \in sel
      <4>1. t = by
        BY <1>4, <1>5, <3>1, <3>3
      <4> QED BY <1>3, <3>1, <3>3, <4>1
    <3> QED BY <3>2, <3>3
  <2> QED BY <1>2, <2>1, <2>2 DEF Holds
<1>9. Left(gs, sel, by, n + 1, u)
  BY <1>6, <1>7, <1>8 DEF Left
<1> QED BY <1>9 DEF t, u

\* Replacing leaves a transcript of the groups that were not selected, and by if any was.
LEMMA ReplacedIs ==
  ASSUME NEW gs \in Seq(AnyGroup), NEW sel \in SUBSET (1..Len(gs)), NEW by \in Seq(AnyGroup)
  PROVE  /\ Compactor!Replaced(gs, sel, by) \in Seq(AnyGroup)
         /\ Left(gs, sel, by, Len(gs), Compactor!Replaced(gs, sel, by))
<1>1. PICK f : Keeps(gs, sel, by, Len(gs), f) /\ Compactor!Replaced(gs, sel, by) = f[Len(gs)]
  BY KeptIs
<1>2. Len(gs) \in Nat /\ sel \subseteq Nat \ {0}
  OBVIOUS
<1>3. /\ f \in [0..Len(gs) -> Seq(AnyGroup)] /\ f[0] = <<>>
      /\ \A m \in 1..Len(gs) : f[m] = f[m - 1] \o Piece(gs, sel, by, m)
  BY <1>1 DEF Keeps
<1> DEFINE S == {n \in Nat : n <= Len(gs) => Left(gs, sel, by, n, f[n])}
<1>4. 0 \in S
  BY <1>2, <1>3 DEF Left
<1>5. ASSUME NEW n \in Nat, n \in S PROVE n + 1 \in S
  <2> SUFFICES ASSUME n + 1 <= Len(gs) PROVE Left(gs, sel, by, n + 1, f[n + 1])
    OBVIOUS
  <2>1. n + 1 \in 1..Len(gs) /\ (n + 1) - 1 = n /\ n \in 0..Len(gs)
    BY <1>2
  <2>2. f[n] \in Seq(AnyGroup) /\ Left(gs, sel, by, n, f[n])
    <3>1. n <= Len(gs)
      BY <1>2
    <3> QED BY <1>3, <1>5, <2>1, <3>1
  <2>3. f[n + 1] = f[n] \o Piece(gs, sel, by, n + 1)
    BY <1>3, <2>1
  <2> QED BY <1>2, <2>2, <2>3, LeftGrows
<1> HIDE DEF S
<1>6. Nat \subseteq S
  BY <1>4, <1>5, SetInduction
<1>7. Left(gs, sel, by, Len(gs), f[Len(gs)]) /\ f[Len(gs)] \in Seq(AnyGroup)
  BY <1>2, <1>3, <1>6 DEF S
<1> QED BY <1>1, <1>7

\* A summary that stands for a part of a transcript: settled groups, none of them the latest request.
Stands(gs, at, text) ==
    /\ at \in SUBSET (1..Len(gs)) /\ text.size \in Nat /\ text.covers = Compactor!CoveredAt(gs, at)
    /\ \A i \in at : i # Compactor!LatestUser(gs) /\ Compactor!SafeToSummarize(gs[i])

\* A handoff is a group of a history.
LEMMA HandoffIs ==
  ASSUME NEW gs \in Seq(AnyGroup), NEW at \in SUBSET (1..Len(gs)), NEW text, text.size \in Nat,
         text.covers = Compactor!CoveredAt(gs, at)
  PROVE  Handoff(text) \in FreeGroup
<1>1. text.covers \subseteq Nat
  <2>1. \A i \in at : gs[i] \in AnyGroup
    OBVIOUS
  <2>2. \A i \in at : gs[i].covers \subseteq Nat
    BY <2>1 DEF AnyGroup
  <2> QED BY <2>2 DEF Compactor!CoveredAt
<1>2. 1 + text.size \in Widths
  BY DEF Widths
<1> QED BY <1>1, <1>2 DEF Handoff, FreeGroup

\* A projection stands for what the transcript stands for, and has in it whatever was not selected.
LEMMA ProjectIs ==
  ASSUME NEW gs \in Seq(AnyGroup), NEW at \in SUBSET (1..Len(gs)), NEW text, text.size \in Nat,
         text.covers = Compactor!CoveredAt(gs, at)
  PROVE  /\ Compactor!Project(gs, at, text) \in Seq(AnyGroup)
         /\ gs \in Seq(FreeGroup) => Compactor!Project(gs, at, text) \in Seq(FreeGroup)
         /\ Compactor!Covered(Compactor!Project(gs, at, text)) = Compactor!Covered(gs)
         /\ \A i \in (1..Len(gs)) \ at : Compactor!Contains(Compactor!Project(gs, at, text), gs[i])
<1> DEFINE by == <<Handoff(text)>>
           s == Compactor!Project(gs, at, text)
           N == Len(gs)
<1>1. by \in Seq(AnyGroup) /\ DOMAIN by = {1} /\ by[1] = Handoff(text) /\ Handoff(text) \in FreeGroup
  <2>1. Handoff(text) \in FreeGroup
    BY HandoffIs
  <2>2. Handoff(text) \in AnyGroup
    BY <2>1, FreeIs
  <2> QED BY <2>1, <2>2
<1>2. s \in Seq(AnyGroup) /\ Left(gs, at, by, N, s)
  <2>1. s = Compactor!Replaced(gs, at, by)
    BY DEF Compactor!Project, Handoff
  <2> HIDE DEF s, by
  <2> QED BY <1>1, <2>1, ReplacedIs
<1> HIDE DEF by, s
<1>3. DOMAIN gs = 1..N /\ DOMAIN s = 1..Len(s) /\ N \in Nat
  BY <1>2
<1> HIDE DEF N
<1>4. /\ \A i \in 1..N : i \notin at => \E j \in DOMAIN s : s[j] = gs[i]
      /\ \A i \in at : \E j \in DOMAIN s : s[j] = Handoff(text)
      /\ \A j \in DOMAIN s : (\E i \in 1..N : i \notin at /\ s[j] = gs[i]) \/ ((\E i \in at : TRUE) /\ s[j] = Handoff(text))
  <2>1. \A i \in at : i \in 1..N
    BY DEF N
  <2> QED BY <1>1, <1>2, <2>1 DEF Left
<1>5. Handoff(text).covers = Compactor!CoveredAt(gs, at)
  BY DEF Handoff
<1>6. Compactor!Covered(s) = Compactor!Covered(gs)
  <2>1. ASSUME NEW c \in Compactor!Covered(s) PROVE c \in Compactor!Covered(gs)
    <3>1. PICK j \in DOMAIN s : c \in s[j].covers
      BY <2>1 DEF Compactor!Covered, Compactor!CoveredAt
    <3>2. CASE \E i \in 1..N : s[j] = gs[i]
      BY <1>3, <3>1, <3>2 DEF Compactor!Covered, Compactor!CoveredAt
    <3>3. CASE s[j] = Handoff(text)
      <4>1. c \in Compactor!CoveredAt(gs, at)
        BY <1>5, <3>1, <3>3
      <4>2. at \subseteq DOMAIN gs
        BY <1>3 DEF N
      <4> QED BY <4>1, <4>2 DEF Compactor!Covered, Compactor!CoveredAt
    <3> QED BY <1>4, <3>2, <3>3
  <2>2. ASSUME NEW c \in Compactor!Covered(gs) PROVE c \in Compactor!Covered(s)
    <3>1. PICK i \in 1..N : c \in gs[i].covers
      BY <1>3, <2>2 DEF Compactor!Covered, Compactor!CoveredAt
    <3>2. PICK j \in DOMAIN s : s[j] = IF i \in at THEN Handoff(text) ELSE gs[i]
      BY <1>4
    <3>3. c \in s[j].covers
      <4>1. i \in at => c \in Compactor!CoveredAt(gs, at)
        BY <3>1 DEF Compactor!CoveredAt
      <4> QED BY <1>5, <3>1, <3>2, <4>1
    <3> QED BY <3>3 DEF Compactor!Covered, Compactor!CoveredAt
  <2> QED BY <2>1, <2>2
<1>7. ASSUME NEW i \in (1..N) \ at PROVE Compactor!Contains(s, gs[i])
  <2>1. PICK j \in DOMAIN s : s[j] = gs[i]
    BY <1>4
  <2> QED BY <1>3, <2>1 DEF Compactor!Contains
<1>8. ASSUME gs \in Seq(FreeGroup) PROVE s \in Seq(FreeGroup)
  <2>1. \A i \in 1..N : gs[i] \in FreeGroup
    BY <1>3, <1>8
  <2>2. \A j \in DOMAIN s : s[j] \in FreeGroup
    BY <1>1, <1>4, <2>1
  <2> QED BY <1>2, <1>3, <2>2
<1> QED BY <1>2, <1>6, <1>7, <1>8 DEF s, N

\* A group after all that were selected stays at the end.
LEMMA ProjectGrows ==
  ASSUME NEW gs \in Seq(AnyGroup), NEW g \in AnyGroup, NEW at \in SUBSET (1..Len(gs)), NEW text,
         text.size \in Nat, text.covers = Compactor!CoveredAt(gs, at)
  PROVE  Compactor!Project(Append(gs, g), at, text) = Append(Compactor!Project(gs, at, text), g)
<1> DEFINE by == <<Handoff(text)>>
           hs == Append(gs, g)
           N == Len(gs)
<1>1. by \in Seq(AnyGroup)
  <2>1. Handoff(text) \in AnyGroup
    BY HandoffIs, FreeIs
  <2> QED BY <2>1
<1>2. hs \in Seq(AnyGroup) /\ Len(hs) = N + 1 /\ N \in Nat /\ (\A i \in 1..N : hs[i] = gs[i]) /\ hs[N + 1] = g
  OBVIOUS
<1>3. Compactor!Project(gs, at, text) = Compactor!Replaced(gs, at, by)
      /\ Compactor!Project(hs, at, text) = Compactor!Replaced(hs, at, by)
  BY DEF Compactor!Project, Handoff
<1>4. at \subseteq 1..N
  OBVIOUS
<1> HIDE DEF by, hs
<1>5. PICK f : Keeps(gs, at, by, N, f) /\ Compactor!Replaced(gs, at, by) = f[N]
  BY <1>1, KeptIs
<1>6. PICK h : Keeps(hs, at, by, N + 1, h) /\ Compactor!Replaced(hs, at, by) = h[N + 1]
  BY <1>1, <1>2, KeptIs
<1> HIDE DEF N
<1>7. ASSUME NEW n \in 1..N PROVE Piece(gs, at, by, n) = Piece(hs, at, by, n)
  BY <1>2 DEF Piece
<1> DEFINE S == {n \in Nat : n <= N => f[n] = h[n]}
<1>8. 0 \in S
  BY <1>5, <1>6 DEF Keeps
<1>9. ASSUME NEW n \in Nat, n \in S PROVE n + 1 \in S
  <2> SUFFICES ASSUME n + 1 <= N PROVE f[n + 1] = h[n + 1]
    OBVIOUS
  <2>1. n + 1 \in 1..N /\ n + 1 \in 1..(N + 1) /\ (n + 1) - 1 = n /\ n <= N
    BY <1>2
  <2>2. f[n] = h[n]
    BY <1>9, <2>1
  <2>3. f[n + 1] = f[n] \o Piece(gs, at, by, n + 1) /\ h[n + 1] = h[n] \o Piece(hs, at, by, n + 1)
    BY <1>5, <1>6, <2>1 DEF Keeps
  <2> QED BY <1>7, <2>1, <2>2, <2>3
<1> HIDE DEF S
<1>10. f[N] = h[N]
  <2>1. Nat \subseteq S
    BY <1>8, <1>9, SetInduction
  <2> QED BY <1>2, <2>1 DEF S
<1>11. h[N + 1] = h[N] \o <<g>>
  <2>1. N + 1 \in 1..(N + 1) /\ (N + 1) - 1 = N /\ N + 1 \notin at
    BY <1>2, <1>4
  <2>2. h[N + 1] = h[N] \o Piece(hs, at, by, N + 1)
    BY <1>6, <2>1 DEF Keeps
  <2> QED BY <1>2, <2>1, <2>2 DEF Piece
<1>12. f[N] \in Seq(AnyGroup)
  <2>1. N \in 0..N
    BY <1>2
  <2> QED BY <1>5, <2>1 DEF Keeps
<1>13. f[N] \o <<g>> = Append(f[N], g)
  BY <1>12
<1> QED BY <1>3, <1>5, <1>6, <1>10, <1>11, <1>13 DEF hs

\* Without its system message, a transcript is the history after it.
LEMMA SystemFreeIs ==
  ASSUME NEW free \in Seq(FreeGroup)
  PROVE  /\ Compactor!SystemFree(<<Compactor!System>> \o free) = free
         /\ <<Compactor!System>> \o free \in Seq(AnyGroup) /\ Len(<<Compactor!System>> \o free) = Len(free) + 1
         /\ (<<Compactor!System>> \o free)[1] = Compactor!System
         /\ \A i \in 1..Len(free) : (<<Compactor!System>> \o free)[i + 1] = free[i]
<1> DEFINE gs == <<Compactor!System>> \o free
           N == Len(free)
           at == {i \in DOMAIN gs : gs[i].kind = "system"}
<1>1. Compactor!System \in AnyGroup /\ Compactor!System.kind = "system"
  BY DEF Compactor!System, AnyGroup, Widths
<1>2. free \in Seq(AnyGroup) /\ N \in Nat /\ \A i \in 1..N : free[i] \in AnyGroup /\ free[i].kind # "system"
  <2>1. \A i \in 1..N : free[i] \in FreeGroup
    OBVIOUS
  <2>2. \A i \in 1..N : free[i] \in AnyGroup /\ free[i].kind # "system"
    BY <2>1, FreeIs
  <2> QED BY <2>2
<1>3. gs \in Seq(AnyGroup) /\ Len(gs) = N + 1 /\ gs[1] = Compactor!System /\ \A i \in 1..N : gs[i + 1] = free[i]
  <2>1. <<Compactor!System>> \in Seq(AnyGroup) /\ Len(<<Compactor!System>>) = 1 /\ <<Compactor!System>>[1] = Compactor!System
    BY <1>1
  <2>2. gs \in Seq(AnyGroup) /\ Len(gs) = 1 + N
        /\ \A j \in 1..(1 + N) : gs[j] = IF j <= 1 THEN <<Compactor!System>>[j] ELSE free[j - 1]
    BY <1>2, <2>1, ConcatProperties
  <2>3. ASSUME NEW i \in 1..N PROVE gs[i + 1] = free[i]
    <3>1. i + 1 \in 1..(1 + N) /\ ~(i + 1 <= 1) /\ (i + 1) - 1 = i
      BY <1>2
    <3> HIDE DEF gs
    <3> QED BY <2>2, <3>1
  <2>4. gs[1] = Compactor!System
    <3>1. 1 \in 1..(1 + N) /\ 1 <= 1
      BY <1>2
    <3> HIDE DEF gs
    <3> QED BY <2>1, <2>2, <3>1
  <2> HIDE DEF gs
  <2> QED BY <1>2, <2>2, <2>3, <2>4
<1> HIDE DEF gs
<1>4. at = {1}
  <2>1. DOMAIN gs = 1..(N + 1)
    BY <1>3
  <2>2. ASSUME NEW i \in DOMAIN gs, i # 1 PROVE gs[i].kind # "system"
    <3>1. i - 1 \in 1..N /\ (i - 1) + 1 = i
      BY <1>2, <2>1, <2>2
    <3>2. gs[(i - 1) + 1] = free[i - 1]
      BY <1>3, <3>1
    <3> QED BY <1>2, <3>1, <3>2
  <2>3. 1 \in DOMAIN gs
    BY <1>2, <2>1
  <2> QED BY <1>1, <1>3, <2>2, <2>3
<1>5. Compactor!SystemFree(gs) = Compactor!Replaced(gs, {1}, <<>>)
  BY <1>4 DEF Compactor!SystemFree
<1> HIDE DEF at
<1>6. PICK f : Keeps(gs, {1}, <<>>, N + 1, f) /\ Compactor!Replaced(gs, {1}, <<>>) = f[N + 1]
  <2>1. <<>> \in Seq(AnyGroup)
    OBVIOUS
  <2>2. PICK f : Keeps(gs, {1}, <<>>, Len(gs), f) /\ Compactor!Replaced(gs, {1}, <<>>) = f[Len(gs)]
    BY <1>3, <2>1, KeptIs
  <2>3. Len(gs) = N + 1
    BY <1>3
  <2> HIDE DEF N
  <2> QED BY <2>2, <2>3
<1>7. f[0] = <<>> /\ \A m \in 1..(N + 1) : f[m] = f[m - 1] \o Piece(gs, {1}, <<>>, m)
  BY <1>6 DEF Keeps
<1> HIDE DEF N
<1> DEFINE S == {n \in Nat : n <= N => f[n + 1] = SubSeq(free, 1, n)}
<1>8. 0 \in S
  <2>1. f[1] = <<>> \o <<>>
    <3>1. Piece(gs, {1}, <<>>, 1) = <<>>
      BY DEF Piece
    <3>2. 1 \in 1..(N + 1) /\ 1 - 1 = 0
      BY <1>2
    <3> QED BY <1>7, <3>1, <3>2
  <2>2. <<>> \o <<>> = <<>> /\ SubSeq(free, 1, 0) = <<>>
    BY <1>2
  <2>3. f[1] = SubSeq(free, 1, 0)
    BY <2>1, <2>2, Zenon
  <2>4. 0 + 1 = 1
    OBVIOUS
  <2>5. f[0 + 1] = SubSeq(free, 1, 0)
    BY <2>3, <2>4, Zenon
  <2> QED BY <2>5
<1>9. ASSUME NEW n \in Nat, n \in S PROVE n + 1 \in S
  <2> SUFFICES ASSUME n + 1 <= N PROVE f[(n + 1) + 1] = SubSeq(free, 1, n + 1)
    OBVIOUS
  <2>1. (n + 1) + 1 \in 1..(N + 1) /\ ((n + 1) + 1) - 1 = n + 1 /\ n <= N /\ n + 1 \in 1..N /\ (n + 1) + 1 \notin {1}
    BY <1>2
  <2>2. f[n + 1] = SubSeq(free, 1, n)
    BY <1>9, <2>1
  <2>3. Piece(gs, {1}, <<>>, (n + 1) + 1) = <<free[n + 1]>>
    BY <1>3, <2>1 DEF Piece
  <2>4. f[(n + 1) + 1] = SubSeq(free, 1, n) \o <<free[n + 1]>>
    BY <1>7, <2>1, <2>2, <2>3
  <2>5. SubSeq(free, 1, n) \o <<free[n + 1]>> = SubSeq(free, 1, n + 1)
    BY <1>2, <2>1 DEF N
  <2> QED BY <2>4, <2>5
<1> HIDE DEF S
<1>10. f[N + 1] = SubSeq(free, 1, N)
  <2>1. Nat \subseteq S
    BY <1>8, <1>9, SetInduction
  <2>2. N \in Nat /\ N <= N
    BY <1>2
  <2>3. N \in S
    BY <2>1, <2>2
  <2> QED BY <2>2, <2>3 DEF S
<1>11. SubSeq(free, 1, N) = free
  BY <1>2 DEF N
<1> QED BY <1>3, <1>5, <1>6, <1>10, <1>11 DEF gs, N

\* The latest request of a longer transcript is the one it was, or the group at its end.
LEMMA LatestUserGrows ==
  ASSUME NEW gs \in Seq(AnyGroup), NEW g \in AnyGroup
  PROVE  Compactor!LatestUser(Append(gs, g)) \in {Compactor!LatestUser(gs), Len(gs) + 1}
<1> DEFINE N == Len(gs)
           hs == Append(gs, g)
           A == {0} \cup {i \in DOMAIN gs : gs[i].kind = "user"}
           B == {0} \cup {i \in DOMAIN hs : hs[i].kind = "user"}
<1>1. N \in Nat /\ DOMAIN gs = 1..N /\ DOMAIN hs = 1..(N + 1) /\ (\A i \in 1..N : hs[i] = gs[i]) /\ hs[N + 1] = g
  OBVIOUS
<1>2. Compactor!LatestUser(gs) = CHOOSE x \in A : \A y \in A : x >= y
  BY DEF Compactor!LatestUser, Compactor!Max
<1>3. Compactor!LatestUser(hs) = CHOOSE x \in B : \A y \in B : x >= y
  BY DEF Compactor!LatestUser, Compactor!Max
<1> HIDE DEF hs
<1>4. CASE g.kind = "user"
  <2>1. N + 1 \in B /\ B \subseteq 0..(N + 1)
    BY <1>1, <1>4
  <2> HIDE DEF B
  <2>2. \A x \in B : (\A y \in B : x >= y) => x = N + 1
    BY <1>1, <2>1
  <2>3. \A y \in B : N + 1 >= y
    BY <1>1, <2>1
  <2>4. Compactor!LatestUser(hs) = N + 1
    BY <1>3, <2>1, <2>2, <2>3
  <2> QED BY <2>4 DEF hs, N
<1>5. CASE g.kind # "user"
  <2>1. A = B
    <3>1. \A i : i \in 1..(N + 1) <=> i \in 1..N \/ i = N + 1
      BY <1>1
    <3> HIDE DEF N
    <3> QED BY <1>1, <1>5, <3>1
  <2> QED BY <1>2, <1>3, <2>1 DEF hs
<1> QED BY <1>4, <1>5

\* What a projection must be: it stands for the whole transcript, is no larger, and has the latest
\* request and everything protected in it.
Faithful(gs, s) ==
    /\ Compactor!Covered(s) = Compactor!Covered(gs)
    /\ Compactor!Total(s) <= Compactor!Total(gs)
    /\ \A i \in DOMAIN gs : i = Compactor!LatestUser(gs) \/ ~Compactor!SafeToSummarize(gs[i])
                                => Compactor!Contains(s, gs[i])

\* A cached summary stands for its groups, and its projection is no larger than the transcript.
Caches(gs, c) ==
    \/ c = Compactor!None
    \/ /\ Stands(gs, c.at, c.text)
       /\ Compactor!Total(Compactor!Project(gs, c.at, c.text)) <= Compactor!Total(gs)

\* A compaction in progress: its summary and what remains stand for what was selected.
JobFields == {"state", "cached", "selected", "rest", "summary", "budget", "target", "before", "calls"}
Summarizes(gs, j) ==
    /\ j = [f \in JobFields |-> j[f]]
    /\ j.state \in {"summarize", "publish"} /\ (j.state = "publish" => j.rest = {})
    /\ j.selected \in SUBSET (1..Len(gs))
    /\ \A i \in j.selected : i # Compactor!LatestUser(gs) /\ Compactor!SafeToSummarize(gs[i])
    /\ j.rest \subseteq j.selected /\ j.summary.size \in Nat
    /\ j.summary.covers \cup Compactor!CoveredAt(gs, j.rest) = Compactor!CoveredAt(gs, j.selected)
    /\ j.before \in Nat /\ j.before <= Compactor!Total(gs)

\* What was committed, and the groups its ranges name: they are still where they were.
SpansOf(ms, ranges, text) ==
    \E at \in SUBSET (1..Len(ms)) :
        /\ ranges = {Compactor!Span(ms, i) : i \in at}
        /\ \A i \in at : Compactor!SafeToSummarize(ms[i])
        /\ text.size \in Nat /\ text.covers = Compactor!CoveredAt(ms, at)
Begins(ms, hs) == Len(ms) <= Len(hs) /\ \A i \in 1..Len(ms) : ms[i] = hs[i]

Grouped ==
    /\ Compactor!SystemFree(groups) \in Seq(FreeGroup)
    /\ groups = <<Compactor!System>> \o Compactor!SystemFree(groups)
    /\ fresh \in Nat
Ranged ==
    /\ saved = [f \in {"messages", "ranges", "text"} |-> saved[f]] /\ saved.messages \in Seq(FreeGroup)
    /\ \/ saved.ranges = {}
       \/ Begins(saved.messages, Compactor!SystemFree(groups)) /\ SpansOf(saved.messages, saved.ranges, saved.text)
Compacting ==
    /\ job = Compactor!NoJob \/ Summarizes(groups, job)
    /\ Caches(groups, summaries)
    /\ halt \in BOOLEAN /\ (halt => job = Compactor!NoJob /\ summaries = Compactor!None)
CompactInv == Grouped /\ Compacting /\ Ranged /\ Compactor!NothingForgotten

\* A transcript is one of groups, and the first of them is the system message.
LEMMA TranscriptIs ==
  ASSUME Grouped
  PROVE  /\ groups \in Seq(AnyGroup) /\ Len(groups) = Len(Compactor!SystemFree(groups)) + 1 /\ Len(groups) \in Nat
         /\ groups[1] = Compactor!System /\ ~Compactor!SafeToSummarize(groups[1])
         /\ \A i \in 1..Len(Compactor!SystemFree(groups)) : groups[i + 1] = Compactor!SystemFree(groups)[i]
<1> DEFINE free == Compactor!SystemFree(groups)
<1>1. free \in Seq(FreeGroup) /\ groups = <<Compactor!System>> \o free
  BY DEF Grouped
<1> HIDE DEF free
<1>2. /\ groups \in Seq(AnyGroup) /\ Len(groups) = Len(free) + 1 /\ groups[1] = Compactor!System
      /\ \A i \in 1..Len(free) : groups[i + 1] = free[i]
  BY <1>1, SystemFreeIs
<1>3. ~Compactor!SafeToSummarize(Compactor!System)
  BY DEF Compactor!System, Compactor!SafeToSummarize
<1>4. Len(groups) \in Nat
  BY <1>2
<1> QED BY <1>2, <1>3, <1>4 DEF free

\* Two histories with the same beginning say the same of it.
LEMMA CoveredAtIs ==
  ASSUME NEW gs, NEW hs, NEW at, \A i \in at : gs[i] = hs[i]
  PROVE  Compactor!CoveredAt(gs, at) = Compactor!CoveredAt(hs, at)
BY DEF Compactor!CoveredAt

\* What was committed can be resumed, by a history that stands for it.
LEMMA ResumableIs ==
  ASSUME Ranged
  PROVE  Compactor!Resumable /\ Compactor!Workset(saved) \in Seq(FreeGroup)
<1> DEFINE ms == saved.messages
<1>1. ms \in Seq(FreeGroup) /\ ms \in Seq(AnyGroup) /\ DOMAIN ms = 1..Len(ms)
  <2>1. ms \in Seq(FreeGroup)
    BY DEF Ranged
  <2> HIDE DEF ms
  <2>2. \A i \in 1..Len(ms) : ms[i] \in AnyGroup
    BY <2>1, FreeIs
  <2> QED BY <2>1, <2>2
<1>2. CASE saved.ranges = {}
  <2>1. Compactor!Workset(saved) = ms
    BY <1>2 DEF Compactor!Workset
  <2>2. Compactor!Restorable(saved)
    BY <1>2 DEF Compactor!Restorable
  <2> QED BY <1>1, <2>1, <2>2 DEF Compactor!Resumable
<1>3. CASE saved.ranges # {}
  <2>1. PICK at \in SUBSET (1..Len(ms)) :
                /\ saved.ranges = {Compactor!Span(ms, i) : i \in at}
                /\ \A i \in at : Compactor!SafeToSummarize(ms[i])
                /\ saved.text.size \in Nat /\ saved.text.covers = Compactor!CoveredAt(ms, at)
    BY <1>3 DEF Ranged, SpansOf
  <2> HIDE DEF ms
  <2>2. \A i, j \in 1..Len(ms) : Compactor!Offset(ms, i) = Compactor!Offset(ms, j) => i = j
    <3>1. Len(ms) <= Len(ms) /\ \A i \in 1..Len(ms) : ms[i] = ms[i]
      BY <1>1
    <3> QED BY <1>1, <3>1, OffsetIs
  <2>3. Compactor!Selected(saved) = at
    <3>1. \A i : Compactor!Span(ms, i).start = Compactor!Offset(ms, i)
      BY DEF Compactor!Span
    <3>2. Compactor!Selected(saved) = {i \in DOMAIN ms : \E range \in saved.ranges : range.start = Compactor!Offset(ms, i)}
      BY DEF Compactor!Selected, ms
    <3>3. ASSUME NEW i \in 1..Len(ms), NEW range \in saved.ranges, range.start = Compactor!Offset(ms, i) PROVE i \in at
      <4>1. PICK k \in at : range = Compactor!Span(ms, k)
        BY <2>1
      <4>2. k \in 1..Len(ms) /\ Compactor!Offset(ms, k) = Compactor!Offset(ms, i)
        BY <3>1, <3>3, <4>1
      <4> QED BY <2>2, <4>2
    <3>4. ASSUME NEW i \in at PROVE i \in 1..Len(ms) /\ \E range \in saved.ranges : range.start = Compactor!Offset(ms, i)
      <4>1. Compactor!Span(ms, i) \in saved.ranges
        BY <2>1
      <4> QED BY <3>1, <4>1
    <3> QED BY <1>1, <3>2, <3>3, <3>4
  <2>4. Compactor!Workset(saved) = Compactor!Project(ms, at, saved.text)
    BY <1>3, <2>3 DEF Compactor!Workset, ms
  <2>5. Compactor!Workset(saved) \in Seq(FreeGroup)
        /\ Compactor!Covered(Compactor!Workset(saved)) = Compactor!Covered(ms)
    BY <1>1, <2>1, <2>4, ProjectIs
  <2>6. Compactor!Restorable(saved)
    <3>1. ASSUME NEW range \in saved.ranges
          PROVE  \E i \in DOMAIN ms : range = Compactor!Span(ms, i) /\ Compactor!SafeToSummarize(ms[i])
      <4>1. PICK i \in at : range = Compactor!Span(ms, i)
        BY <2>1
      <4> QED BY <1>1, <2>1, <4>1
    <3> QED BY <3>1 DEF Compactor!Restorable, ms
  <2> QED BY <2>5, <2>6 DEF Compactor!Resumable, ms
<1> QED BY <1>2, <1>3

\* A transcript that goes on is that of a history that goes on.
LEMMA TranscriptGrows ==
  ASSUME Grouped, NEW g \in FreeGroup
  PROVE  /\ Compactor!SystemFree(Append(groups, g)) = Append(Compactor!SystemFree(groups), g)
         /\ Append(groups, g) = <<Compactor!System>> \o Append(Compactor!SystemFree(groups), g)
         /\ Append(Compactor!SystemFree(groups), g) \in Seq(FreeGroup)
<1> DEFINE free == Compactor!SystemFree(groups)
           longer == Append(free, g)
<1>1. free \in Seq(FreeGroup) /\ groups = <<Compactor!System>> \o free
  BY DEF Grouped
<1> HIDE DEF free
<1>2. longer \in Seq(FreeGroup)
  BY <1>1
<1>3. Append(groups, g) = <<Compactor!System>> \o longer
  <2>1. Compactor!System \in AnyGroup /\ g \in AnyGroup
    BY FreeIs DEF Compactor!System, AnyGroup, Widths
  <2>2. free \in Seq(AnyGroup)
    <3>1. \A i \in 1..Len(free) : free[i] \in AnyGroup
      BY <1>1, FreeIs
    <3> QED BY <1>1, <3>1
  <2>3. <<Compactor!System>> \in Seq(AnyGroup) /\ <<g>> \in Seq(AnyGroup)
    BY <2>1
  <2>4. longer = free \o <<g>>
    BY <2>1, <2>2, AppendIsConcat
  <2>5. groups \in Seq(AnyGroup)
    BY <1>1, SystemFreeIs
  <2>6. Append(groups, g) = groups \o <<g>>
    BY <2>1, <2>5, AppendIsConcat
  <2>7. (<<Compactor!System>> \o free) \o <<g>> = <<Compactor!System>> \o (free \o <<g>>)
    BY <2>2, <2>3, ConcatAssociative
  <2> QED BY <1>1, <2>4, <2>6, <2>7, Zenon
<1> HIDE DEF longer
<1>4. Compactor!SystemFree(<<Compactor!System>> \o longer) = longer
  BY <1>2, SystemFreeIs
<1> QED BY <1>2, <1>3, <1>4 DEF longer, free

\* A cached summary stands for its groups, also if there is none.
LEMMA CachesStand ==
  ASSUME NEW gs \in Seq(AnyGroup), NEW c, Caches(gs, c)
  PROVE  Stands(gs, c.at, c.text)
<1>1. CASE c = Compactor!None
  BY <1>1 DEF Stands, Compactor!None, Compactor!CoveredAt
<1>2. CASE c # Compactor!None
  BY <1>2 DEF Caches
<1> QED BY <1>1, <1>2

\* It holds for a transcript that goes on: what was selected was not the latest request, and is not.
LEMMA CachesGrow ==
  ASSUME NEW gs \in Seq(AnyGroup), NEW g \in AnyGroup, NEW c, Caches(gs, c)
  PROVE  Caches(Append(gs, g), c)
<1>1. CASE c = Compactor!None
  BY <1>1 DEF Caches
<1>2. CASE c # Compactor!None
  <2> DEFINE hs == Append(gs, g)
             N == Len(gs)
  <2>1. Stands(gs, c.at, c.text) /\ Compactor!Total(Compactor!Project(gs, c.at, c.text)) <= Compactor!Total(gs)
    BY <1>2 DEF Caches
  <2>2. /\ c.at \in SUBSET (1..N) /\ c.text.size \in Nat /\ c.text.covers = Compactor!CoveredAt(gs, c.at)
        /\ \A i \in c.at : i # Compactor!LatestUser(gs) /\ Compactor!SafeToSummarize(gs[i])
    BY <2>1 DEF Stands
  <2>3. N \in Nat /\ Len(hs) = N + 1 /\ hs \in Seq(AnyGroup) /\ \A i \in 1..N : hs[i] = gs[i]
    OBVIOUS
  <2>4. Compactor!Project(hs, c.at, c.text) = Append(Compactor!Project(gs, c.at, c.text), g)
    BY <2>2, ProjectGrows
  <2>5. Compactor!Project(gs, c.at, c.text) \in Seq(AnyGroup)
    BY <2>2, ProjectIs
  <2>6. Compactor!LatestUser(hs) \in {Compactor!LatestUser(gs), N + 1}
    BY LatestUserGrows
  <2>7. Compactor!Total(hs) = Compactor!Total(gs) + g.size
    BY TotalGrows
  <2>8. Compactor!Total(Append(Compactor!Project(gs, c.at, c.text), g))
        = Compactor!Total(Compactor!Project(gs, c.at, c.text)) + g.size
    BY <2>5, TotalGrows
  <2>9. Compactor!Total(gs) \in Nat /\ Compactor!Total(Compactor!Project(gs, c.at, c.text)) \in Nat /\ g.size \in Nat
    <3>1. g.size \in Nat
      BY DEF AnyGroup, Widths
    <3> QED BY <2>5, <3>1, TotalIs
  <2> HIDE DEF hs, N
  <2>10. Compactor!CoveredAt(gs, c.at) = Compactor!CoveredAt(hs, c.at)
    BY <2>2, <2>3, CoveredAtIs
  <2>11. Compactor!Total(Compactor!Project(hs, c.at, c.text)) <= Compactor!Total(hs)
    BY <2>1, <2>4, <2>7, <2>8, <2>9
  <2>12. \A i \in c.at : i # Compactor!LatestUser(hs) /\ Compactor!SafeToSummarize(hs[i])
    BY <2>2, <2>3, <2>6
  <2>13. c.at \in SUBSET (1..Len(hs))
    BY <2>2, <2>3
  <2> QED BY <2>2, <2>10, <2>11, <2>12, <2>13 DEF Caches, Stands, hs
<1> QED BY <1>1, <1>2

\* What the run adds is a group of its history.
LEMMA GroupIs == ASSUME NEW shape \in Shapes, fresh \in Nat PROVE Compactor!Group(shape, fresh + 1) \in FreeGroup
BY ContextAssumption DEF Compactor!Group, FreeGroup, Widths

\* The run adds a group.
LEMMA GrowStep ==
  ASSUME CompactInv, NEW shape \in Shapes, Compactor!Grow(shape)
  PROVE  CompactInv'
<1> DEFINE g == Compactor!Group(shape, fresh + 1)
<1>1. Grouped /\ Compacting /\ Ranged
  BY DEF CompactInv
<1>2. /\ job = Compactor!NoJob /\ groups' = Append(groups, g) /\ fresh' = fresh + 1 /\ sent' = <<>>
      /\ UNCHANGED <<summaries, job, saved, halt>>
  BY DEF Compactor!Grow
<1>3. g \in FreeGroup
  BY <1>1, GroupIs DEF Grouped
<1> HIDE DEF g
<1>4. g \in AnyGroup /\ groups \in Seq(AnyGroup)
  BY <1>1, <1>3, FreeIs, TranscriptIs
<1>5. /\ Compactor!SystemFree(groups') = Append(Compactor!SystemFree(groups), g)
      /\ groups' = <<Compactor!System>> \o Compactor!SystemFree(groups')
      /\ Compactor!SystemFree(groups') \in Seq(FreeGroup)
  <2>1. /\ Compactor!SystemFree(Append(groups, g)) = Append(Compactor!SystemFree(groups), g)
        /\ Append(groups, g) = <<Compactor!System>> \o Append(Compactor!SystemFree(groups), g)
        /\ Append(Compactor!SystemFree(groups), g) \in Seq(FreeGroup)
    BY <1>1, <1>3, TranscriptGrows
  <2> QED BY <1>2, <2>1, Zenon
<1>6. Grouped'
  <2>1. fresh' \in Nat
    BY <1>1, <1>2 DEF Grouped
  <2>2. Compactor!SystemFree(groups)' = Compactor!SystemFree(groups')
    BY DEF Compactor!SystemFree
  <2> QED BY <1>5, <2>1, <2>2 DEF Grouped, Compactor!System
<1>7. Compacting'
  <2>1. Caches(groups', summaries')
    BY <1>1, <1>2, <1>4, CachesGrow DEF Compacting
  <2>2. Caches(groups, summaries)' = Caches(groups', summaries')
    OBVIOUS
  <2> QED BY <1>1, <1>2, <2>1, <2>2 DEF Compacting
<1>8. Ranged'
  <2>1. Begins(saved.messages, Compactor!SystemFree(groups)) => Begins(saved.messages, Compactor!SystemFree(groups'))
    <3> DEFINE free == Compactor!SystemFree(groups)
               longer == Compactor!SystemFree(groups')
    <3>1. free \in Seq(FreeGroup) /\ longer = Append(free, g)
      BY <1>1, <1>5 DEF Grouped
    <3>0. saved.messages \in Seq(FreeGroup)
      BY <1>1 DEF Ranged
    <3> HIDE DEF free, longer
    <3>2. Len(longer) = Len(free) + 1 /\ \A i \in 1..Len(free) : longer[i] = free[i]
      BY <3>1
    <3>3. Len(saved.messages) \in Nat /\ Len(free) \in Nat
      BY <3>0, <3>1
    <3>4. ASSUME Begins(saved.messages, free) PROVE Begins(saved.messages, longer)
      BY <3>2, <3>3, <3>4 DEF Begins
    <3> QED BY <3>4 DEF free, longer
  <2>2. saved' = saved
    BY <1>2
  <2> QED BY <1>1, <2>1, <2>2 DEF Ranged
<1>9. Compactor!NothingForgotten'
  BY <1>2 DEF Compactor!NothingForgotten
<1> QED BY <1>6, <1>7, <1>8, <1>9 DEF CompactInv

\* A run that stops leaves its transcript as it is.
LEMMA FailStep ==
  ASSUME CompactInv, Compactor!Fail
  PROVE  CompactInv'
<1>1. Grouped /\ Compacting /\ Ranged /\ Compactor!NothingForgotten
  BY DEF CompactInv
<1>2. /\ job' = Compactor!NoJob /\ halt' = TRUE /\ summaries' = Compactor!None
      /\ UNCHANGED <<groups, sent, saved, fresh>>
  BY DEF Compactor!Fail
<1>3. Grouped' /\ Ranged' /\ Compactor!NothingForgotten'
  BY <1>1, <1>2 DEF Grouped, Ranged, Compactor!NothingForgotten
<1>4. Compacting'
  <2>1. Caches(groups, Compactor!None)'
    BY DEF Caches
  <2> QED BY <1>2, <2>1 DEF Compacting, Caches, Compactor!NoJob, Compactor!None
<1> QED BY <1>3, <1>4 DEF CompactInv

\* What a plan selects are settled groups, none of them the latest request or protected.
LEMMA SelectedIs ==
  ASSUME NEW gs \in Seq(AnyGroup), NEW c, Stands(gs, c.at, c.text), NEW r
  PROVE  /\ Compactor!Eligible(gs, c, r) \in SUBSET (1..Len(gs)) /\ c.at \subseteq Compactor!Eligible(gs, c, r)
         /\ \A i \in Compactor!Eligible(gs, c, r) : i # Compactor!LatestUser(gs) /\ Compactor!SafeToSummarize(gs[i])
<1>1. DOMAIN gs = 1..Len(gs)
  OBVIOUS
<1>2. c.at \subseteq 1..Len(gs) /\ \A i \in c.at : i # Compactor!LatestUser(gs) /\ Compactor!SafeToSummarize(gs[i])
  BY DEF Stands
<1> QED BY <1>1, <1>2 DEF Compactor!Eligible

\* The projection with the summary in place is a faithful one.
LEMMA CurrentIs ==
  ASSUME NEW gs \in Seq(AnyGroup), NEW c, Caches(gs, c), NEW current,
         current = IF c = Compactor!None THEN gs ELSE Compactor!Project(gs, c.at, c.text)
  PROVE  Faithful(gs, current) /\ Compactor!Total(current) \in Nat
<1>1. DOMAIN gs = 1..Len(gs) /\ Compactor!Total(gs) \in Nat
  BY TotalIs
<1>2. CASE c = Compactor!None
  <2>1. \A i \in DOMAIN gs : Compactor!Contains(gs, gs[i])
    BY <1>1 DEF Compactor!Contains
  <2> QED BY <1>1, <1>2, <2>1 DEF Faithful
<1>3. CASE c # Compactor!None
  <2>1. Stands(gs, c.at, c.text) /\ Compactor!Total(Compactor!Project(gs, c.at, c.text)) <= Compactor!Total(gs)
    BY <1>3 DEF Caches
  <2>2. /\ c.at \in SUBSET (1..Len(gs)) /\ c.text.size \in Nat /\ c.text.covers = Compactor!CoveredAt(gs, c.at)
        /\ \A i \in c.at : i # Compactor!LatestUser(gs) /\ Compactor!SafeToSummarize(gs[i])
    BY <2>1 DEF Stands
  <2>3. /\ current \in Seq(AnyGroup) /\ Compactor!Covered(current) = Compactor!Covered(gs)
        /\ \A i \in (1..Len(gs)) \ c.at : Compactor!Contains(current, gs[i])
    BY <1>3, <2>2, ProjectIs
  <2>4. Compactor!Total(current) \in Nat
    BY <2>3, TotalIs
  <2> QED BY <1>1, <1>3, <2>1, <2>2, <2>3, <2>4 DEF Faithful
<1> QED BY <1>2, <1>3

\* A plan is a faithful projection, an error, or a compaction that has everything selected ahead of it.
LEMMA PlanIs ==
  ASSUME NEW gs \in Seq(AnyGroup), NEW c, Caches(gs, c), NEW force, NEW plan, plan = Compactor!Plan(gs, c, force)
  PROVE  /\ plan.state \in {"unchanged", "error", "summarize"}
         /\ plan.state = "unchanged" => Faithful(gs, plan.result)
         /\ plan.state = "summarize" => Summarizes(gs, plan)
<1> DEFINE current == IF c = Compactor!None THEN gs ELSE Compactor!Project(gs, c.at, c.text)
           all == Compactor!Eligible(gs, c, Compactor!Retain(gs, c, force))
<1>1. Faithful(gs, current) /\ Compactor!Total(current) \in Nat
  BY CurrentIs
<1>2. Stands(gs, c.at, c.text)
  BY CachesStand
<1>3. /\ all \in SUBSET (1..Len(gs)) /\ c.at \subseteq all
      /\ \A i \in all : i # Compactor!LatestUser(gs) /\ Compactor!SafeToSummarize(gs[i])
  BY <1>2, SelectedIs
<1>4. /\ plan.state \in {"unchanged", "error", "summarize"}
      /\ plan.state = "unchanged" => plan.result = current
      /\ plan.state = "summarize" =>
            /\ plan = [f \in JobFields |-> plan[f]] /\ plan.selected = all /\ plan.rest = all \ c.at
            /\ plan.summary = c.text /\ plan.before = Compactor!Total(current)
  <2>1. \/ plan = [state |-> "unchanged", result |-> current]
        \/ plan = [state |-> "error"]
        \/ \E budget, target :
              plan = [state |-> "summarize", cached |-> c, selected |-> all, rest |-> all \ c.at,
                      summary |-> c.text, budget |-> budget, target |-> target,
                      before |-> Compactor!Total(current), calls |-> 0]
    <3> DEFINE before == Compactor!Total(current)
               added == all \ c.at
               minimum == Compactor!Total(Compactor!Project(gs, all, Compactor!None.text))
               ceiling == IF force THEN Compactor!Min({Trigger - 1, before - 1}) ELSE Trigger - 1
               target == Compactor!Min({Compactor!Max({Target, minimum + Margin}), ceiling})
               budget == Compactor!Min({target - minimum, MaxSummary})
               shorter == IF force /\ added = {} THEN Compactor!Min({budget, c.text.size \div 2}) ELSE budget
               work == [state |-> "summarize", cached |-> c, selected |-> all, rest |-> added,
                       summary |-> c.text, budget |-> shorter, target |-> target,
                       before |-> before, calls |-> 0]
    <3>1. plan = IF (~force /\ before < Trigger) \/ (force /\ added = {} /\ c = Compactor!None)
                 THEN [state |-> "unchanged", result |-> current]
                 ELSE IF all = {} \/ budget < MinBudget
                 THEN [state |-> "error"]
                 ELSE IF force /\ added = {} /\ shorter = 0
                 THEN [state |-> "unchanged", result |-> current]
                 ELSE work
      BY DEF Compactor!Plan
    <3> HIDE DEF work, shorter, budget, target, ceiling, minimum, before, current, all
    <3>2. plan \in {[state |-> "unchanged", result |-> current], [state |-> "error"], work}
      BY Zenon, <3>1
    <3> QED BY <3>2 DEF work, before
  <2> HIDE DEF current, all
  <2>2. CASE plan = [state |-> "unchanged", result |-> current] \/ plan = [state |-> "error"]
    BY <2>2
  <2>3. ASSUME NEW budget, NEW target,
               plan = [state |-> "summarize", cached |-> c, selected |-> all, rest |-> all \ c.at,
                       summary |-> c.text, budget |-> budget, target |-> target,
                       before |-> Compactor!Total(current), calls |-> 0]
        PROVE  /\ plan.state = "summarize" /\ plan = [f \in JobFields |-> plan[f]] /\ plan.selected = all
               /\ plan.rest = all \ c.at /\ plan.summary = c.text /\ plan.before = Compactor!Total(current)
    <3>1. plan = [f \in JobFields |-> plan[f]]
      BY <2>3 DEF JobFields
    <3>2. /\ plan.state = "summarize" /\ plan.selected = all /\ plan.rest = all \ c.at
          /\ plan.summary = c.text /\ plan.before = Compactor!Total(current)
      BY <2>3
    <3> QED BY <3>1, <3>2
  <2> QED BY <2>1, <2>2, <2>3
<1> HIDE DEF current, all
<1>5. ASSUME plan.state = "summarize" PROVE Summarizes(gs, plan)
  <2>1. c.text.size \in Nat /\ c.text.covers = Compactor!CoveredAt(gs, c.at)
    BY <1>2 DEF Stands
  <2>2. Compactor!CoveredAt(gs, c.at) \cup Compactor!CoveredAt(gs, all \ c.at) = Compactor!CoveredAt(gs, all)
    BY <1>3 DEF Compactor!CoveredAt
  <2>3. Compactor!Total(current) <= Compactor!Total(gs)
    BY <1>1 DEF Faithful
  <2> QED BY <1>1, <1>3, <1>4, <1>5, <2>1, <2>2, <2>3 DEF Summarizes
<1> QED BY <1>1, <1>4, <1>5

\* A compaction's outcome before the first model call.
LEMMA CompactStep ==
  ASSUME CompactInv, NEW force \in BOOLEAN, Compactor!Compact(force)
  PROVE  CompactInv'
<1> DEFINE cached == Compactor!ValidCache(groups)
           plan == Compactor!Plan(groups, cached, force)
<1>1. Grouped /\ Compacting /\ Ranged /\ Compactor!NothingForgotten
  BY DEF CompactInv
<1>2. groups \in Seq(AnyGroup)
  BY <1>1, TranscriptIs
<1>3. Caches(groups, cached)
  <2>1. cached \in {summaries, Compactor!None}
    BY DEF Compactor!ValidCache
  <2>2. Caches(groups, summaries) /\ Caches(groups, Compactor!None)
    BY <1>1 DEF Compacting, Caches
  <2> QED BY <2>1, <2>2, Zenon
<1>4. /\ plan.state \in {"unchanged", "error", "summarize"}
      /\ plan.state = "unchanged" => Faithful(groups, plan.result)
      /\ plan.state = "summarize" => Summarizes(groups, plan)
  BY <1>2, <1>3, PlanIs
<1>5. job = Compactor!NoJob /\ halt = FALSE
  BY <1>1 DEF Compactor!Compact, Compacting
<1>6. \/ plan.state = "summarize" /\ job' = plan /\ summaries' = cached /\ UNCHANGED <<groups, sent, saved, fresh, halt>>
      \/ plan.state = "unchanged" /\ sent' = plan.result /\ summaries' = cached /\ UNCHANGED <<groups, job, saved, fresh, halt>>
      \/ Compactor!Fail
  <2>1. CASE plan.state = "summarize"
    BY <2>1 DEF Compactor!Compact
  <2>2. CASE plan.state = "unchanged"
    BY <2>2 DEF Compactor!Compact
  <2>3. CASE plan.state = "error"
    BY <2>3 DEF Compactor!Compact
  <2> QED BY <1>4, <2>1, <2>2, <2>3
<1> HIDE DEF cached, plan
<1>7. ASSUME UNCHANGED <<groups, saved, fresh>> PROVE Grouped' /\ Ranged'
  <2>1. Compactor!SystemFree(groups') = Compactor!SystemFree(groups)
    BY <1>7
  <2> QED BY <1>1, <1>7 DEF Grouped, Ranged
<1>8. CASE plan.state = "summarize" /\ job' = plan /\ summaries' = cached /\ UNCHANGED <<groups, sent, saved, fresh, halt>>
  <2>1. Summarizes(groups', job') /\ Caches(groups', summaries')
    BY <1>3, <1>4, <1>8
  <2>2. Compacting'
    BY <1>5, <1>8, <2>1 DEF Compacting
  <2>3. Compactor!NothingForgotten'
    BY <1>1, <1>8 DEF Compactor!NothingForgotten
  <2> QED BY <1>7, <1>8, <2>2, <2>3 DEF CompactInv
<1>9. CASE plan.state = "unchanged" /\ sent' = plan.result /\ summaries' = cached /\ UNCHANGED <<groups, job, saved, fresh, halt>>
  <2>1. Caches(groups', summaries')
    BY <1>3, <1>9
  <2>2. Compacting'
    BY <1>5, <1>9, <2>1 DEF Compacting
  <2>3. Faithful(groups', sent')
    BY <1>4, <1>9
  <2>4. Compactor!NothingForgotten'
    BY <2>3 DEF Faithful, Compactor!NothingForgotten
  <2> QED BY <1>7, <1>9, <2>2, <2>4 DEF CompactInv
<1>10. CASE Compactor!Fail
  BY <1>1, <1>7, <1>10, FailStep
<1> QED BY <1>6, <1>8, <1>9, <1>10

\* A call of the summarizing model takes groups from what remains into the summary.
LEMMA SummarizeStep ==
  ASSUME CompactInv, NEW size \in 0 .. (MaxSummary + 1), Compactor!Summarize(size)
  PROVE  CompactInv'
<1> DEFINE pack == Compactor!Packed(job.rest)
<1>1. Grouped /\ Compacting /\ Ranged /\ Compactor!NothingForgotten
  BY DEF CompactInv
<1>2. size \in Nat
  BY ContextAssumption
<1>3. job.state = "summarize" /\ job # Compactor!NoJob /\ Summarizes(groups, job) /\ halt = FALSE
  <2>1. job.state = "summarize"
    BY DEF Compactor!Summarize
  <2>2. Compactor!NoJob.state # "summarize"
    BY DEF Compactor!NoJob
  <2> QED BY <1>1, <2>1, <2>2 DEF Compacting
<1>4. \/ Compactor!Fail
      \/ /\ job' = [job EXCEPT
                      !.rest = @ \ pack,
                      !.calls = @ + 1,
                      !.summary = [covers |-> @.covers \cup Compactor!CoveredAt(groups, pack), size |-> size],
                      !.state = IF pack = job.rest THEN "publish" ELSE "summarize"]
         /\ UNCHANGED <<groups, summaries, sent, saved, fresh, halt>>
  BY DEF Compactor!Summarize
<1>5. pack \subseteq job.rest
  BY DEF Compactor!Packed
<1> HIDE DEF pack
<1>6. CASE Compactor!Fail
  BY <1>6, FailStep
<1>7. CASE /\ job' = [job EXCEPT
                        !.rest = @ \ pack,
                        !.calls = @ + 1,
                        !.summary = [covers |-> @.covers \cup Compactor!CoveredAt(groups, pack), size |-> size],
                        !.state = IF pack = job.rest THEN "publish" ELSE "summarize"]
           /\ UNCHANGED <<groups, summaries, sent, saved, fresh, halt>>
  <2>1. /\ job'.state = (IF pack = job.rest THEN "publish" ELSE "summarize") /\ job'.rest = job.rest \ pack
        /\ job'.summary = [covers |-> job.summary.covers \cup Compactor!CoveredAt(groups, pack), size |-> size]
        /\ job'.selected = job.selected /\ job'.before = job.before
        /\ job' = [f \in JobFields |-> job'[f]]
    BY <1>3, <1>7 DEF Summarizes, JobFields
  <2>2. Compactor!CoveredAt(groups, job.rest)
        = Compactor!CoveredAt(groups, pack) \cup Compactor!CoveredAt(groups, job.rest \ pack)
    BY <1>5 DEF Compactor!CoveredAt
  <2>3. Summarizes(groups, job')
    <3>1. job'.summary.covers \cup Compactor!CoveredAt(groups, job'.rest) = Compactor!CoveredAt(groups, job'.selected)
      <4>1. job'.summary.covers = job.summary.covers \cup Compactor!CoveredAt(groups, pack)
        BY <2>1
      <4>2. Compactor!CoveredAt(groups, job'.rest) = Compactor!CoveredAt(groups, job.rest \ pack)
        BY <2>1
      <4>3. Compactor!CoveredAt(groups, job'.selected) = Compactor!CoveredAt(groups, job.selected)
        BY <2>1
      <4>4. job.summary.covers \cup Compactor!CoveredAt(groups, job.rest) = Compactor!CoveredAt(groups, job.selected)
        BY <1>3 DEF Summarizes
      <4> QED BY <2>2, <4>1, <4>2, <4>3, <4>4
    <3>2. job'.state \in {"summarize", "publish"} /\ (job'.state = "publish" => job'.rest = {})
      BY <2>1
    <3>3. job'.rest \subseteq job'.selected /\ job'.summary.size \in Nat
      BY <1>2, <1>3, <2>1 DEF Summarizes
    <3> QED BY <1>3, <2>1, <3>1, <3>2, <3>3 DEF Summarizes
  <2>4. Compacting'
    <3>1. Summarizes(groups, job)' /\ Caches(groups, summaries)'
      BY <1>1, <1>7, <2>3 DEF Compacting
    <3> QED BY <1>3, <1>7, <3>1 DEF Compacting
  <2>5. Grouped' /\ Ranged' /\ Compactor!NothingForgotten'
    BY <1>1, <1>7 DEF Grouped, Ranged, Compactor!NothingForgotten
  <2> QED BY <2>4, <2>5 DEF CompactInv
<1> QED BY <1>4, <1>6, <1>7

\* An accepted projection is faithful, and its summary is cached with the groups it stands for.
LEMMA PublishStep ==
  ASSUME CompactInv, NEW full \in BOOLEAN, Compactor!Publish(full)
  PROVE  CompactInv'
<1> DEFINE projected == Compactor!Project(groups, job.selected, job.summary)
           made == [at |-> job.selected, text |-> job.summary, prints |-> [i \in job.selected |-> groups[i]]]
<1>1. Grouped /\ Compacting /\ Ranged /\ groups \in Seq(AnyGroup)
  BY TranscriptIs DEF CompactInv
<1>2. job.state = "publish" /\ Summarizes(groups, job) /\ halt = FALSE
  <2>1. job.state = "publish"
    BY DEF Compactor!Publish
  <2>2. Compactor!NoJob.state # "publish"
    BY DEF Compactor!NoJob
  <2> QED BY <1>1, <2>1, <2>2 DEF Compacting
<1>3. /\ job.selected \in SUBSET (1..Len(groups)) /\ job.summary.size \in Nat
      /\ job.summary.covers = Compactor!CoveredAt(groups, job.selected)
      /\ \A i \in job.selected : i # Compactor!LatestUser(groups) /\ Compactor!SafeToSummarize(groups[i])
      /\ job.before \in Nat /\ job.before <= Compactor!Total(groups)
  <2>1. Compactor!CoveredAt(groups, {}) = {}
    BY DEF Compactor!CoveredAt
  <2> QED BY <1>2, <2>1 DEF Summarizes
<1>4. /\ projected \in Seq(AnyGroup) /\ Compactor!Covered(projected) = Compactor!Covered(groups)
      /\ \A i \in (1..Len(groups)) \ job.selected : Compactor!Contains(projected, groups[i])
  BY <1>1, <1>3, ProjectIs
<1>5. Compactor!Total(projected) \in Nat /\ Compactor!Total(groups) \in Nat /\ DOMAIN groups = 1..Len(groups)
  BY <1>1, <1>4, TotalIs
<1>6. \/ Compactor!Fail
      \/ /\ Compactor!Total(projected) < job.before
         /\ summaries' = made /\ sent' = projected /\ job' = Compactor!NoJob
         /\ UNCHANGED <<groups, saved, fresh, halt>>
  <2>1. ~(Compactor!Total(projected) >= job.before) => Compactor!Total(projected) < job.before
    BY <1>3, <1>5
  <2> HIDE DEF projected
  <2> QED BY <2>1 DEF Compactor!Publish, projected
<1>7. CASE Compactor!Fail
  BY <1>7, FailStep
<1>8. CASE /\ Compactor!Total(projected) < job.before
           /\ summaries' = made /\ sent' = projected /\ job' = Compactor!NoJob
           /\ UNCHANGED <<groups, saved, fresh, halt>>
  <2>1. Compactor!Total(projected) <= Compactor!Total(groups)
    <3> HIDE DEF projected
    <3> QED BY <1>3, <1>5, <1>8
  <2>2. Caches(groups, made)
    <3>1. made.at = job.selected /\ made.text = job.summary
      OBVIOUS
    <3>2. Compactor!Total(Compactor!Project(groups, made.at, made.text)) <= Compactor!Total(groups)
      BY <2>1, <3>1
    <3> HIDE DEF made, projected
    <3> QED BY <1>3, <3>1, <3>2 DEF Caches, Stands
  <2> HIDE DEF made
  <2>3. Compacting'
    <3>1. Caches(groups, summaries)'
      BY <1>8, <2>2
    <3> QED BY <1>2, <1>8, <3>1 DEF Compacting, Compactor!NoJob
  <2>4. Faithful(groups, projected)
    <3> HIDE DEF projected
    <3> QED BY <1>3, <1>4, <1>5, <2>1 DEF Faithful
  <2>5. Compactor!NothingForgotten'
    <3>1. groups' = groups /\ sent' = projected
      BY <1>8
    <3> HIDE DEF projected
    <3> QED BY <2>4, <3>1 DEF Faithful, Compactor!NothingForgotten
  <2>6. Grouped' /\ Ranged'
    BY <1>1, <1>8 DEF Grouped, Ranged
  <2> QED BY <2>3, <2>5, <2>6 DEF CompactInv
<1> QED BY <1>6, <1>7, <1>8

\* A checkpoint: the ranges of the summary name its groups in the history without the system message.
LEMMA CapturedIs ==
  ASSUME Grouped, Caches(groups, summaries)
  PROVE  SpansOf(Compactor!SystemFree(groups), Compactor!Capture(groups, summaries), summaries.text)
<1> DEFINE free == Compactor!SystemFree(groups)
           at == summaries.at
           moved == {i - 1 : i \in at}
<1>1. /\ groups \in Seq(AnyGroup) /\ Len(groups) = Len(free) + 1
      /\ groups[1] = Compactor!System /\ ~Compactor!SafeToSummarize(groups[1])
      /\ \A i \in 1..Len(free) : groups[i + 1] = free[i]
  BY TranscriptIs
<1>2. /\ at \in SUBSET (1..Len(groups)) /\ summaries.text.size \in Nat
      /\ summaries.text.covers = Compactor!CoveredAt(groups, at)
      /\ \A i \in at : Compactor!SafeToSummarize(groups[i])
  BY <1>1, CachesStand DEF Stands
<1>3. free \in Seq(FreeGroup) /\ Len(free) \in Nat
  BY DEF Grouped
<1>4. Compactor!Capture(groups, summaries) = {Compactor!Span(free, i - (Len(groups) - Len(free))) : i \in at}
  BY DEF Compactor!Capture
<1> HIDE DEF free, at
<1>5. ASSUME NEW i \in at PROVE i \in Nat /\ i - 1 \in 1..Len(free) /\ free[i - 1] = groups[i]
                                /\ i - (Len(groups) - Len(free)) = i - 1
  <2>1. i \in 1..(Len(free) + 1) /\ i # 1
    BY <1>1, <1>2
  <2>2. i - 1 \in 1..Len(free) /\ (i - 1) + 1 = i
    BY <1>3, <2>1
  <2>3. Len(groups) - Len(free) = 1
    BY <1>1, <1>3
  <2> QED BY <1>1, <2>1, <2>2, <2>3
<1>6. moved \in SUBSET (1..Len(free))
  BY <1>5
<1>7. Compactor!Capture(groups, summaries) = {Compactor!Span(free, i) : i \in moved}
  <2>1. \A i \in at : Compactor!Span(free, i - (Len(groups) - Len(free))) = Compactor!Span(free, i - 1)
    BY <1>5
  <2> QED BY <1>4, <2>1
<1>8. \A i \in moved : Compactor!SafeToSummarize(free[i])
  <2> TAKE i \in moved
  <2>1. PICK k \in at : i = k - 1
    OBVIOUS
  <2>2. free[i] = groups[k]
    BY <1>5, <2>1
  <2> QED BY <1>2, <2>2
<1>9. Compactor!CoveredAt(groups, at) = Compactor!CoveredAt(free, moved)
  <2>1. ASSUME NEW x \in Compactor!CoveredAt(groups, at) PROVE x \in Compactor!CoveredAt(free, moved)
    <3>1. PICK i \in at : x \in groups[i].covers
      BY DEF Compactor!CoveredAt
    <3>2. i - 1 \in moved /\ free[i - 1] = groups[i]
      BY <1>5
    <3> HIDE DEF moved
    <3> QED BY <3>1, <3>2 DEF Compactor!CoveredAt
  <2>2. ASSUME NEW x \in Compactor!CoveredAt(free, moved) PROVE x \in Compactor!CoveredAt(groups, at)
    <3>1. PICK i \in moved : x \in free[i].covers
      BY DEF Compactor!CoveredAt
    <3>2. PICK k \in at : i = k - 1
      OBVIOUS
    <3>3. free[i] = groups[k]
      BY <1>5, <3>2
    <3> QED BY <3>1, <3>3 DEF Compactor!CoveredAt
  <2> QED BY <2>1, <2>2
<1> HIDE DEF moved
<1> QED BY <1>2, <1>6, <1>7, <1>8, <1>9 DEF SpansOf, free

\* The ranges of a history that goes on are those they were.
LEMMA SpansGrow ==
  ASSUME NEW ms \in Seq(FreeGroup), NEW hs \in Seq(FreeGroup), Begins(ms, hs), NEW ranges, NEW text,
         SpansOf(ms, ranges, text)
  PROVE  SpansOf(hs, ranges, text)
<1>1. ms \in Seq(AnyGroup) /\ hs \in Seq(AnyGroup)
  <2>1. (\A i \in 1..Len(ms) : ms[i] \in AnyGroup) /\ (\A i \in 1..Len(hs) : hs[i] \in AnyGroup)
    BY FreeIs
  <2> QED BY <2>1
<1>2. Len(ms) <= Len(hs) /\ (\A i \in 1..Len(ms) : ms[i] = hs[i]) /\ Len(ms) \in Nat /\ Len(hs) \in Nat
  BY DEF Begins
<1>3. PICK at \in SUBSET (1..Len(ms)) :
          /\ ranges = {Compactor!Span(ms, i) : i \in at}
          /\ \A i \in at : Compactor!SafeToSummarize(ms[i])
          /\ text.size \in Nat /\ text.covers = Compactor!CoveredAt(ms, at)
  BY DEF SpansOf
<1>4. \A i \in 1..Len(ms) : Compactor!Span(ms, i) = Compactor!Span(hs, i)
  BY <1>1, <1>2, OffsetIs
<1>5. ranges = {Compactor!Span(hs, i) : i \in at}
  BY <1>3, <1>4
<1>6. Compactor!CoveredAt(ms, at) = Compactor!CoveredAt(hs, at)
  BY <1>2, CoveredAtIs
<1>7. at \in SUBSET (1..Len(hs)) /\ \A i \in at : Compactor!SafeToSummarize(hs[i])
  BY <1>2, <1>3
<1> QED BY <1>3, <1>5, <1>6, <1>7 DEF SpansOf

\* A checkpoint commits the transcript with the ranges of its summary, or with those it had.
LEMMA CommitStep ==
  ASSUME CompactInv, Compactor!Commit
  PROVE  CompactInv'
<1> DEFINE free == Compactor!SystemFree(groups)
<1>1. Grouped /\ Compacting /\ Ranged /\ Compactor!NothingForgotten
  BY DEF CompactInv
<1>2. UNCHANGED <<groups, summaries, job, sent, fresh, halt>>
  BY DEF Compactor!Commit
<1>3. \/ summaries = Compactor!None /\ saved' = [saved EXCEPT !.messages = free]
      \/ saved' = [messages |-> free, ranges |-> Compactor!Capture(groups, summaries), text |-> summaries.text]
  BY DEF Compactor!Commit
<1>4. free \in Seq(FreeGroup) /\ SpansOf(free, Compactor!Capture(groups, summaries), summaries.text)
  BY <1>1, CapturedIs DEF Grouped, Compacting
<1>5. Compactor!SystemFree(groups)' = free
  BY <1>2 DEF Compactor!SystemFree
<1> HIDE DEF free
<1>6. Begins(free, free)
  BY <1>4 DEF Begins
<1>7. ASSUME saved' = [messages |-> free, ranges |-> Compactor!Capture(groups, summaries), text |-> summaries.text]
      PROVE  Ranged'
  <2>1. saved'.messages = free /\ saved'.ranges = Compactor!Capture(groups, summaries) /\ saved'.text = summaries.text
        /\ saved' = [f \in {"messages", "ranges", "text"} |-> saved'[f]]
    BY <1>7
  <2> QED BY <1>4, <1>5, <1>6, <2>1 DEF Ranged
<1>8. ASSUME saved' = [saved EXCEPT !.messages = free] PROVE Ranged'
  <2>1. saved'.messages = free /\ saved'.ranges = saved.ranges /\ saved'.text = saved.text
        /\ saved' = [f \in {"messages", "ranges", "text"} |-> saved'[f]]
    BY <1>1, <1>8 DEF Ranged
  <2>2. saved.ranges # {} => SpansOf(free, saved.ranges, saved.text)
    <3>1. saved.ranges # {} => Begins(saved.messages, free) /\ SpansOf(saved.messages, saved.ranges, saved.text)
      BY <1>1 DEF Ranged, free
    <3>2. saved.messages \in Seq(FreeGroup)
      BY <1>1 DEF Ranged
    <3> QED BY <1>4, <3>1, <3>2, SpansGrow
  <2> QED BY <1>4, <1>5, <1>6, <2>1, <2>2 DEF Ranged
<1>9. Ranged'
  BY <1>3, <1>7, <1>8
<1>10. Grouped' /\ Compacting' /\ Compactor!NothingForgotten'
  BY <1>1, <1>2 DEF Grouped, Compacting, Compactor!NothingForgotten
<1> QED BY <1>9, <1>10 DEF CompactInv

\* The next run starts from the working set of what was committed.
LEMMA NextRunStep ==
  ASSUME CompactInv, Compactor!NextRun
  PROVE  CompactInv'
<1> DEFINE work == Compactor!Workset(saved)
           g == Compactor!Group([kind |-> "user", size |-> 1], fresh + 1)
<1>1. Grouped /\ Compacting /\ Ranged
  BY DEF CompactInv
<1>2. /\ halt /\ saved' = [messages |-> work, ranges |-> {}, text |-> Compactor!None.text]
      /\ groups' = <<Compactor!System>> \o work \o <<g>>
      /\ fresh' = fresh + 1 /\ sent' = <<>> /\ halt' = FALSE /\ UNCHANGED <<summaries, job>>
  BY DEF Compactor!NextRun
<1>3. work \in Seq(FreeGroup)
  BY <1>1, ResumableIs
<1>4. fresh \in Nat
  BY <1>1 DEF Grouped
<1>5. g \in FreeGroup
  BY <1>4 DEF Compactor!Group, FreeGroup, Widths
<1> HIDE DEF work, g
<1> DEFINE free == work \o <<g>>
<1>6. free \in Seq(FreeGroup) /\ groups' = <<Compactor!System>> \o free
  <2>1. work \in Seq(AnyGroup) /\ g \in AnyGroup
    <3>1. \A i \in 1..Len(work) : work[i] \in AnyGroup
      BY <1>3, FreeIs
    <3> QED BY <1>3, <1>5, <3>1, FreeIs
  <2>2. Compactor!System \in AnyGroup
    BY DEF Compactor!System, AnyGroup, Widths
  <2>3. <<Compactor!System>> \in Seq(AnyGroup) /\ <<g>> \in Seq(AnyGroup) /\ <<g>> \in Seq(FreeGroup)
    BY <1>5, <2>1, <2>2
  <2>4. (<<Compactor!System>> \o work) \o <<g>> = <<Compactor!System>> \o (work \o <<g>>)
    BY <2>1, <2>3, ConcatAssociative
  <2>5. free \in Seq(FreeGroup)
    BY <1>3, <2>3, ConcatProperties
  <2> QED BY <1>2, <2>4, <2>5
<1> HIDE DEF free
<1>7. Compactor!SystemFree(groups') = free
  BY <1>6, SystemFreeIs
<1>8. Grouped'
  <2>1. Compactor!SystemFree(groups') \in Seq(FreeGroup)
    BY <1>6, <1>7
  <2>2. groups' = <<Compactor!System>> \o Compactor!SystemFree(groups')
    BY <1>6, <1>7
  <2>3. Compactor!SystemFree(groups)' = Compactor!SystemFree(groups') /\ fresh' \in Nat
    BY <1>2, <1>4 DEF Compactor!SystemFree
  <2> QED BY <2>1, <2>2, <2>3 DEF Grouped, Compactor!System
<1>9. Ranged'
  BY <1>2, <1>3 DEF Ranged
<1>10. Compacting'
  <2>1. job = Compactor!NoJob /\ summaries = Compactor!None
    BY <1>1, <1>2 DEF Compacting
  <2>2. Caches(groups', Compactor!None)
    BY DEF Caches
  <2> QED BY <1>2, <2>1, <2>2 DEF Compacting, Caches, Compactor!NoJob, Compactor!None
<1>11. Compactor!NothingForgotten'
  BY <1>2 DEF Compactor!NothingForgotten
<1> QED BY <1>8, <1>9, <1>10, <1>11 DEF CompactInv

\* Every step of the compactor.
LEMMA CompactionStep == CompactInv /\ Compactor!Next => CompactInv'
<1> SUFFICES ASSUME CompactInv, Compactor!Next PROVE CompactInv'
  OBVIOUS
<1>1. CASE Compactor!Stop
  BY <1>1, FailStep DEF Compactor!Stop
<1> QED BY <1>1, GrowStep, CompactStep, SummarizeStep, PublishStep, CommitStep, NextRunStep DEF Compactor!Next

\* A conversation before its first group.
LEMMA CompactionInit == Compactor!Init => CompactInv
<1> SUFFICES ASSUME Compactor!Init PROVE CompactInv
  OBVIOUS
<1>1. /\ groups = <<Compactor!System>> /\ summaries = Compactor!None /\ job = Compactor!NoJob /\ sent = <<>>
      /\ saved = [messages |-> <<>>, ranges |-> {}, text |-> Compactor!None.text] /\ fresh = 0 /\ halt = FALSE
  BY DEF Compactor!Init
<1>2. <<>> \in Seq(FreeGroup) /\ <<>> \in Seq(AnyGroup)
  OBVIOUS
<1>3. groups = <<Compactor!System>> \o <<>>
  <2>1. <<Compactor!System>> \in Seq(AnyGroup)
    BY DEF Compactor!System, AnyGroup, Widths
  <2> QED BY <1>1, <2>1, ConcatEmptySeq
<1>4. Compactor!SystemFree(groups) = <<>>
  BY <1>2, <1>3, SystemFreeIs
<1>5. Grouped
  BY <1>1, <1>2, <1>3, <1>4 DEF Grouped
<1>6. Compacting /\ Ranged /\ Compactor!NothingForgotten
  BY <1>1, <1>2 DEF Compacting, Caches, Ranged, Compactor!NothingForgotten
<1> QED BY <1>5, <1>6 DEF CompactInv

\* What the engine is handed, and what the next run starts from, stands for everything said before,
\* and has the latest request and protected groups in it (Compactor::transform, CompactionState).
THEOREM ContextKeptHolds == AllSpec => []ContextKept
<1>1. AllInit => CompactInv
  BY CompactionInit DEF AllInit
<1>2. CompactInv /\ [AllNext]_allVars => CompactInv'
  <2> SUFFICES ASSUME CompactInv, [AllNext]_allVars PROVE CompactInv'
    OBVIOUS
  <2>1. Compactor!Next \/ UNCHANGED compactionVars
    BY DEF AllNext, allVars, Within
  <2>2. CASE UNCHANGED compactionVars
    <3>1. UNCHANGED <<groups, summaries, job, sent, saved, fresh, halt>>
      BY <2>2 DEF compactionVars
    <3>2. Grouped' /\ Compacting' /\ Ranged' /\ Compactor!NothingForgotten'
      BY <3>1 DEF CompactInv, Grouped, Compacting, Ranged, Compactor!NothingForgotten
    <3> QED BY <3>2 DEF CompactInv
  <2> QED BY <2>1, <2>2, CompactionStep
<1>3. CompactInv => ContextKept
  BY ResumableIs DEF CompactInv, ContextKept, Compactor!ContextKept
<1> QED BY <1>1, <1>2, <1>3, PTL DEF AllSpec
=============================================================================
