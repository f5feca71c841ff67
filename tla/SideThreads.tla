---------------------------- MODULE SideThreads ----------------------------
(***************************************************************************)
(* The temporary side conversations of the server (side_routes.rs): one    *)
(* thread per parent session and browser window, kept only in memory, with *)
(* a history of its own that starts as a copy of the parent's.             *)
(*                                                                         *)
(* Opening, starting a turn and closing are serialised by `admission`, a   *)
(* lock held across the awaits of an operation; deleting or archiving the  *)
(* parent drops its threads without that lock.  Each recorded turn spawns  *)
(* a task that waits for the run and then writes its result back into the  *)
(* thread it finds under the turn's key.                                   *)
(***************************************************************************)
EXTENDS Naturals, Sequences, FiniteSets, SequencesExt

CONSTANTS Parents, Windows, Requests, MaxThreads, MaxTurns, MaxOpens, MaxRuns

VARIABLES stored,   \* the parents the session store still holds
          dropping, \* the parents whose threads a handler is about to drop
          threads,  \* per key, the thread under it
          desk,     \* the operation that holds `admission`
          tasks,    \* the runs, in the order the registry created them
          waiters,  \* the tasks that wait for a run's report, one per recorded turn
          opens     \* how many threads were ever opened

sideVars == <<stored, dropping, threads, desk, tasks, waiters, opens>>

Keys == Parents \X Windows
Parent(k) == k[1]

(* A history is known by the thread it was opened for and the runs whose   *)
(* transcripts it has been extended by.  A thread that was never opened    *)
(* has incarnation 0.                                                      *)
History(opened, ran) == [opened |-> opened, ran |-> ran]
Closed == [opened |-> 0, history |-> History(0, <<>>), turns |-> <<>>, active |-> 0]
IsOpen(k) == threads[k].opened > 0
Idle == [op |-> "none"]

Init ==
  /\ stored = Parents
  /\ dropping = {}
  /\ threads = [k \in Keys |-> Closed]
  /\ desk = Idle
  /\ tasks = <<>>
  /\ waiters = {}
  /\ opens = 0

(* AgentApplication::cancel_task: a signal, ignored by a finished run.     *)
CancelTasks(rs) ==
  [r \in DOMAIN tasks |-> IF r \in rs THEN [tasks[r] EXCEPT !.cancelled = TRUE] ELSE tasks[r]]

-----------------------------------------------------------------------------
(* open: an existing thread is only shown; otherwise the parent's history  *)
(* is read from the store, with the lock held.                             *)
Open(k) ==
  /\ desk = Idle
  /\ ~IsOpen(k)
  /\ Parent(k) \in stored
  /\ opens < MaxOpens
  /\ desk' = [op |-> "open", key |-> k]
  /\ UNCHANGED <<stored, dropping, threads, tasks, waiters, opens>>

(* The second half of open: the thread is created unless the table is full *)
(* or the copy was refused for its size.                                   *)
Opened ==
  /\ desk.op = "open"
  /\ desk' = Idle
  /\ \/ /\ Cardinality({k \in Keys : IsOpen(k)}) < MaxThreads
        /\ opens' = opens + 1
        /\ threads' = [threads EXCEPT ![desk.key] =
              [Closed EXCEPT !.opened = opens', !.history = History(opens', <<>>)]]
     \/ UNCHANGED <<threads, opens>>
  /\ UNCHANGED <<stored, dropping, tasks, waiters>>

(* start_owned up to the launch: a request the thread already knows is     *)
(* answered from its record; a full or busy thread refuses the turn.       *)
Start(k, q) ==
  /\ desk = Idle
  /\ IsOpen(k)
  /\ \A t \in ToSet(threads[k].turns) : t.request # q
  /\ Len(threads[k].turns) < MaxTurns
  /\ threads[k].active = 0
  /\ desk' = [op |-> "start", key |-> k, request |-> q, history |-> threads[k].history]
  /\ UNCHANGED <<stored, dropping, threads, tasks, waiters, opens>>

(* start_ephemeral_with_history and start_task_with_history: the parent is *)
(* read again; a request id the registry retains names its earlier run.    *)
Launch ==
  /\ desk.op = "start"
  /\ LET known == {r \in DOMAIN tasks :
                     tasks[r].kept /\ tasks[r].of = <<desk.key, desk.request>>}
     IN \/ /\ Parent(desk.key) \in stored
           /\ \/ /\ known # {}
                 /\ \E r \in known : desk' = [op |-> "record", key |-> desk.key,
                                              request |-> desk.request, run |-> r]
                 /\ UNCHANGED tasks
              \/ /\ known = {}
                 /\ Len(tasks) < MaxRuns
                 /\ tasks' = Append(tasks, [of |-> <<desk.key, desk.request>>,
                                            input |-> desk.history, running |-> TRUE,
                                            cancelled |-> FALSE, kept |-> TRUE])
                 /\ desk' = [op |-> "record", key |-> desk.key,
                             request |-> desk.request, run |-> Len(tasks')]
        \/ desk' = Idle /\ UNCHANGED tasks
  /\ UNCHANGED <<stored, dropping, threads, waiters, opens>>

\* Mutant: the run is left to itself.
AbandonedSilently(r) == tasks

(* What start_owned does with a run whose thread is gone.                  *)
Abandoned(r) == CancelTasks({r})

(* The last part of start_owned: the run becomes the thread's active one   *)
(* and gets its waiter; the parent may have dropped the thread meanwhile.  *)
Record ==
  /\ desk.op = "record"
  /\ desk' = Idle
  /\ \/ /\ IsOpen(desk.key)
        /\ threads' = [threads EXCEPT
              ![desk.key].active = desk.run,
              ![desk.key].turns = Append(@, [request |-> desk.request, run |-> desk.run,
                                             settled |-> FALSE])]
        /\ waiters' = waiters \cup {[run |-> desk.run, key |-> desk.key, from |-> threads[desk.key].opened]}
        /\ UNCHANGED tasks
     \/ /\ ~IsOpen(desk.key)
        /\ tasks' = Abandoned(desk.run)
        /\ UNCHANGED <<threads, waiters>>
  /\ UNCHANGED <<stored, dropping, opens>>

-----------------------------------------------------------------------------
(* A run ends by itself or because it was cancelled (external).            *)
RunEnds(r) ==
  /\ tasks[r].running
  /\ tasks' = [tasks EXCEPT ![r].running = FALSE]
  /\ UNCHANGED <<stored, dropping, threads, desk, waiters, opens>>

(* The registry drops a finished run (prune by age).                       *)
Forget(r) ==
  /\ tasks[r].kept /\ ~tasks[r].running
  /\ tasks' = [tasks EXCEPT ![r].kept = FALSE]
  /\ UNCHANGED <<stored, dropping, threads, desk, waiters, opens>>

Transcript(r) == History(tasks[r].input.opened, Append(tasks[r].input.ran, r))

(* The waiter's write-back: the turn and the active run are matched by run *)
(* id, the history is replaced in whatever thread the key names now.       *)
Report(w) ==
  /\ ~tasks[w.run].running
  /\ waiters' = waiters \ {w}
  /\ \/ ~IsOpen(w.key) /\ UNCHANGED threads
     \/ /\ IsOpen(w.key)
        /\ \E reported \in BOOLEAN :
             threads' = [threads EXCEPT
               ![w.key].turns = [i \in DOMAIN @ |->
                   IF @[i].run = w.run THEN [@[i] EXCEPT !.settled = TRUE] ELSE @[i]],
               ![w.key].active = IF @ = w.run THEN 0 ELSE @,
               ![w.key].history = IF reported THEN Transcript(w.run) ELSE @]
  /\ UNCHANGED <<stored, dropping, desk, tasks, opens>>

-----------------------------------------------------------------------------
Discard(ks) ==
  /\ threads' = [k \in Keys |-> IF k \in ks THEN Closed ELSE threads[k]]
  /\ tasks' = CancelTasks({threads[k].active : k \in ks})

(* close: under `admission`. *)
Close(k) ==
  /\ desk = Idle
  /\ IsOpen(k)
  /\ Discard({k})
  /\ UNCHANGED <<stored, dropping, desk, waiters, opens>>

(* The delete and archive handlers of the session routes: the store is     *)
(* changed first, the threads are dropped afterwards.  Cleaning up after a *)
(* deletion may fail in between, and the threads then stay.                *)
Retire(p) ==
  /\ p \in stored \ dropping
  /\ \/ stored' = stored \ {p} /\ dropping' = dropping \cup {p}
     \/ stored' = stored /\ dropping' = dropping \cup {p}
     \/ stored' = stored \ {p} /\ dropping' = dropping
  /\ UNCHANGED <<threads, desk, tasks, waiters, opens>>

(* drop_parent: without `admission`. *)
DropParent(p) ==
  /\ p \in dropping
  /\ dropping' = dropping \ {p}
  /\ Discard({k \in Keys : Parent(k) = p})
  /\ UNCHANGED <<stored, desk, waiters, opens>>

Next ==
  \/ \E k \in Keys : Open(k) \/ Close(k) \/ \E q \in Requests : Start(k, q)
  \/ Opened \/ Launch \/ Record
  \/ \E r \in DOMAIN tasks : RunEnds(r) \/ Forget(r)
  \/ \E w \in waiters : Report(w)
  \/ \E p \in Parents : Retire(p) \/ DropParent(p)

Spec == Init /\ [][Next]_sideVars

-----------------------------------------------------------------------------
(* A side run somebody is still paying for is the active run of an open    *)
(* thread, where its window can stop it, or is about to be recorded there; *)
(* every other one has been cancelled.  drop_parent runs between any two   *)
(* steps of a start.                                                       *)
NoOrphanRun ==
  \A r \in DOMAIN tasks :
    tasks[r].running /\ ~tasks[r].cancelled =>
      \/ \E k \in Keys : IsOpen(k) /\ threads[k].active = r
      \/ desk.op = "record" /\ desk.run = r

(* A side thread continues its own history: what the model is shown in a   *)
(* thread comes from the copy made when that thread was opened.            *)
OwnHistory == \A k \in Keys : threads[k].history.opened = threads[k].opened
=============================================================================
