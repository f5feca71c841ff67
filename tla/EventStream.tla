----------------------------- MODULE EventStream ------------------------------
(***************************************************************************)
(* How the events of one run reach its subscribers: the run's EventBus and *)
(* its bounded broadcast channel (packages/runtime/src/events.rs), the     *)
(* collector task with its snapshot and bounded journal                    *)
(* (packages/application/src/service.rs: collect, accept, resync, fault)   *)
(* and pull-based subscriptions that reconnect with a cursor               *)
(* (packages/application/src/subscription.rs).                             *)
(*                                                                         *)
(* An event is its sequence number; what a reader has made of the stream   *)
(* is the set of events its state reflects, so a lost, repeated or         *)
(* reordered event shows.                                                  *)
(***************************************************************************)
EXTENDS Integers, FiniteSets, FiniteSetsExt

CONSTANTS
    Clients,        \* subscribers
    MaxEvents,      \* bound of the model: events of the run, RunFinished included
    RingCap,        \* capacity of the broadcast channel (config.event_capacity)
    JournalEvents,  \* config.journal_events
    JournalBytes,   \* config.journal_bytes
    Sizes           \* encoded sizes an event may have

ASSUME RingAssumption == RingCap \in Nat \ {0}
ASSUME JournalAssumption == JournalEvents \in Nat \ {0} /\ JournalBytes \in Nat \ {0}
ASSUME SizeAssumption == Sizes \subseteq Nat \ {0}
ASSUME MaxEventsAssumption == MaxEvents \in Nat \ {0}

VARIABLES
    seq,        \* RunSnapshot.seq of the bus: events 1..seq were published
    size,       \* size of each published event
    run,        \* "running", "finished" (RunFinished published), "reported", "lost"
    pos,        \* events the collector's receiver has passed
    collector,  \* "recv", "poll" (receiver empty, completion polled next), "notify", "done"
    leaving,    \* the collector breaks out of its loop after the notification
    seen,       \* RunData.snapshot: the events it reflects
    snapSeq,    \* RunData.snapshot.seq
    outcome,    \* RunData.snapshot.outcome is set
    fault,      \* RunData.fault is set
    journal,    \* RunData.journal, the events kept
    floor,      \* RunData.reset_floor
    revision,   \* the value of the `changed` watch channel
    conn,       \* each client: "off", "next", "wait", "ended"
    cursor, initial, known,   \* Subscription: cursor, initial, watched revision
    view        \* the events a client's state reflects

busVars == <<seq, size, run>>
dataVars == <<seen, snapSeq, outcome, fault, journal, floor>>
clientVars == <<conn, cursor, initial, known, view>>
vars == <<busVars, pos, collector, leaving, dataVars, revision, clientVars>>

Terminal == outcome \/ fault

Init ==
    /\ seq = 0 /\ size = [e \in 1..MaxEvents |-> 0] /\ run = "running"
    /\ pos = 0 /\ collector = "recv" /\ leaving = FALSE
    /\ seen = {} /\ snapSeq = 0 /\ outcome = FALSE /\ fault = FALSE
    /\ journal = {} /\ floor = 0 /\ revision = 0
    /\ conn = [c \in Clients |-> "off"]
    /\ cursor = [c \in Clients |-> 0] /\ initial = [c \in Clients |-> TRUE]
    /\ known = [c \in Clients |-> 0] /\ view = [c \in Clients |-> {}]

-----------------------------------------------------------------------------
(* The run                                                                 *)

\* EventBus::publish: number the event, apply it to the bus's snapshot, send it.
Publish ==
    /\ run = "running" /\ seq < MaxEvents - 1
    /\ seq' = seq + 1
    /\ \E b \in Sizes : size' = [size EXCEPT ![seq + 1] = b]
    /\ UNCHANGED <<run, pos, collector, leaving, dataVars, revision, clientVars>>
\* The RunFinished event; nothing is published after it.
Finish ==
    /\ run = "running" /\ seq < MaxEvents
    /\ seq' = seq + 1
    /\ \E b \in Sizes : size' = [size EXCEPT ![seq + 1] = b]
    /\ run' = "finished"
    /\ UNCHANGED <<pos, collector, leaving, dataVars, revision, clientVars>>
\* The report follows the terminal event and resolves the session's wait().
Report ==
    /\ run = "finished"
    /\ run' = "reported"
    /\ UNCHANGED <<seq, size, pos, collector, leaving, dataVars, revision, clientVars>>
\* The executor goes away without a report: wait() fails.
Lost ==
    /\ run = "running"
    /\ run' = "lost"
    /\ UNCHANGED <<seq, size, pos, collector, leaving, dataVars, revision, clientVars>>

Finished == run \in {"finished", "reported"}
IsLast(e) == Finished /\ e = seq

-----------------------------------------------------------------------------
(* The collector                                                           *)

\* The channel keeps the last RingCap events.
Lagged == pos + RingCap < seq

\* pop_front until the journal is within both limits: an event stays if what begins
\* with it, and with every later event, is within them.
Bytes(J) == MapThenSumSet(LAMBDA e : size[e], J)
From(J, n) == {e \in J : e >= n}
Fits(J) == Cardinality(J) <= JournalEvents /\ Bytes(J) <= JournalBytes
Trim(J) == {e \in J : \A n \in From(J, e) : Fits(From(J, n))}

\* Entry::accept of an event newer than the snapshot.
Accept(e) ==
    /\ seen' = seen \union {e} /\ snapSeq' = e
    /\ outcome' = IsLast(e)
    /\ IF size[e] <= JournalBytes
       THEN journal' = Trim(journal \union {e}) /\ UNCHANGED floor
       ELSE journal' = {} /\ floor' = e
    /\ UNCHANGED fault

\* Entry::resync: take the bus's snapshot, drop the journal, move the floor.
Resync ==
    /\ seen' = 1..seq /\ snapSeq' = seq
    /\ outcome' = Finished
    /\ journal' = {} /\ floor' = seq

\* An event is received: ignored if the snapshot has it, applied if it is the next.
Receive ==
    /\ collector = "recv" /\ pos < seq /\ ~Lagged
    /\ pos' = pos + 1
    /\ leaving' = IsLast(pos + 1)
    /\ IF pos + 1 <= snapSeq
       THEN /\ collector' = IF leaving' THEN "done" ELSE "recv"
            /\ UNCHANGED dataVars
       ELSE /\ IF pos + 1 = snapSeq + 1 THEN Accept(pos + 1) ELSE Resync /\ UNCHANGED fault
            /\ collector' = "notify"
    /\ UNCHANGED <<busVars, revision, clientVars>>

\* RecvError::Lagged: the receiver jumps to the oldest event kept, the entry resyncs.
ReceiveLagged ==
    /\ collector = "recv" /\ Lagged
    /\ pos' = seq - RingCap
    /\ Resync /\ UNCHANGED fault
    /\ leaving' = outcome'
    /\ collector' = "notify"
    /\ UNCHANGED <<busVars, revision, clientVars>>

\* The biased select polls the receiver first and the completion after it; more may be
\* published in between.
ReceiverEmpty ==
    /\ collector = "recv" /\ pos = seq
    /\ collector' = "poll"
    /\ UNCHANGED <<busVars, pos, leaving, dataVars, revision, clientVars>>
Pending ==
    /\ collector = "poll" /\ run \in {"running", "finished"} /\ pos < seq
    /\ collector' = "recv"
    /\ UNCHANGED <<busVars, pos, leaving, dataVars, revision, clientVars>>
\* The run is over: resync, then fault unless the snapshot is terminal.
Completion ==
    /\ collector = "poll" /\ run \in {"reported", "lost"}
    /\ Resync
    /\ fault' = ~outcome'
    /\ leaving' = TRUE /\ collector' = "notify"
    /\ UNCHANGED <<busVars, pos, revision, clientVars>>

\* Mutant: the last change before the loop ends is not announced.
NotifyUnlessLeaving ==
    /\ collector = "notify"
    /\ revision' = IF leaving THEN revision ELSE revision + 1
    /\ collector' = IF leaving THEN "done" ELSE "recv"
    /\ UNCHANGED <<busVars, pos, leaving, dataVars, clientVars>>

\* After the data lock is released: bump the revision subscribers wait on.
Notify ==
    /\ collector = "notify"
    /\ revision' = revision + 1
    /\ collector' = IF leaving THEN "done" ELSE "recv"
    /\ UNCHANGED <<busVars, pos, leaving, dataVars, clientVars>>

-----------------------------------------------------------------------------
(* Subscriptions                                                           *)

\* Subscription::new, with the client's own cursor or from scratch; the revision is
\* watched before the data is looked at.  A cursor beyond the snapshot is refused.
Subscribe(c) ==
    /\ conn[c] = "off"
    /\ \E fresh \in BOOLEAN :
         /\ fresh \/ cursor[c] <= snapSeq
         /\ ~fresh => ~initial[c]
         /\ initial' = [initial EXCEPT ![c] = fresh]
         /\ cursor' = [cursor EXCEPT ![c] = IF fresh THEN 0 ELSE @]
         /\ view' = [view EXCEPT ![c] = IF fresh THEN {} ELSE @]
    /\ known' = [known EXCEPT ![c] = revision]
    /\ conn' = [conn EXCEPT ![c] = "next"]
    /\ UNCHANGED <<busVars, pos, collector, leaving, dataVars, revision>>

\* The connection is dropped; the client keeps what it has.
Disconnect(c) ==
    /\ conn[c] \in {"next", "wait"}
    /\ conn' = [conn EXCEPT ![c] = "off"]
    /\ UNCHANGED <<busVars, pos, collector, leaving, dataVars, revision, cursor, initial, known, view>>

Oldest == IF journal = {} THEN snapSeq + 1 ELSE Min(journal)
Newer(c) == {e \in journal : e > cursor[c]}
\* Mutant: off by one in the comparison with the journal's oldest event.
NeedsSnapshotLate(c) == initial[c] \/ cursor[c] < floor \/ cursor[c] + 2 < Oldest
NeedsSnapshot(c) == initial[c] \/ cursor[c] < floor \/ cursor[c] + 1 < Oldest

\* One turn of Subscription::next under the data lock, and the client applies the frame.
FrameSnapshot(c) ==
    /\ conn[c] = "next" /\ NeedsSnapshot(c)
    /\ view' = [view EXCEPT ![c] = seen]
    /\ cursor' = [cursor EXCEPT ![c] = snapSeq]
    /\ initial' = [initial EXCEPT ![c] = FALSE]
    /\ UNCHANGED <<busVars, pos, collector, leaving, dataVars, revision, conn, known>>
FrameEvent(c) ==
    /\ conn[c] = "next" /\ ~NeedsSnapshot(c) /\ Newer(c) # {}
    /\ view' = [view EXCEPT ![c] = @ \union {Min(Newer(c))}]
    /\ cursor' = [cursor EXCEPT ![c] = Min(Newer(c))]
    /\ UNCHANGED <<busVars, pos, collector, leaving, dataVars, revision, conn, initial, known>>
\* A fault frame or the end of the stream.
FrameEnd(c) ==
    /\ conn[c] = "next" /\ ~NeedsSnapshot(c) /\ Newer(c) = {} /\ Terminal
    /\ conn' = [conn EXCEPT ![c] = "ended"]
    /\ UNCHANGED <<busVars, pos, collector, leaving, dataVars, revision, cursor, initial, known, view>>
NoFrame(c) ==
    /\ conn[c] = "next" /\ ~NeedsSnapshot(c) /\ Newer(c) = {} /\ ~Terminal
    /\ conn' = [conn EXCEPT ![c] = "wait"]
    /\ UNCHANGED <<busVars, pos, collector, leaving, dataVars, revision, cursor, initial, known, view>>
\* changed() returns when the revision is another than the one last seen.
Wake(c) ==
    /\ conn[c] = "wait" /\ known[c] # revision
    /\ known' = [known EXCEPT ![c] = revision]
    /\ conn' = [conn EXCEPT ![c] = "next"]
    /\ UNCHANGED <<busVars, pos, collector, leaving, dataVars, revision, cursor, initial, view>>

-----------------------------------------------------------------------------
Collector ==
    Receive \/ ReceiveLagged \/ ReceiverEmpty \/ Pending \/ Completion \/ Notify
Pull(c) == FrameSnapshot(c) \/ FrameEvent(c) \/ FrameEnd(c) \/ NoFrame(c) \/ Wake(c)

\* Everything is delivered and every client has ended or stays away.
Over ==
    /\ collector = "done" /\ \A c \in Clients : conn[c] \in {"off", "ended"}
    /\ UNCHANGED vars
Next ==
    \/ Publish \/ Finish \/ Report \/ Lost \/ Collector \/ Over
    \/ \E c \in Clients : Subscribe(c) \/ Disconnect(c) \/ Pull(c)

Spec == Init /\ [][Next]_vars
\* Tasks that can run do run: the collector, a client that is connected and reads, and
\* the terminal sequence of the run.  Runs need not finish and clients need not connect.
FairSpec ==
    /\ Spec
    /\ WF_vars(Collector) /\ WF_vars(Report)
    /\ \A c \in Clients : WF_vars(Pull(c))

-----------------------------------------------------------------------------
Events == 1..MaxEvents

TypeBus ==
    /\ seq \in Nat /\ size \in [Events -> Sizes \union {0}]
    /\ run \in {"running", "finished", "reported", "lost"}
TypeCollector ==
    /\ pos \in Nat /\ collector \in {"recv", "poll", "notify", "done"}
    /\ leaving \in BOOLEAN
TypeData ==
    /\ snapSeq \in Nat /\ floor \in Nat /\ revision \in Nat
    /\ seen \subseteq Nat /\ journal \subseteq Nat
    /\ outcome \in BOOLEAN /\ fault \in BOOLEAN
TypeClients ==
    /\ conn \in [Clients -> {"off", "next", "wait", "ended"}]
    /\ cursor \in [Clients -> Nat] /\ initial \in [Clients -> BOOLEAN]
    /\ known \in [Clients -> Nat] /\ view \in [Clients -> SUBSET Nat]
Bounds ==
    /\ pos <= seq /\ snapSeq <= seq /\ floor <= snapSeq /\ seq <= MaxEvents
\* Every variable holds a value of its type, and nobody is ahead of the bus.
TypeOK == TypeBus /\ TypeCollector /\ TypeData /\ TypeClients /\ Bounds

\* Whatever a client has been sent, by snapshots and events and over any number of
\* reconnections, is exactly the run up to its cursor: no gap, nothing twice.
ViewIsPrefix == \A c \in Clients : view[c] = 1..cursor[c]

\* The journal is the run's last stretch, with no hole between it, the snapshot and the
\* floor: what the cursor rules of Subscription::next rest on.
JournalIsSuffix ==
    /\ seen = 1..snapSeq
    /\ journal = Oldest..snapSeq /\ floor < Oldest

\* A client's own cursor is never refused as "ahead of this run".
CursorAccepted == \A c \in Clients : cursor[c] <= snapSeq

\* A client whose stream ended without a fault has the whole run, outcome included, and
\* a fault is only told of a run that has none.
EndIsComplete ==
    \A c \in Clients : conn[c] = "ended" =>
        IF fault THEN run = "lost" ELSE Finished /\ view[c] = 1..seq

\* Once the run is over a client that stays connected comes to the end of its stream.
StreamEnds ==
    \A c \in Clients :
        (run \in {"finished", "lost"} /\ conn[c] \in {"next", "wait"})
            ~> conn[c] \in {"ended", "off"}

\* What a subscriber has is a prefix of the run's events, and all of them once it
\* has been told the run ended.
ViewSound == ViewIsPrefix /\ EndIsComplete
=============================================================================
