------------------------------- MODULE Memory -------------------------------
(***************************************************************************)
(* Curated long-term memory: packages/memory (the MEMORY.md store and the  *)
(* plugin's tools) with the server routes that manage it.                  *)
(*                                                                         *)
(* A document is its next id and its entries.  Its revision is the digest  *)
(* of the rendered file, so the model compares documents themselves.       *)
(* Clients work through a FileStore (StoreOf): the personal scope shares   *)
(* one, every use of a workspace scope opens its own, so only the file     *)
(* lock separates two of those.                                            *)
(***************************************************************************)
EXTENDS Integers, Sequences, SequencesExt

CONSTANTS
    Clients,      \* memory tools of runs, and the management routes
    Agents,       \* the clients whose cancellation token can fire (runs)
    Writers,      \* the clients bound with writable = true
    Stores,       \* open FileStore instances on one directory
    StoreOf,      \* Clients -> Stores
    Texts,        \* entry bodies that pass validate_text
    BadText,      \* a body that does not
    MaxEntries,   \* Limits::max_entries
    MaxOps,       \* operations in one change
    MaxNextId,    \* bound: changes stop being tried at this next_id
    MaxFaults     \* bound on crashes, sync failures and outside edits together

VARIABLES
    file,     \* MEMORY.md: a document, or Broken after an outside edit
    gate,     \* FileStore::gate: its holder or Nobody
    flock,    \* memory.lock: its holder or Nobody
    pc,       \* where each client's call stands
    call,     \* what a client is doing: read or apply
    known,    \* the last snapshot a client was given, Nothing before the first
    next,     \* the document a call computed under the locks
    cancel,   \* CancellationToken of each client's run
    faults

vars == <<file, gate, flock, pc, call, known, next, cancel, faults>>

Nobody == "nobody"
\* Three values in place of a document: a file parse rejects, a snapshot not yet given, and
\* a change that was refused.
Broken == [next_id |-> -1, entries |-> <<>>]
Nothing == [next_id |-> -2, entries |-> <<>>]
Failed == [next_id |-> -3, entries |-> <<>>]

Empty == [next_id |-> 0, entries |-> <<>>]

\* What a caller who was shown a document can ask for; its next_id is an id it never saw.
Operations(doc) ==
         [action : {"add"}, text : Texts \cup {BadText}]
    \cup [action : {"replace"}, id : 0 .. doc.next_id, text : Texts]
    \cup [action : {"remove"}, id : 0 .. doc.next_id]

Init ==
    /\ file = Empty
    /\ gate = [s \in Stores |-> Nobody]
    /\ flock = Nobody
    /\ pc = [c \in Clients |-> "idle"]
    /\ call = [c \in Clients |-> "read"]
    /\ known = [c \in Clients |-> Nothing]
    /\ next = [c \in Clients |-> Empty]
    /\ cancel = [c \in Clients |-> FALSE]
    /\ faults = 0

-----------------------------------------------------------------------------
(* Document::changed *)

IndexOf(doc, id) == SelectInSeq(doc.entries, LAMBDA e : e.id = id)

\* One operation on the working copy; any error abandons the whole batch.
Applied(doc, op, by) ==
    LET at == IF op.action = "add" THEN 0 ELSE IndexOf(doc, op.id) IN
    IF doc = Failed \/ (op.action # "remove" /\ op.text = BadText) THEN Failed ELSE
    CASE op.action = "add" /\ (\E i \in DOMAIN doc.entries : doc.entries[i].text = op.text) -> doc
      [] op.action = "add" /\ (\A i \in DOMAIN doc.entries : doc.entries[i].text # op.text) ->
            [next_id |-> doc.next_id + 1,
             entries |-> Append(doc.entries, [id |-> doc.next_id, text |-> op.text, origin |-> by])]
      [] op.action # "add" /\ at = 0 -> Failed
      [] op.action = "replace" /\ at # 0 /\ doc.entries[at].text = op.text -> doc
      [] op.action = "replace" /\ at # 0 /\ doc.entries[at].text # op.text ->
            [doc EXCEPT !.entries[at] = [id |-> op.id, text |-> op.text, origin |-> by]]
      [] op.action = "remove" /\ at # 0 -> [doc EXCEPT !.entries = RemoveAt(@, at)]

\* The working copy after each operation of a batch.
Working(doc, operations, by) ==
    LET copy[n \in 0 .. Len(operations)] ==
            IF n = 0 THEN doc ELSE Applied(copy[n - 1], operations[n], by)
    IN copy

\* The change names the revision of this very document, and its result fits.
Changed(doc, revision, operations, by) ==
    LET result == Working(doc, operations, by)[Len(operations)] IN
    IF revision # doc \/ Len(result.entries) > MaxEntries THEN Failed ELSE result

-----------------------------------------------------------------------------
(* A call, on a blocking worker.  One caller does one thing at a time.  A change carries the *)
(* revision the caller last saw; which operations it carries is chosen where they are read.  *)

ReadCall(c) ==
    /\ pc[c] = "idle"
    /\ pc' = [pc EXCEPT ![c] = "acquire"]
    /\ UNCHANGED <<file, gate, flock, call, known, next, cancel, faults>>

ApplyCall(c) ==
    /\ pc[c] = "idle"
    /\ c \in Writers
    /\ known[c] # Nothing
    /\ known[c].next_id <= MaxNextId
    /\ pc' = [pc EXCEPT ![c] = "acquire"]
    /\ call' = [call EXCEPT ![c] = "apply"]
    /\ UNCHANGED <<file, gate, flock, known, next, cancel, faults>>

\* Every way out drops the guards the call holds.
ReleaseLocks(c) ==
    /\ gate' = [s \in Stores |-> IF gate[s] = c THEN Nobody ELSE gate[s]]
    /\ flock' = IF flock = c THEN Nobody ELSE flock
    /\ pc' = [pc EXCEPT ![c] = "idle"]
    /\ call' = [call EXCEPT ![c] = "read"]
    /\ next' = [next EXCEPT ![c] = Empty]

\* The caller learns of no document: closed, conflict, capacity, invalid or io.
Refuse(c) == ReleaseLocks(c) /\ UNCHANGED <<file, known, cancel, faults>>

Return(c, doc) ==
    /\ ReleaseLocks(c)
    /\ known' = [known EXCEPT ![c] = doc]
    /\ UNCHANGED <<file, cancel, faults>>

Acquire(c) ==
    /\ pc[c] = "acquire"
    /\ \/ /\ ~cancel[c]
          /\ gate[StoreOf[c]] = Nobody
          /\ gate' = [gate EXCEPT ![StoreOf[c]] = c]
          /\ pc' = [pc EXCEPT ![c] = "lock"]
          /\ UNCHANGED <<file, flock, call, known, next, cancel, faults>>
       \/ cancel[c] /\ Refuse(c)
       \/ gate[StoreOf[c]] # Nobody /\ Refuse(c)    \* five seconds have passed

\* Mutant: the gate alone is held, and each FileStore has its own.
LockedByGate(c) ==
    /\ pc[c] = "lock"
    /\ pc' = [pc EXCEPT ![c] = "load"]
    /\ UNCHANGED <<file, gate, flock, call, known, next, cancel, faults>>

\* try_lock on the file: no waiting, a conflict when anyone holds it.
Locked(c) ==
    /\ pc[c] = "lock"
    /\ IF flock # Nobody \/ cancel[c]
       THEN Refuse(c)
       ELSE /\ flock' = c
            /\ pc' = [pc EXCEPT ![c] = "load"]
            /\ UNCHANGED <<file, gate, call, known, next, cancel, faults>>

Read(c) ==
    /\ pc[c] = "load"
    /\ call[c] = "read"
    /\ IF file = Broken \/ cancel[c] THEN Refuse(c) ELSE Return(c, file)

\* Load, check, compute; nothing to do when the batch changes nothing.
Prepare(c) ==
    /\ pc[c] = "load"
    /\ call[c] = "apply"
    /\ \E operations \in SeqOf(Operations(known[c]), MaxOps) \ {<<>>} :
        LET doc == IF file = Broken THEN Failed ELSE Changed(file, known[c], operations, c) IN
        CASE doc = Failed -> Refuse(c)
          [] doc = known[c] -> Return(c, doc)
          [] OTHER ->
                /\ next' = [next EXCEPT ![c] = doc]
                /\ pc' = [pc EXCEPT ![c] = "persist"]
                /\ UNCHANGED <<file, gate, flock, call, known, cancel, faults>>

\* The temporary file is written; the last look at the token is before the rename.
Persist(c) ==
    /\ pc[c] = "persist"
    /\ IF cancel[c]
       THEN Refuse(c)
       ELSE /\ file' = next[c]
            /\ pc' = [pc EXCEPT ![c] = "sync"]
            /\ UNCHANGED <<gate, flock, call, known, next, cancel, faults>>

\* A failing sync reports an error for a file that is already replaced.
Sync(c) ==
    /\ pc[c] = "sync"
    /\ \/ Return(c, next[c])
       \/ /\ faults < MaxFaults
          /\ ReleaseLocks(c)
          /\ faults' = faults + 1
          /\ UNCHANGED <<file, known, cancel>>

-----------------------------------------------------------------------------
(* What happens to a store from outside *)

Cancel(c) ==
    /\ c \in Agents /\ ~cancel[c]
    /\ cancel' = [cancel EXCEPT ![c] = TRUE]
    /\ UNCHANGED <<file, gate, flock, pc, call, known, next, faults>>

\* A person edits MEMORY.md, without the lock, and leaves something parse rejects.
EditedOutside ==
    /\ faults < MaxFaults
    /\ file # Broken
    /\ file' = Broken
    /\ faults' = faults + 1
    /\ UNCHANGED <<gate, flock, pc, call, known, next, cancel>>

\* The process ends: locks go with it, the file stays as the last rename left it.
Crash ==
    /\ faults < MaxFaults
    /\ faults' = faults + 1
    /\ gate' = [s \in Stores |-> Nobody]
    /\ flock' = Nobody
    /\ pc' = [c \in Clients |-> "idle"]
    /\ call' = [c \in Clients |-> "read"]
    /\ known' = [c \in Clients |-> Nothing]
    /\ next' = [c \in Clients |-> Empty]
    /\ cancel' = [c \in Clients |-> FALSE]
    /\ UNCHANGED file

Next ==
    \/ \E c \in Clients :
        \/ ReadCall(c) \/ ApplyCall(c)
        \/ Acquire(c) \/ Locked(c) \/ Read(c) \/ Prepare(c) \/ Persist(c) \/ Sync(c)
        \/ Cancel(c)
    \/ EditedOutside
    \/ Crash

Spec == Init /\ [][Next]_vars

-----------------------------------------------------------------------------

\* No lost update.  The store replaces MEMORY.md only while it still holds the revision the
\* change was made against, whatever ran between the load and the rename and through
\* whichever FileStore; only an edit made without the lock can be overwritten.
NoLostUpdate ==
    [][\A c \in Clients :
        pc[c] = "persist" /\ pc'[c] = "sync" => file \in {known[c], Broken}]_vars

\* An id means one fact for ever.  An entry that a caller's snapshot does not have carries an
\* id that snapshot had not handed out yet, so no replace or remove by a remembered id can
\* reach a fact its author never saw.
IdsNeverReused ==
    \A c \in Clients :
        known[c] # Nothing /\ file # Broken =>
            /\ file.next_id >= known[c].next_id
            /\ \A e \in Range(file.entries) :
                e.id < known[c].next_id => \E k \in Range(known[c].entries) : k.id = e.id

\* The store loses no update and gives no id a second meaning.
MemoryKept == NoLostUpdate /\ []IdsNeverReused
=============================================================================
