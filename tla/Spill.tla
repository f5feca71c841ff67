------------------------------- MODULE Spill -------------------------------
(***************************************************************************)
(* The archive of large tool results: packages/spill (LocalSpillStore,     *)
(* SpillArchive, the result transform and the paged reads), with the       *)
(* server's assembly of it (apps/server/src/spill_setup.rs).               *)
(*                                                                         *)
(* One store serves the process.  Every workspace environment has its own  *)
(* SpillArchive over it (ArchiveOf), which knows the active runs of that   *)
(* environment only.  A body is the sequence of the byte widths of its     *)
(* characters.                                                             *)
(***************************************************************************)
EXTENDS Integers, Sequences, FiniteSets

CONSTANTS
    Runs, Archives, ArchiveOf,   \* ArchiveOf \in [Runs -> Archives]
    Bodies,          \* the large results tools produce
    MaxEntryBytes, MaxRunBytes, MaxTotalBytes,   \* SpillConfig
    PageLimit,       \* max_page_bytes of a reader
    MaxPuts,         \* bound on archived results
    MaxFaults        \* bound on crashes and failing I/O together

VARIABLES
    files,      \* committed entries sp_*.txt: [id, run, body, old]
    temps,      \* .sp_*.tmp files a crash left behind: [run, old]
    lock,       \* LocalSpillStore::lock: the run holding it, or Nobody
    mutex,      \* SpillArchive::active's mutex, one per archive
    active,     \* the runs an archive protects
    stage, put,    \* where each run's put stands; its body and, once stored, its id
    ended,      \* runs whose tools have stopped
    cancelled,     \* cancelled runs
    published,  \* locators put into a result: [id, run, body]
    expired,    \* ids that cleanup removed
    reader,     \* someone following next_offset: [id, offset, text, eof]
    puts, faults

vars == <<files, temps, lock, mutex, active, stage, put, ended, cancelled, published, expired,
          reader, puts, faults>>

Nobody == "nobody"
NoPut == [body |-> <<>>, id |-> 0]
NoReader == [id |-> 0, offset |-> 0, text |-> <<>>, eof |-> FALSE]

\* The bytes of the first characters of a body, for each number of them.
Prefix(text) ==
    LET bytes[n \in 0 .. Len(text)] == IF n = 0 THEN 0 ELSE bytes[n - 1] + text[n]
    IN bytes
Bytes(text) == Prefix(text)[Len(text)]

\* What entries occupy, byte by byte.
Usage(set) == Cardinality(UNION {{f.id} \X (1 .. Bytes(f.body)) : f \in set})

\* Ids come from the clock and a counter: one per committed entry.
NextId == Cardinality({f.id : f \in files} \cup expired) + 1

Init ==
    /\ files = {} /\ temps = {} /\ published = {} /\ expired = {}
    /\ lock = Nobody
    /\ mutex = [a \in Archives |-> Nobody]
    /\ active = [a \in Archives |-> {}]
    /\ stage = [r \in Runs |-> "idle"]
    /\ put = [r \in Runs |-> NoPut]
    /\ ended = {} /\ cancelled = {}
    /\ reader = NoReader
    /\ puts = 0 /\ faults = 0

-----------------------------------------------------------------------------
(* SpillArchive::put_stream around LocalSpillStore::put_stream *)

\* A result at or above the trigger, of a run that may read archives, is put; every other
\* result passes through the transform untouched.
Transform(r, text) ==
    /\ stage[r] = "idle" /\ r \notin ended \cup cancelled
    /\ puts < MaxPuts
    /\ stage' = [stage EXCEPT ![r] = "admit"]
    /\ put' = [put EXCEPT ![r].body = text]
    /\ puts' = puts + 1
    /\ UNCHANGED <<files, temps, lock, mutex, active, ended, cancelled, published, expired, reader, faults>>

\* Every way out of a put drops the guards (and the temporary file).
Leave(r) ==
    /\ stage' = [stage EXCEPT ![r] = "idle"]
    /\ put' = [put EXCEPT ![r] = NoPut]
    /\ mutex' = [a \in Archives |-> IF mutex[a] = r THEN Nobody ELSE mutex[a]]
    /\ lock' = IF lock = r THEN Nobody ELSE lock

Admit(r) ==
    LET a == ArchiveOf[r] IN
    /\ stage[r] = "admit"
    /\ mutex[a] = Nobody /\ r \notin cancelled
    /\ mutex' = [mutex EXCEPT ![a] = r]
    /\ active' = [active EXCEPT ![a] = @ \cup {r}]
    /\ stage' = [stage EXCEPT ![r] = "cleanup"]
    /\ UNCHANGED <<files, temps, lock, put, ended, cancelled, published, expired, reader, puts, faults>>

\* Entries past the retention time of runs the caller does not protect.
Removable(protected) == {f \in files : f.old /\ f.run \notin protected}

\* Under the store's lock; stale temporary files go last.  A removal that fails ends the
\* cleanup after the removals that succeeded.
Cleanup(protected, removed) ==
    /\ lock = Nobody
    /\ files' = files \ removed
    /\ expired' = expired \cup {f.id : f \in removed}
    /\ IF removed = Removable(protected)
       THEN /\ temps' = {t \in temps : ~t.old \/ t.run \in protected}
            /\ UNCHANGED faults
       ELSE /\ faults < MaxFaults /\ faults' = faults + 1
            /\ UNCHANGED temps

CleanupFirst(r) ==
    LET protected == active[ArchiveOf[r]] IN
    /\ stage[r] = "cleanup"
    /\ \E removed \in SUBSET Removable(protected) :
        /\ Cleanup(protected, removed)
        /\ IF removed = Removable(protected)
           THEN stage' = [stage EXCEPT ![r] = "put"] /\ UNCHANGED <<mutex, lock, put>>
           ELSE Leave(r)
    /\ UNCHANGED <<active, ended, cancelled, published, reader, puts>>

\* Entry, run and total quota, counted over the committed entries.
Fits(r) ==
    LET bytes == Bytes(put[r].body) IN
    /\ bytes <= MaxEntryBytes
    /\ Usage({f \in files : f.run = r}) + bytes <= MaxRunBytes
    /\ Usage(files) + bytes <= MaxTotalBytes

\* The store's lock is held from the count to the commit.
Reserve(r) ==
    /\ stage[r] = "put" /\ lock = Nobody /\ r \notin cancelled
    /\ IF Fits(r)
       THEN /\ lock' = r
            /\ stage' = [stage EXCEPT ![r] = "copy"]
            /\ UNCHANGED <<mutex, put>>
       ELSE Leave(r)
    /\ UNCHANGED <<files, temps, active, ended, cancelled, published, expired, reader, puts, faults>>

\* The copied file gets its final name, never over another entry.  The directory sync may
\* fail after that: the entry stays, without a locator.
Commit(r) ==
    /\ stage[r] = "copy" /\ r \notin cancelled
    /\ files' = files \cup {[id |-> NextId, run |-> r, body |-> put[r].body, old |-> FALSE]}
    /\ \/ /\ stage' = [stage EXCEPT ![r] = "stored"]
          /\ put' = [put EXCEPT ![r].id = NextId]
          /\ lock' = Nobody
          /\ mutex' = [mutex EXCEPT ![ArchiveOf[r]] = Nobody]
          /\ UNCHANGED faults
       \/ /\ faults < MaxFaults /\ faults' = faults + 1
          /\ Leave(r)
    /\ UNCHANGED <<temps, active, ended, cancelled, published, expired, reader, puts>>

\* Mutant: the locator is handed out whatever the copy returned.
CopyFailsUnnoticed(r) ==
    /\ stage[r] = "copy" /\ faults < MaxFaults
    /\ faults' = faults + 1
    /\ stage' = [stage EXCEPT ![r] = "stored"]
    /\ put' = [put EXCEPT ![r].id = NextId]
    /\ lock' = Nobody
    /\ mutex' = [mutex EXCEPT ![ArchiveOf[r]] = Nobody]
    /\ UNCHANGED <<files, temps, active, ended, cancelled, published, expired, reader, puts>>

\* A source that is short, long or not UTF-8, or a failing write: nothing is stored.
CopyFails(r) ==
    /\ stage[r] = "copy" /\ faults < MaxFaults
    /\ faults' = faults + 1
    /\ Leave(r)
    /\ UNCHANGED <<files, temps, active, ended, cancelled, published, expired, reader, puts>>

\* Cancellation and the deadline win at every wait, and are looked at again after the
\* commit: the entry then stays without a locator.
Abandon(r) ==
    /\ stage[r] # "idle" /\ r \in cancelled
    /\ Leave(r)
    /\ UNCHANGED <<files, temps, active, ended, cancelled, published, expired, reader, puts, faults>>

\* The transform replaces the text by a preview and the locator, if the reference and its
\* marker fit the run's result limit.
Publish(r, fits) ==
    /\ stage[r] = "stored" /\ r \notin cancelled
    /\ published' = IF fits
          THEN published \cup {[id |-> put[r].id, run |-> r, body |-> put[r].body]}
          ELSE published
    /\ stage' = [stage EXCEPT ![r] = "idle"]
    /\ put' = [put EXCEPT ![r] = NoPut]
    /\ UNCHANGED <<files, temps, lock, mutex, active, ended, cancelled, expired, reader, puts, faults>>

\* After the run's tools have stopped: its protection ends and its archive is swept.
Finish(r) ==
    LET a == ArchiveOf[r] IN
    /\ stage[r] = "idle" /\ r \notin ended
    /\ mutex[a] = Nobody
    /\ ended' = ended \cup {r}
    /\ active' = [active EXCEPT ![a] = @ \ {r}]
    /\ \E removed \in SUBSET Removable(active'[a]) : Cleanup(active'[a], removed)
    /\ UNCHANGED <<lock, mutex, stage, put, cancelled, published, reader, puts>>

-----------------------------------------------------------------------------
(* Reading: pages of whole characters, from next_offset to next_offset *)

\* The characters of a body from a byte offset on, and how many of them fit a limit.
From(text, offset) ==
    SubSeq(text, 1 + Cardinality({n \in 1 .. Len(text) : Prefix(text)[n] <= offset}), Len(text))
Page(text, offset, limit) ==
    LET rest == From(text, offset) IN
    SubSeq(rest, 1, Cardinality({n \in 1 .. Len(rest) : Prefix(rest)[n] <= limit}))

Open(locator) ==
    /\ reader = NoReader
    /\ reader' = [NoReader EXCEPT !.id = locator.id]
    /\ UNCHANGED <<files, temps, lock, mutex, active, stage, put, ended, cancelled, published, expired, puts, faults>>

\* One page under the store's lock, at most limit bytes: the reader's own limit, lowered until
\* page and metadata fit the result.  An entry that is gone, or a limit below one character,
\* ends the reading.
ReadPage(limit) ==
    /\ reader # NoReader /\ ~reader.eof /\ lock = Nobody
    /\ IF \E f \in files : f.id = reader.id /\ Page(f.body, reader.offset, limit) # <<>>
       THEN \E f \in {g \in files : g.id = reader.id} :
              LET page == Page(f.body, reader.offset, limit)
                  next_offset == reader.offset + Bytes(page)
              IN reader' = [reader EXCEPT !.offset = next_offset, !.text = @ \o page,
                                          !.eof = next_offset >= Bytes(f.body)]
       ELSE reader' = NoReader
    /\ UNCHANGED <<files, temps, lock, mutex, active, stage, put, ended, cancelled, published, expired, puts, faults>>

-----------------------------------------------------------------------------
(* Time, cancellation, crashes *)

\* The retention time passes for what is there now.
Age ==
    /\ \E f \in files : ~f.old
    /\ files' = {[f EXCEPT !.old = TRUE] : f \in files}
    /\ temps' = {[t EXCEPT !.old = TRUE] : t \in temps}
    /\ UNCHANGED <<lock, mutex, active, stage, put, ended, cancelled, published, expired, reader, puts, faults>>

Cancel(r) ==
    /\ r \notin cancelled \cup ended
    /\ cancelled' = cancelled \cup {r}
    /\ UNCHANGED <<files, temps, lock, mutex, active, stage, put, ended, published, expired, reader, puts, faults>>

\* The process ends and starts again: runs are gone, unfinished files stay, and the startup
\* sweep protects no run.
Restart ==
    /\ faults < MaxFaults /\ faults' = faults + 1
    /\ files' = files \ Removable({})
    /\ expired' = expired \cup {f.id : f \in Removable({})}
    /\ temps' = {t \in temps : ~t.old} \cup {[run |-> r, old |-> FALSE] : r \in {q \in Runs : stage[q] = "copy"}}
    /\ lock' = Nobody
    /\ mutex' = [a \in Archives |-> Nobody]
    /\ active' = [a \in Archives |-> {}]
    /\ stage' = [r \in Runs |-> "idle"]
    /\ put' = [r \in Runs |-> NoPut]
    /\ ended' = ended \cup cancelled \cup UNION {active[a] : a \in Archives}
                     \cup {r \in Runs : stage[r] # "idle"}
    /\ reader' = NoReader
    /\ UNCHANGED <<cancelled, published, puts>>

\* spill_read's page limit: what was asked for, lowered until the page fits the run's result
\* budget beside its metadata.  A limit of zero, or above the maximum, reads nothing.
PageLimits == 1 .. PageLimit

Next ==
    \/ \E r \in Runs :
        \/ \E text \in Bodies : Transform(r, text)
        \/ Admit(r) \/ CleanupFirst(r) \/ Reserve(r) \/ Commit(r) \/ CopyFails(r) \/ Abandon(r)
        \/ \E fits \in BOOLEAN : Publish(r, fits)
        \/ Finish(r) \/ Cancel(r)
    \/ \E locator \in published : Open(locator)
    \/ \E limit \in PageLimits : ReadPage(limit)
    \/ Age
    \/ Restart

Spec == Init /\ [][Next]_vars

-----------------------------------------------------------------------------

\* The quotas bound what is on disk.  Whatever puts interleave, through whichever archives,
\* the committed entries of a run and of all runs stay within max_run_bytes and
\* max_total_bytes.
QuotaHeld ==
    /\ Usage(files) <= MaxTotalBytes
    /\ \A r \in Runs : Usage({f \in files : f.run = r}) <= MaxRunBytes

\* A locator in a result always named a committed entry: the entry is there with the body that
\* was stored, or the retention sweep has removed it.
LocatorNamesEntry ==
    \A p \in published :
        p.id \in expired \/ \E f \in files : f.id = p.id /\ f.run = p.run /\ f.body = p.body

\* A reader that followed next_offset to eof has the whole entry, whatever page sizes it got.
ReadsWhole ==
    reader.eof => \E p \in published : p.id = reader.id /\ p.body = reader.text

\* An archived result stays within its quotas, is where its locator says, and reads back whole.
ArchiveSound == QuotaHeld /\ LocatorNamesEntry /\ ReadsWhole
=============================================================================
