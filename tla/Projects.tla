------------------------------- MODULE Projects -------------------------------
(***************************************************************************)
(* The registry of project directories: packages/projects.                 *)
(*                                                                         *)
(* Add and remove hold the registry's mutex, so each is one step, but the  *)
(* save inside it can replace the file and then fail to sync it: the file  *)
(* is then ahead of the memory the registry goes on working with, until    *)
(* the next save or the next start.                                        *)
(***************************************************************************)
EXTENDS Integers, FiniteSets

CONSTANTS
    Keys,          \* request ids chosen by callers
    Paths,         \* directories, up to same_path
    MaxProjects,   \* the limit on registered projects
    MaxChanges,   \* bound on changes
    MaxFaults      \* bound on failing saves and restarts together

VARIABLES
    data,    \* Registry::data: [revision, projects]
    disk,    \* the saved listing
    lease,   \* a host holds the lock file
    seen,    \* projects that a listing has shown: [id, path]
    faults

vars == <<data, disk, lease, seen, faults>>

Empty == [revision |-> 0, projects |-> {}]

Init ==
    /\ data = Empty /\ disk = Empty
    /\ lease = TRUE
    /\ seen = {}
    /\ faults = 0

Shown(listing) == {[id |-> p.id, path |-> p.path] : p \in listing.projects}

\* A save succeeds, fails before the rename, or fails after it.
Save(next) ==
    /\ lease
    /\ next.revision <= MaxChanges
    /\ \/ disk' = next /\ data' = next /\ seen' = seen \cup Shown(next) /\ UNCHANGED faults
       \/ /\ faults < MaxFaults /\ faults' = faults + 1
          /\ disk' \in {disk, next}
          /\ UNCHANGED <<data, seen>>
    /\ UNCHANGED lease

\* Mutant: the id is derived from the request alone.
ProjectIdOfKey(key, revision) == <<key>>

\* The id is a digest of the request and of the revision that registers it.
ProjectId(key, revision) == <<key, revision>>

\* A repeated request is answered from the listing; a new one needs the current revision, an
\* unregistered directory and room.
Add(key, revision, path) ==
    /\ \A p \in data.projects : p.request_id # key /\ p.path # path
    /\ data.revision = revision
    /\ Cardinality(data.projects) < MaxProjects
    /\ Save([revision |-> revision + 1,
             projects |-> data.projects \cup
                 {[id |-> ProjectId(key, revision + 1), path |-> path, request_id |-> key]}])

Remove(id, revision) ==
    /\ data.revision = revision
    /\ \E p \in data.projects : p.id = id
    /\ Save([revision |-> revision + 1, projects |-> {p \in data.projects : p.id # id}])

\* The host stops and releases the lease; a host that starts takes it and loads the file.
Close ==
    /\ lease /\ faults < MaxFaults
    /\ lease' = FALSE
    /\ faults' = faults + 1
    /\ UNCHANGED <<data, disk, seen>>

Open ==
    /\ ~lease
    /\ lease' = TRUE
    /\ data' = disk
    /\ seen' = seen \cup Shown(disk)
    /\ UNCHANGED <<disk, faults>>

Next ==
    \/ \E revision \in 0 .. MaxChanges :
        \/ \E key \in Keys, path \in Paths : Add(key, revision, path)
        \/ \E p \in data.projects : Remove(p.id, revision)
    \/ Close
    \/ Open

Spec == Init /\ [][Next]_vars

-----------------------------------------------------------------------------

\* A project id that was ever listed names one directory for ever, so the sessions filed under
\* it are never moved to another directory: not by removing and adding again under the same
\* request id, not by a save that failed after replacing the file, not by a restart.
IdentityStable ==
    \A p, q \in seen : p.id = q.id => p.path = q.path

=============================================================================
