---------------------------- MODULE SearchIndex ----------------------------
(***************************************************************************)
(* The derived full-text index over the sessions (sessions/src/search.rs). *)
(* The session documents are authoritative; the index is an SQLite file    *)
(* that survives a crash, and searches bring it up to date as they go,     *)
(* holding the store's gate only while they look at it.                    *)
(*                                                                         *)
(* A message is the set of terms of its visible text, empty when nothing   *)
(* of it is visible.  A stamp is the document's revision: length and time  *)
(* of the file follow it.                                                  *)
(***************************************************************************)
EXTENDS Integers, Sequences, FiniteSets

CONSTANTS
    Sessions,
    Terms,         \* what messages may contain and queries ask for
    MaxRevision,   \* bound on the commits of one session
    MaxSearches    \* bound on the searches

VARIABLES
    docs,      \* Sessions -> document, Gone once deleted
    rows,      \* history_fts: Sessions -> Seq of term sets, <<>> when no row
    catalog,   \* Sessions -> stamp of the indexed document, 0 when none
    search,    \* the search that holds the index's mutex, or Idle
    searches

vars == <<docs, rows, catalog, search, searches>>

Gone == [revision |-> 0, scope |-> FALSE, messages |-> <<>>]
Idle == [at |-> "idle"]

\* The host grants one scope; a session is in it or not.
Allowed(ss) == {s \in ss : docs[s].scope}
Existing == {s \in Sessions : docs[s] # Gone}
Stamps == [s \in Allowed(Existing) |-> docs[s].revision]
Matches(messages, term) == {i \in DOMAIN messages : term \in messages[i]}

Init ==
    /\ docs = [s \in Sessions |-> [revision |-> 1, scope |-> TRUE, messages |-> <<>>]]
    /\ rows = [s \in Sessions |-> <<>>]
    /\ catalog = [s \in Sessions |-> 0]
    /\ search = Idle
    /\ searches = 0

-----------------------------------------------------------------------------
(* Commits to the store; they never wait for a search *)

\* Append, move to another scope, or delete.
Commit(s) ==
    /\ docs[s] # Gone
    /\ docs[s].revision < MaxRevision
    /\ \/ \E message \in {{}} \cup {{t} : t \in Terms} :
            docs' = [docs EXCEPT ![s].revision = @ + 1, ![s].messages = Append(@, message)]
       \/ docs' = [docs EXCEPT ![s].revision = @ + 1, ![s].scope = ~@]
       \/ docs' = [docs EXCEPT ![s] = Gone]
    /\ UNCHANGED <<rows, catalog, search, searches>>

-----------------------------------------------------------------------------
(* HistorySearch::search *)

\* Lock the index, then the store for a moment: which sessions, which stamps.
View(term) ==
    /\ search = Idle
    /\ searches < MaxSearches
    /\ searches' = searches + 1
    /\ search' = [at |-> "index", term |-> term, stamps |-> Stamps, existing |-> Existing,
                  todo |-> Allowed(Existing), hits |-> {}]
    /\ UNCHANGED <<docs, rows, catalog>>

\* Sessions that are gone leave the index.
Prune(s) ==
    /\ search.at = "index"
    /\ catalog[s] # 0 /\ s \notin search.existing
    /\ rows' = [rows EXCEPT ![s] = <<>>]
    /\ catalog' = [catalog EXCEPT ![s] = 0]
    /\ UNCHANGED <<docs, search, searches>>

Error == search' = Idle /\ UNCHANGED <<docs, rows, catalog, searches>>

\* One session, in one transaction: the document as it is now, under the stamp of the view.
Index(s) ==
    /\ search.at = "index" /\ s \in search.todo
    /\ \A gone \in Sessions \ search.existing : catalog[gone] = 0
    /\ IF catalog[s] = search.stamps[s]
       THEN search' = [search EXCEPT !.todo = @ \ {s}] /\ UNCHANGED <<docs, rows, catalog, searches>>
       ELSE IF docs[s] = Gone THEN Error
       ELSE /\ rows' = [rows EXCEPT ![s] = docs[s].messages]
            /\ catalog' = [catalog EXCEPT ![s] = search.stamps[s]]
            /\ search' = [search EXCEPT !.todo = @ \ {s}]
            /\ UNCHANGED <<docs, searches>>

Query ==
    /\ search.at = "index" /\ search.todo = {}
    /\ search' = [search EXCEPT !.at = "hits",
                    !.hits = UNION {{<<s, i>> : i \in Matches(rows[s], search.term)} : s \in DOMAIN search.stamps},
                    !.todo = {s \in DOMAIN search.stamps : Matches(rows[s], search.term) # {}}]
    /\ UNCHANGED <<docs, rows, catalog, searches>>

\* Each hit is read again from its document: gone, moved away or shorter is an error.
Hit(s) ==
    /\ search.at = "hits" /\ s \in search.todo
    /\ IF ~docs[s].scope \/ \E hit \in search.hits : hit[1] = s /\ hit[2] \notin DOMAIN docs[s].messages
       THEN Error
       ELSE search' = [search EXCEPT !.todo = @ \ {s}] /\ UNCHANGED <<docs, rows, catalog, searches>>

\* Mutant: the page is returned without a second look at the store.
ConfirmUnchecked ==
    /\ search.at = "hits" /\ search.todo = {}
    /\ search' = [at |-> "page", term |-> search.term, hits |-> search.hits, docs |-> docs]
    /\ UNCHANGED <<docs, rows, catalog, searches>>

\* The stamps are taken again; if any changed, the caller is told to search again.
Confirm ==
    /\ search.at = "hits" /\ search.todo = {}
    /\ IF Stamps # search.stamps THEN Error
       ELSE /\ search' = [at |-> "page", term |-> search.term, hits |-> search.hits, docs |-> docs]
            /\ UNCHANGED <<docs, rows, catalog, searches>>

\* The caller takes its page; or cancellation, the deadline or a crash ends the search.  What
\* was committed to the index stays.
Leave == search # Idle /\ Error

Next ==
    \/ \E s \in Sessions : Commit(s) \/ Prune(s) \/ Index(s) \/ Hit(s)
    \/ \E term \in Terms : View(term)
    \/ Query \/ Confirm \/ Leave

Spec == Init /\ [][Next]_vars

-----------------------------------------------------------------------------

\* A page is exactly the answer for the sessions as they were when it was returned: nothing
\* missed, nothing out of scope or deleted, although commits never waited for the search.
\* (docs of the page are the documents at that moment.)
PageCurrent ==
    search.at = "page" =>
        search.hits = UNION {{<<s, i>> : i \in Matches(search.docs[s].messages, search.term)} :
                                s \in {q \in Sessions : search.docs[q].scope}}

\* A row set whose stamp is that of the document is that document's, so skipping it is safe.
IndexHonest ==
    \A s \in Sessions : (catalog[s] # 0 /\ catalog[s] = docs[s].revision) => rows[s] = docs[s].messages

\* What a search answers is true of the sessions, and what it may skip is up to date.
SearchExact == PageCurrent /\ IndexHonest
=============================================================================
