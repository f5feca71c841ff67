---------------------------- MODULE ModelSettings ----------------------------
(***************************************************************************)
(* Model providers, their credentials and the routes of runs:              *)
(* packages/models with the server's management routes.                    *)
(*                                                                         *)
(* A credential is represented by the endpoint (API base and protocol) it  *)
(* was typed for.  An update holds the document's mutex from the revision  *)
(* check through validation and the atomic save, so it is one step; an     *)
(* update that is refused, or whose save fails, changes nothing.           *)
(***************************************************************************)
EXTENDS Integers, FiniteSets

CONSTANTS
    Ids, Endpoints, ModelIds, Runs,
    MaxDiscoveries,   \* the semaphore of the discovery route
    MaxRevision       \* bound on updates

VARIABLES
    document,      \* [revision, providers, default], memory and encrypted file alike
    bindings,      \* Router::bindings: route key -> what was bound
    sequence,      \* number of the next route
    route,         \* the route key in each run's options, NoRoute before it starts
    running,       \* runs whose session has not ended
    discoveries    \* discovery requests in flight: [key, endpoint]

vars == <<document, bindings, sequence, route, running, discoveries>>

NoKey == "no key"
NoRoute == <<>>
None == [provider |-> "none", model |-> "none"]
Absent == [endpoint |-> NoKey, key |-> NoKey, models |-> [m \in ModelIds |-> "absent"]]

Init ==
    /\ document = [revision |-> 0, providers |-> [i \in Ids |-> Absent], default |-> None]
    /\ bindings = {} /\ sequence = 1
    /\ route = [r \in Runs |-> NoRoute] /\ running = {}
    /\ discoveries = {}

-----------------------------------------------------------------------------
(* Updates of the document *)

Enabled(providers) ==
    {s \in [provider : Ids, model : ModelIds] : providers[s.provider].models[s.model] = "enabled"}

\* A provider has models, and the default is one of the enabled ones.
Valid(doc) ==
    /\ \A i \in Ids : doc.providers[i] # Absent => \E m \in ModelIds : doc.providers[i].models[m] # "absent"
    /\ doc.default \in {None} \cup Enabled(doc.providers)

\* The first enabled model in the document's order, which the model leaves open.
Fallback(providers) == IF Enabled(providers) = {} THEN {None} ELSE Enabled(providers)

Update(revision, next) ==
    /\ document.revision = revision
    /\ revision < MaxRevision
    /\ Valid(next)
    /\ document' = [next EXCEPT !.revision = revision + 1]
    /\ UNCHANGED <<bindings, sequence, route, running, discoveries>>

\* A blank field keeps the stored credential; clearing is explicit.
MergeKey(typed, clear, endpoint, previous) ==
    IF clear THEN NoKey ELSE IF typed THEN endpoint ELSE previous.key

\* Mutant: a blank field keeps the credential, whatever endpoint is saved with it.
NeverRetype(typed, clear, endpoint, previous) == FALSE

\* A stored credential does not follow its provider to another endpoint.
MustRetype(typed, clear, endpoint, previous) ==
    /\ previous.key # NoKey /\ previous.endpoint # endpoint
    /\ ~typed /\ ~clear

Upsert(revision, id, endpoint, typed, clear, models) ==
    LET previous == document.providers[id]
        provider == [endpoint |-> endpoint, models |-> models,
                     key |-> MergeKey(typed, clear, endpoint, previous)]
        providers == [document.providers EXCEPT ![id] = provider]
        own == {s \in Enabled(providers) : s.provider = id}
    IN
    /\ ~MustRetype(typed, clear, endpoint, previous)
    /\ ~(typed /\ clear)
    /\ \E default \in IF document.default # None \/ own = {} THEN {document.default} ELSE own :
        Update(revision, [document EXCEPT !.providers = providers, !.default = default])

\* The deployment's provider, once, into settings that were never written.
Seed(id, endpoint, typed, models) ==
    /\ document.revision = 0
    /\ Upsert(0, id, endpoint, typed, FALSE, models)

Delete(revision, id) ==
    LET providers == [document.providers EXCEPT ![id] = Absent] IN
    /\ document.providers[id] # Absent
    /\ \E default \in IF document.default.provider = id THEN Fallback(providers) ELSE {document.default} :
        Update(revision, [document EXCEPT !.providers = providers, !.default = default])

SetDefault(revision, selection) ==
    /\ document.providers[selection.provider].models[selection.model] # "absent"
    /\ Update(revision,
           [document EXCEPT !.providers[selection.provider].models[selection.model] = "enabled",
                            !.default = selection])

\* One model of a provider or all of them; the default stays visible.
SetVisibility(revision, id, chosen, enabled) ==
    /\ document.providers[id] # Absent
    /\ \A m \in chosen : chosen = ModelIds \/ document.providers[id].models[m] # "absent"
    /\ Update(revision,
           [document EXCEPT !.providers[id].models = [m \in ModelIds |->
               IF @[m] = "absent" \/ m \notin chosen THEN @[m]
               ELSE IF enabled \/ document.default = [provider |-> id, model |-> m]
               THEN "enabled" ELSE "hidden"]])

\* The process starts again: the file is the document, routes and runs are gone.
Reopen ==
    /\ bindings' = {} /\ sequence' = 1
    /\ route' = [r \in Runs |-> NoRoute] /\ running' = {}
    /\ discoveries' = {}
    /\ UNCHANGED document

-----------------------------------------------------------------------------
(* Discovery of a provider's models *)

\* The stored key of a named provider is used only at its own endpoint; a provider without a
\* name has none.
Discover(id, endpoint, typed, clear) ==
    LET previous == IF id \in Ids THEN document.providers[id] ELSE Absent IN
    /\ Cardinality(discoveries) < MaxDiscoveries
    /\ id \in Ids => /\ previous # Absent
                     /\ previous.endpoint = endpoint \/ typed \/ clear
    /\ ~(typed /\ clear)
    /\ discoveries' = discoveries \cup
          {[key |-> MergeKey(typed, clear, endpoint, previous), endpoint |-> endpoint]}
    /\ UNCHANGED <<document, bindings, sequence, route, running>>

Discovered(d) ==
    /\ discoveries' = discoveries \ {d}
    /\ UNCHANGED <<document, bindings, sequence, route, running>>

-----------------------------------------------------------------------------
(* Routes of runs *)

RouteKey(selection, number) == <<selection.provider, document.revision, number>>

\* A run takes the default, or its host's selection, as it is now, and keeps that adapter.
Start(r, requested) ==
    LET selection == IF requested = None THEN document.default ELSE requested
        provider == document.providers[selection.provider]
        key == RouteKey(selection, sequence)
    IN
    /\ route[r] = NoRoute
    /\ selection \in Enabled(document.providers)
    /\ bindings' = {b \in bindings : b.id # key} \cup
          {[id |-> key, selection |-> selection, endpoint |-> provider.endpoint, key |-> provider.key]}
    /\ sequence' = sequence + 1
    /\ route' = [route EXCEPT ![r] = key]
    /\ running' = running \cup {r}
    /\ UNCHANGED <<document, discoveries>>

\* The session's wait returns and the task that owns the binding drops it.
End(r) ==
    /\ r \in running
    /\ running' = running \ {r}
    /\ bindings' = {b \in bindings : b.id # route[r]}
    /\ UNCHANGED <<document, sequence, route, discoveries>>

\* The runtime refuses the request: the binding is dropped again.
StartRefused ==
    /\ document.default # None
    /\ sequence <= Cardinality(Runs)
    /\ sequence' = sequence + 1
    /\ UNCHANGED <<document, bindings, route, running, discoveries>>

Revisions == 0 .. MaxRevision
Catalogs == [ModelIds -> {"absent", "hidden", "enabled"}]
Next ==
    \/ \E id \in Ids, endpoint \in Endpoints, typed, clear \in BOOLEAN, models \in Catalogs :
        \/ \E revision \in Revisions : Upsert(revision, id, endpoint, typed, clear, models)
        \/ Seed(id, endpoint, typed, models)
    \/ \E revision \in Revisions, id \in Ids :
        \/ Delete(revision, id)
        \/ \E m \in ModelIds : SetDefault(revision, [provider |-> id, model |-> m])
        \/ \E chosen \in {{m} : m \in ModelIds} \cup {ModelIds}, enabled \in BOOLEAN :
            SetVisibility(revision, id, chosen, enabled)
    \/ Reopen
    \/ \E id \in Ids \cup {"unnamed"}, endpoint \in Endpoints, typed, clear \in BOOLEAN :
        Discover(id, endpoint, typed, clear)
    \/ \E d \in discoveries : Discovered(d)
    \/ \E r \in Runs :
        \/ \E requested \in {None} \cup [provider : Ids, model : ModelIds] : Start(r, requested)
        \/ End(r)
    \/ StartRefused

Spec == Init /\ [][Next]_vars

-----------------------------------------------------------------------------

\* A credential goes to no endpoint but the one it was typed for: not through an edited
\* provider, not through the adapter of a run that outlives the edit, not through discovery.
KeyConfined ==
    /\ \A i \in Ids : document.providers[i].key \in {NoKey, document.providers[i].endpoint}
    /\ \A b \in bindings \cup discoveries : b.key \in {NoKey, b.endpoint}

\* A run in progress always finds its route: neither an edit nor the deletion of the provider,
\* nor the end of another run, takes away what it was bound to.
RoutePinned ==
    \A r \in running : \E b \in bindings : b.id = route[r]

\* Neither keys nor running tasks follow an edit they were not meant for.
SettingsHonest == KeyConfined /\ RoutePinned
=============================================================================
