---------------------------- MODULE McpSettings ----------------------------
(***************************************************************************)
(* The saved MCP servers and their secrets (apps/server/mcp_setup.rs) and  *)
(* the configuration the running host dials (the one it was started with). *)
(* A secret (an environment variable, a header) is written as the target   *)
(* it was typed for.                                                       *)
(***************************************************************************)
EXTENDS Integers

CONSTANTS
    Servers,      \* ids
    Targets,      \* <<transport, place>>: an executable with its arguments, or a URL
    MaxSaves      \* bound: settings revisions

VARIABLES
    saved, savedRevision, \* the settings under the lock, as encrypted on disk
    dialled,      \* McpHost.active
    page          \* the revision a settings page was rendered from

mcpSettingsVars == <<saved, savedRevision, dialled, page>>

NoSecret == <<"none", "none">>
NoServer == [target |-> NoSecret, secret |-> NoSecret]

Init ==
    /\ saved = [s \in Servers |-> NoServer] /\ savedRevision = 0
    /\ dialled = saved
    /\ page = 0

\* Mutant: secrets are kept whatever the target.
MergeAlways(old, new, clear) ==
    [accepted |-> TRUE,
     secret |-> IF ~clear /\ new.secret = NoSecret /\ old.target[1] = new.target[1]
                THEN old.secret ELSE new.secret]

\* merge_secrets: blank fields keep what was saved, for the same target of the same transport.
MergeSecrets(old, new, clear) ==
    LET keep == ~clear /\ old.secret # NoSecret /\ new.secret = NoSecret
                /\ old.target[1] = new.target[1]
    IN  [accepted |-> ~keep \/ old.target = new.target,
         secret |-> IF keep THEN old.secret ELSE new.secret]

\* The lock, the revision check and the encrypted save are one step; a failed save changes nothing.
Save(next) ==
    /\ page = savedRevision
    /\ savedRevision < MaxSaves
    /\ saved' = next
    /\ savedRevision' = savedRevision + 1
    /\ UNCHANGED <<dialled, page>>

Upsert(s, new, clear) ==
    LET merged == MergeSecrets(saved[s], new, clear)
    IN  /\ merged.accepted
        /\ Save([saved EXCEPT ![s] = [new EXCEPT !.secret = merged.secret]])

Delete(s) ==
    /\ saved[s] # NoServer
    /\ Save([saved EXCEPT ![s] = NoServer])

View ==
    /\ page' = savedRevision
    /\ UNCHANGED <<saved, savedRevision, dialled>>

\* from_environment at the next start
Restart ==
    /\ dialled' = saved
    /\ page' = 0
    /\ UNCHANGED <<saved, savedRevision>>

Next ==
    \/ \E s \in Servers, t \in Targets, clear \in BOOLEAN : \E typed \in {NoSecret, t} :
        Upsert(s, [target |-> t, secret |-> typed], clear)
    \/ \E s \in Servers : Delete(s)
    \/ View \/ Restart

-----------------------------------------------------------------------------

\* The host dials no executable or URL with secrets typed for another, whatever saves, deletions and
\* restarts moved the server in between (mcp_setup.rs merge_secrets, upsert).
SecretConfined == \A s \in Servers : dialled[s].secret \in {NoSecret, dialled[s].target}

=============================================================================
