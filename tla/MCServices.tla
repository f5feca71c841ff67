----------------------------- MODULE MCServices ------------------------------
(***************************************************************************)
(* What the server keeps alive, checked in one run: the host with its      *)
(* plugins, the environments and side conversations built on it, the MCP   *)
(* connection and its settings, the capabilities, the model settings and   *)
(* the reply stream of a provider.  A behaviour picks one part in its      *)
(* first state and stays with it; only the host has liveness to show.      *)
(***************************************************************************)
EXTENDS Host

CONSTANTS
    Sessions, Sides, Roots, PoolLimit, MaxBuilt,
    Parents, Windows, Requests, MaxThreads, MaxTurns, MaxOpens,
    Calls, McpCatalogs, MaxDials,
    Servers, MaxSaves,
    Caps, Fixed, Compiled, Pages, MaxChoices, MaxBoots,
    ProviderIds, Endpoints, ModelIds, ModelRuns, MaxDiscoveries, MaxRevision,
    Protocols, Whole, MaxItems, MaxFrames

\* What is in the build are capabilities the settings know (capabilities.rs, `compiled`).
ASSUME CompiledAssumption == Compiled \subseteq Caps
\* The adapters there are (Protocol of providers/src/config.rs).
ASSUME StreamAssumption ==
    Protocols \subseteq {"chat", "responses", "messages"} /\ Whole \in Nat /\ MaxItems \in Nat

VARIABLES
    part,
    cwd, envs, pool, bindings, starts, admission, held, ran, server,
    stored, dropping, threads, desk, tasks, waiters, opens,
    remote, frozen, assembled, catalog, changed, live, dial, dials, calls, stop, told,
    servers, savedRevision, dialled, page,
    policies, up, active, saved, state, saving, pages, confirmed, boots,
    document, routes, sequence, route, running, discoveries,
    protocol, phase, frames, decoder, pending, failure, fence, collected, outcome, produced, taken

environmentVars == <<cwd, envs, pool, bindings, starts, admission, held, ran, server>>
sideVars == <<stored, dropping, threads, desk, tasks, waiters, opens>>
mcpVars == <<remote, frozen, assembled, catalog, changed, live, dial, dials, calls, stop, told>>
mcpSettingsVars == <<servers, savedRevision, dialled, page>>
capabilityVars == <<policies, up, active, saved, state, saving, pages, confirmed, boots>>
modelVars == <<document, routes, sequence, route, running, discoveries>>
streamVars == <<protocol, phase, frames, decoder, pending, failure, fence, collected, outcome,
                produced, taken>>
serviceVars == <<environmentVars, sideVars, mcpVars, mcpSettingsVars, capabilityVars, modelVars,
                 streamVars>>
allVars == <<part, vars, serviceVars>>

\* Every dependency relation between the plugins.
MCManifests == [Plugins -> SUBSET Plugins]
\* Two commands and two URLs a server may be moved between.
Targets == {"stdio", "http"} \X {"a", "b"}
\* The base tool is locked on, the rest is the user's to switch on.
Defaults == [c \in Caps |-> [enabled |-> c \in Fixed, configurable |-> c \notin Fixed]]

Environments == INSTANCE Environments
SideThreads == INSTANCE SideThreads
Mcp == INSTANCE Mcp WITH Catalogs <- McpCatalogs
McpSettings == INSTANCE McpSettings WITH saved <- servers
Capabilities == INSTANCE Capabilities WITH told <- confirmed
ModelSettings == INSTANCE ModelSettings WITH Ids <- ProviderIds, Runs <- ModelRuns, bindings <- routes
ProviderStream == INSTANCE ProviderStream

\* A part that is not the behaviour's starts in one fixed state.
AllInit ==
    /\ part \in {"host", "environments", "side", "mcp", "mcp settings", "capabilities", "models", "stream"}
    /\ Init /\ (part # "host" => requires = [p \in Plugins |-> {}])
    /\ Environments!Init /\ (part # "environments" => cwd = [i \in DOMAIN cwd |-> CHOOSE d \in Roots : TRUE])
    /\ SideThreads!Init
    /\ Mcp!Init /\ (part # "mcp" => remote = 1)
    /\ McpSettings!Init /\ Capabilities!Init /\ ModelSettings!Init
    /\ ProviderStream!Init /\ (part # "stream" => protocol = "chat")

\* A step of the host; its fairness is stated of these.
OfHost(A) == part = "host" /\ A /\ UNCHANGED <<part, serviceVars>>

OfServices ==
    \/ /\ part = "environments" /\ Environments!Next
       /\ UNCHANGED <<sideVars, mcpVars, mcpSettingsVars, capabilityVars, modelVars, streamVars>>
    \/ /\ part = "side" /\ SideThreads!Next
       /\ UNCHANGED <<environmentVars, mcpVars, mcpSettingsVars, capabilityVars, modelVars, streamVars>>
    \/ /\ part = "mcp" /\ Mcp!Next
       /\ UNCHANGED <<environmentVars, sideVars, mcpSettingsVars, capabilityVars, modelVars, streamVars>>
    \/ /\ part = "mcp settings" /\ McpSettings!Next
       /\ UNCHANGED <<environmentVars, sideVars, mcpVars, capabilityVars, modelVars, streamVars>>
    \/ /\ part = "capabilities" /\ Capabilities!Next
       /\ UNCHANGED <<environmentVars, sideVars, mcpVars, mcpSettingsVars, modelVars, streamVars>>
    \/ /\ part = "models" /\ ModelSettings!Next
       /\ UNCHANGED <<environmentVars, sideVars, mcpVars, mcpSettingsVars, capabilityVars, streamVars>>
    \/ /\ part = "stream" /\ ProviderStream!Next
       /\ UNCHANGED <<environmentVars, sideVars, mcpVars, mcpSettingsVars, capabilityVars, modelVars>>

\* The other parts use up their bounds; the host must not get stuck.
Rest == part # "host" /\ UNCHANGED allVars

AllNext == OfHost(Next) \/ (OfServices /\ UNCHANGED <<part, vars>>) \/ Rest

\* The fairness of Host!FairSpec, of the host part.
AllSpec ==
    /\ AllInit /\ [][AllNext]_allVars
    /\ WF_allVars(OfHost(Build)) /\ WF_allVars(OfHost(Close))
    /\ \A r \in Runs : WF_allVars(OfHost(RunTask(r)))

-----------------------------------------------------------------------------

\* Environments: a run's environment is its directory's and outlives it.
RunHeld == Environments!RunHeld

\* Side conversations: a run that is neither cancelled nor in an open thread does not exist.
NoOrphanRun == SideThreads!NoOrphanRun

\* MCP: a call runs against the tools the host assembled, and one given up is cancelled remotely.
CallsSound == Mcp!CallsSound

\* MCP settings: a secret goes to no target but the one it was typed for.
SecretConfined == McpSettings!SecretConfined

\* Capabilities: what runs is what the deployment allows and the user was last told.
LockedByDeployment == Capabilities!LockedByDeployment

\* Model settings: neither keys nor running tasks follow an edit they were not meant for.
SettingsHonest == ModelSettings!SettingsHonest

\* Providers: a reply is the whole reply, and a failed attempt says whether any of it was shown.
ReplyHonest == ProviderStream!ReplyHonest

==============================================================================
