\* Host: three plugins with every dependency relation, three runs, room for two.  Environments: two
\* sessions and a side conversation in two directories, room for one environment.  Side threads: two
\* windows, room for one.  MCP: two calls, two catalogs, three connections.  Streams: replies of two
\* items in up to five frames.
SPECIFICATION AllSpec
CONSTANTS
    NPlugins = 3
    Manifests <- MCManifests
    Runs = {r1, r2, r3}
    MaxRuns = 2
    Sessions = {"s", "t"}
    Sides = {"x"}
    Roots = {"a", "b"}
    PoolLimit = 1
    MaxBuilt = 3
    Parents = {"p"}
    Windows = {"w", "v"}
    Requests = {"q", "r"}
    MaxThreads = 1
    MaxTurns = 2
    MaxOpens = 2
    Calls = {"c1", "c2"}
    McpCatalogs = {1, 2}
    MaxDials = 3
    Servers = {"s"}
    MaxSaves = 3
    Caps = {"read", "skills", "mcp"}
    Fixed = {"read"}
    Compiled = {"read", "skills"}
    Pages = {"p1", "p2"}
    MaxChoices = 2
    MaxBoots = 2
    ProviderIds = {"p", "q"}
    Endpoints = {"e", "f"}
    ModelIds = {"m"}
    ModelRuns = {"r1", "r2"}
    MaxDiscoveries = 1
    MaxRevision = 2
    Protocols = {"chat", "responses", "messages"}
    Whole = 2
    MaxItems = 2
    MaxFrames = 5
INVARIANTS OrderlyStop RunHeld NoOrphanRun CallsSound SecretConfined SettingsHonest
    ReplyHonest
PROPERTIES DrainNoticed LockedByDeployment
