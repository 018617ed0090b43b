SPECIFICATION Spec
CONSTANTS
    None = None
    Unset = Unset
    Malformed = Malformed
    p1 = p1
    p2 = p2
    i1 = i1
    i2 = i2
    s1 = s1
    s2 = s2
    s3 = s3
    b1 = b1
    h1 = h1
    h2 = h2
    x = x
    y = y
    k1 = k1
    k2 = k2
    set = set
    a1 = a1
    c1 = c1
    run = run
    Secret = {s1, s2, s3}
    Uid = {0, 1000, 65532}
    Opaque = {x}
    Capability = {"ALL", "NET_RAW"}
    Letter = {x, y}
    Host = {h1, h2}
    Branch = {b1}
    ProviderName = {p1, p2}
    Setting = {set, s1, s2}
    AgentName = {a1}
    ToolName = {"gitlab", "search"}
    IntegrationName = {i1, i2}
    EnvName <- MCEnvName
    AccountName = {x}
    MemoryProject = {x}
    ChannelName = {c1}
    Prompt = {x}
    Label = {}
    Server = {"srv", "other"}
    Tool = {"read", "write"}
    Arg = {x, y}
    Character = {"a", "b", "*"}
    MaxLength = 2
    Providers <- MCProviders
    Integrations <- MCIntegrations
    Agents <- MCAgents
    Runs <- MCRuns
    Channels <- MCChannels
    Requests <- MCRequests
INVARIANTS
    ChatNeedsDaemon
CHECK_DEADLOCK FALSE
