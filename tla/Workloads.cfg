SPECIFICATION FairSpec
CONSTANTS
    Agent = {"daemon", "task"}
    Channel = {"same", "hook"}
    Name = {"daemon", "task", "hook"}
    NameOf <- Names
    Integration = {"repo"}
    Provider = {"llm"}
    Specs <- SpecsOf
    InitSpec <- FirstSpec
    Casts <- FourCasts
    Removable = {"same"}
    Deletable = {"Deployment"}
    None = None
    MaxLag = 1
INVARIANT
    TypeOK
    ReportedOwnsChildren
PROPERTY
    AgentSettles
    ChannelSettles
CHECK_DEADLOCK FALSE
