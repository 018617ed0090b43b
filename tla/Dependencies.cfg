SPECIFICATION FairSpec
CONSTANTS
    Provider <- Providers
    Integration <- Integrations
    Agent <- Agents
    Secret <- Secrets
    NoSecret = "none"
    NoDep = "none"
    MaxLag = 1
    MaxEdits = 3
    MaxFaults = 1
INVARIANT
    TypeOK
    HeldWhileInUse
    ReportedIsProtected
PROPERTY
    StatusSettles
    UnusedIsRemoved
CHECK_DEADLOCK FALSE
