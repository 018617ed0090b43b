SPECIFICATION FairSpec
CONSTANTS
    Req <- Requests
    Id <- Ids
    MayUse <- RequestIds
    NoId = 0
    None = "none"
    Conn <- Connections
    Duplex = TRUE
    PipeCap = 1
    SseCap = 1
    MaxUnasked = 2
    MaxFaults = 1
INVARIANT
    TypeOK
    OwnWhenUndisturbed
    ReaderNeverStuck
PROPERTY
    AllReturn
CHECK_DEADLOCK FALSE
