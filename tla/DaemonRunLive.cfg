SPECIFICATION FairSpec
CONSTANTS
    Run <- Runs2
    NoRun = "none"
    CreationTimestamp <- Tied
    Concurrency <- OneSlot
    AgentStates = {"known"}
    Deletable = {"r1"}
    Hurried = {"r1", "r2"}
    MaxLag = 0
    MaxFaults = 1
    MaxEdits = 0
INVARIANT
    DaemonTypeOK
    OwnWhenUndisturbed
    PromptedOnce
    PromptedFirst
PROPERTY
    EveryRunEnds
CHECK_DEADLOCK FALSE
