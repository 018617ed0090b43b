SPECIFICATION Spec
CONSTANTS
    Run <- Runs2
    NoRun = "none"
    CreationTimestamp <- Tied
    Concurrency <- QueueOrReplace
    AgentStates = {"known"}
    Deletable = {}
    GitRuns = {}
    MaxLag = 1
    MaxFaults = 0
    MaxEdits = 1
INVARIANT
    SucceededIsReal
    RunningIsCounted
    ReexecutedAfterEnd
    EndIsExplained
PROPERTY
    EndSeenStays
CHECK_DEADLOCK FALSE
