SPECIFICATION FairSpec
CONSTANTS
    Run <- Runs2
    NoRun = "none"
    CreationTimestamp <- Tied
    Concurrency <- OneSlot
    AgentStates = {"pending", "known", "deleted"}
    Deletable = {"r1"}
    GitRuns = {"r2"}
    MaxLag = 0
    MaxFaults = 1
    MaxEdits = 0
INVARIANT
    TaskTypeOK
    SlotsBounded
    JobsWithinLimit
    SingleExecution
    GitJobHasConfig
PROPERTY
    ImplementsSlots
    EveryRunEnds
CHECK_DEADLOCK FALSE
