SPECIFICATION Spec
CONSTANTS
    Run <- Runs2
    NoRun = "none"
    CreationTimestamp <- Distinct
    Concurrency <- QueueOneOrTwo
    AgentStates = {"known"}
    Deletable = {}
    GitRuns = {}
    MaxLag = 0
    MaxFaults = 0
    MaxEdits = 1
INVARIANT
    ExecutedOnce
CHECK_DEADLOCK FALSE
