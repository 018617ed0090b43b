SPECIFICATION Spec
CONSTANTS
    Run <- Runs3
    NoRun = "none"
    CreationTimestamp <- Distinct
    Concurrency <- QueueOneSlot
    AgentStates = {"known"}
    Deletable = {}
    GitRuns = {}
    MaxLag = 0
    MaxFaults = 0
    MaxEdits = 0
PROPERTY
    FIFOWait
CHECK_DEADLOCK FALSE
