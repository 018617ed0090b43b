SPECIFICATION Spec
CONSTANTS
    Run <- Runs2
    NoRun = "none"
    CreationTimestamp <- Tied
    Concurrency <- QueueTwoSlots
    AgentStates = {"known"}
    Deletable = {}
    Hurried = {}
    MaxLag = 0
    MaxFaults = 0
    MaxEdits = 0
INVARIANT
    OutputIsOwn
CHECK_DEADLOCK FALSE
