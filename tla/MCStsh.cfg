SPECIFICATION FairSpec
CONSTANTS
    MaxJobs = 2
    MaxSize = 2
    Sessions <- MCSessions
CHECK_DEADLOCK FALSE
INVARIANTS
    ListIsReal
    JobStaysListed
    AtMostOneForeground
PROPERTIES
    RunningJobKeepsTerminal
    PromptReturns
