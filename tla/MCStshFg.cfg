SPECIFICATION Spec
CONSTANTS
    MaxJobs = 1
    MaxSize = 2
    Sessions <- FgSessions
CHECK_DEADLOCK FALSE
PROPERTIES
    FgKeepsTerminal
