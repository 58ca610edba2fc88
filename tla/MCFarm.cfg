SPECIFICATION FairSpec
CONSTANTS
    NumCPUs = 3
    MaxInputs = 4
INVARIANTS
    TypeOK
    AvailableCounts
    FeedsHaltedWorker
    NoHaltMissed
PROPERTIES
    FarmEnds
CHECK_DEADLOCK FALSE
