SPECIFICATION Spec
CONSTANTS
    Images <- MCImages
    BadSectors <- MCBad
    Commands <- MCCommands
    InodeSectors = 3
    InodesPerSector = 2
    UnitsPerSector = 2
    NumAddrs = 3
    AddrsPerSector = 2
    MaxEntries = 5
    MaxFrames = 3
    LongNames <- MCLongNames
    RunOn = "more than fourteen chars"
    Failed = Failed
    Garbage = Garbage
CHECK_DEADLOCK FALSE
INVARIANTS
    InodesListed
    PathsListed
    FailsOnlyOn
