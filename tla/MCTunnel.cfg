SPECIFICATION FairSpec
CONSTANTS
    CommandLines <- MCCommandLines
    LongMax = 7
    UpBytes <- MCUp
    DownBytes <- MCDown
    BufSize = 2
    Room = 1
CHECK_DEADLOCK FALSE
INVARIANTS
    NothingLost
    HeldBack
PROPERTIES
    TunnelEnds
