SPECIFICATION FairSpec
CONSTANTS
    Requests = {r1, r2}
    MaxHash = 0
    NumLocks = 1
    CommandLines <- MCCommandLines
    LongMax = 7
    TTLs = {0, 2}
    MaxClock = 3
    MaxRuns = 2
CHECK_DEADLOCK FALSE
INVARIANTS
    OneWholeFile
    DirectoryStaysPut
PROPERTIES
    HitsAreFresh
    RequestsEnd
