SPECIFICATION FairSpec
CONSTANTS
    Chunks = {c1, c2}
    Tokens <- MCTokens
    Word <- MCWord
    Hash <- MCHash
    Invocations <- MCInvocations
    Workers = {w1, w2, w3}
    MaxFailures = 1
    MaxSortFailures = 1
    MaxCrashes = 1
    NoPattern = NoPattern
    Nobody = Nobody
    Empty = Empty
    Malformed = Malformed
    Executables = {"mrm", "mrr", "count", "sum"}
    Directories = {"in", "mid", "out"}
    c1 = c1
    c2 = c2
CHECK_DEADLOCK FALSE
INVARIANTS
    TypeOK
    PatternsConserved
    CountsAreRight
PROPERTIES
    PhasesComplete
    JobEnds
