SPECIFICATION Spec
CONSTANTS
    Chunks = {c1}
    Tokens <- OneToken
    Word <- MCWord
    Hash <- MCHash
    Invocations <- OneInvocation
    Workers = {w1, w2}
    MaxFailures = 1
    MaxSortFailures = 0
    MaxCrashes = 0
    NoPattern = NoPattern
    Nobody = Nobody
    Empty = Empty
    Malformed = Malformed
    Executables = {"mrm", "mrr", "count", "sum"}
    Directories = {"in", "mid", "out"}
    c1 = c1
    c2 = c2
CHECK_DEADLOCK FALSE
INVARIANTS ConfirmedMeansEmitted
