SPECIFICATION FairSpec
CONSTANTS
    Workers = {w1, w2}
    Dispatcher = dt
    Owner = owner
    Jobs = {j1, j2, j3}
    NoJob = NoJob
INVARIANTS
    TypeOK
    JobNumCounts
    NoEarlyExit
    DispatchedHaveWorkers
PROPERTIES
    WaitMeansDone
    ImplementsExecutor
    EveryThunkRuns
    DestructorEnds
    SleeperIsWoken
CHECK_DEADLOCK FALSE
