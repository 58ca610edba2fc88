SPECIFICATION FairSpec
CONSTANTS
    Workers = {w1}
    Dispatcher = dt
    Owner = owner
    Jobs = {j1}
    NoJob = NoJob
PROPERTIES
    WaitReturns
CHECK_DEADLOCK FALSE
