SPECIFICATION FairSpec
CONSTANTS
    fast = fast
    slow = slow
    Names = {fast, slow}
    Interval <- TaskIntervals
    MaxGen = 3
    MaxCount = 2
    MaxFailures = 1
    MaxOverdue = 2
INVARIANTS
    OneRecordPerName
    RetiredRunsAtMostOnce
    RunCountIsOwn
    RunsAreSpaced
PROPERTIES
    TasksKeepRunning
