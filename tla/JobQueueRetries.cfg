SPECIFICATION Spec
CONSTANTS
    r1 = r1
    r2 = r2
    reaper = reaper
    sweep = sweep
    task = task
    NULL = NULL
    Runner <- Two
    Main <- Pooled
    Reaper = reaper
    Sweep = sweep
    Task = task
    Seeds <- OnlyReaper
    MaxRetryCount = 1
    MaxRows = 4
    MaxSubmits = 1
    MaxFaults = 0
    Faults <- None
    Failing <- OnlyTask
    SlowRuns = TRUE
INVARIANTS TypeOK SweepsNotStacked
PROPERTIES RetriedOnce OutcomeStays
CHECK_DEADLOCK FALSE
