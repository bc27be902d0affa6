SPECIFICATION FairSpec
CONSTANTS
    r1 = r1
    r2 = r2
    reaper = reaper
    sweep = sweep
    task = task
    NULL = NULL
    Runner <- One
    Main <- Single
    Reaper = reaper
    Sweep = sweep
    Task = task
    Seeds <- ReaperFirst
    MaxRetryCount = 1
    MaxRows = 6
    MaxSubmits = 0
    MaxFaults = 1
    Faults <- AllFaults
    Failing <- OnlySweep
    SlowRuns = FALSE
PROPERTIES SweepNeverStops StuckJobsEnd
CHECK_DEADLOCK FALSE
