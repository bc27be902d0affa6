SPECIFICATION FairSpec
CONSTANTS
    r1 = r1
    r2 = r2
    a = a
    b = b
    c = c
    NULL = NULL
    Job <- Three
    New <- None
    Slow <- OnlyA
    Runner <- Pool
    Reserved = 1
    Moving <- OnlyA
    HintBuffer = 1
    ExpressOn = FALSE
    Failures = FALSE
    Stops = FALSE
    Prompt = TRUE
PROPERTIES EveryReadyJobRuns
INVARIANTS TypeOK FastSlotsKept SlowCounted HintCovers
