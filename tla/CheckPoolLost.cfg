SPECIFICATION FairSpec
CONSTANTS
    r1 = r1
    r2 = r2
    a = a
    b = b
    c = c
    NULL = NULL
    Job <- OnlyA
    New <- OnlyA
    Slow <- None
    Runner <- Pool
    Reserved = 1
    Moving <- OnlyA
    HintBuffer = 1
    ExpressOn = TRUE
    Failures = TRUE
    Stops = TRUE
    Prompt = FALSE
PROPERTIES LostRunsRetried ShutdownEnds
