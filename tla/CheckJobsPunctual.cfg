SPECIFICATION Spec
CONSTANTS
    NULL = NULL
    j1 = j1  j2 = j2  w1 = w1  w2 = w2  r1 = r1  r2 = r2  r3 = r3
    Job = {j1}
    Watched = j1
    Worker = {w1, w2}
    Runner = {r1, r2, r3}
    WorkerOf <- MixedFleet
    Agents = {w2}
    Express = {r2}
    Periods = {2}
    Phase <- OneJobPhase
    LeaseExtra = 1
    AheadFloor = 1
    MaxAhead = 1
    EffOffsets = {0}
    Editable = {}
    Sliced = {j1}
    Metered = {j1}
    Punctual = TRUE
    MaxTries = 2
    CallTimes = {0, 1, 2, 3}
    MaxTime = 5
INVARIANTS TypeOK MutualExclusion RequestKept ParkedHasRelease CaptureKept
PROPERTIES ResultFromHolder ImplementsRunQueue
CHECK_DEADLOCK FALSE
