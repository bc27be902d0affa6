SPECIFICATION Spec
CONSTANTS
    NULL = NULL
    j1 = j1  j2 = j2  w1 = w1  w2 = w2  r1 = r1  r2 = r2  r3 = r3
    Job = {j1}
    Watched = j1
    Worker = {w1, w2}
    Runner = {r1, r3}
    WorkerOf <- SingleRunners
    Agents = {w2}
    Express = {}
    Periods = {2}
    Phase <- OneJobPhase
    LeaseExtra = 1
    AheadFloor = 1
    MaxAhead = 1
    EffOffsets = {0}
    Editable = {}
    Sliced = {}
    Metered = {}
    Punctual = FALSE
    MaxTries = 2
    CallTimes = {0, 1, 2, 3, 4}
    MaxTime = 6
INVARIANT RunRequestHonored
CHECK_DEADLOCK FALSE
