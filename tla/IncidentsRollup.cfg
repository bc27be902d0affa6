SPECIFICATION Spec
CONSTANTS
    db = db
    api = api
    NULL = NULL
    Check <- ParentAndChild
    HardParents <- ApiNeedsDb
    Signals <- DownAndUp
    Confirmation = 1
    Recovery = 1
    HoldCap = 2
    Cooldown = 2
    Window = 3
    StaleAfter = 2
    DepthCap = 2
    MaxLag = 1
    MaxTime = 3
    MaxIncidents = 2
    Operations <- None
    MaxOps = 0
INVARIANTS TypeOK MutingEnds
PROPERTIES OpensWhenConfirmed
CHECK_DEADLOCK FALSE
