SPECIFICATION Spec
CONSTANTS
    db = db
    api = api
    NULL = NULL
    Check <- OneCheck
    HardParents <- NoParents
    Signals <- EverySignal
    Confirmation = 1
    Recovery = 2
    HoldCap = 2
    Cooldown = 2
    Window = 3
    StaleAfter = 2
    DepthCap = 2
    MaxLag = 1
    MaxTime = 7
    MaxIncidents = 2
    Operations <- AllOperations
    MaxOps = 1
INVARIANTS OneActiveIncident DownHasIncident
PROPERTIES ConfirmationObserved RecoveryObserved ResolvesWhenRecovered
CHECK_DEADLOCK FALSE
