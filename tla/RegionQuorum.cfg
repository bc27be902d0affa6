SPECIFICATION Spec
CONSTANTS
    r1 = r1
    r2 = r2
    r3 = r3
    NULL = NULL
    Region <- ThreeRegions
    FirstRegions <- ThreeRegions
    Placements <- TheTwo
    Watched <- TheTwo
    Settings <- OnlyDefault
    FirstSetting <- Default
    Statuses <- UpDown
    MaxIncidents = 2
    MaxBusy = 2
    MaxFaults = 1
INVARIANTS TypeOK
PROPERTIES OutageOpens RecoveryCloses
