SPECIFICATION PlanSpec
CONSTANTS
    MaxTime = 5
    MaxPeriods = 2
    MaxAllocations = 3
INVARIANTS
    EverySecondToItsOwner
    SectionsAreCuts
PROPERTY EveryRoundHandsOut
CHECK_DEADLOCK FALSE
