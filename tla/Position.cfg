SPECIFICATION Spec
CONSTANTS
    Positions <- Halves
    Targets <- Spread
    MaxGoals = 1
INVARIANTS
    TypeOK
    MovedIsReal
    PendingMeansWithinOnePercent
PROPERTY JudgedMeansSettled
CHECK_DEADLOCK FALSE
