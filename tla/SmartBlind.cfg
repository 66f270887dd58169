SPECIFICATION Spec
CONSTANTS
    Calls = {c1, c2}
    LastKey = 2
    MotorKey = 1
    Targets = {100, 201}
    Percents = {120}
INVARIANTS
    TypeOK
    PositionKeptInStep
    ScanReturnsItsKey
    LinksAreClosed
PROPERTY EveryCallEnds
CHECK_DEADLOCK FALSE
