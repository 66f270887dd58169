SPECIFICATION Spec
CONSTANTS
    Calls = {c1}
    LastKey = 2
    MotorKey = 1
    Targets = {100}
    Percents = {}
INVARIANT ScanSurvivesRefusal
CHECK_DEADLOCK FALSE
