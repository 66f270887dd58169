SPECIFICATION Spec
CONSTANTS
    Positions <- Few
    Targets <- FewTargets
    MaxGoals = 1
INVARIANT FailedReadbackIsAmbiguous
CHECK_DEADLOCK FALSE
