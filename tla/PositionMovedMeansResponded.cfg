SPECIFICATION Spec
CONSTANTS
    Positions <- Few
    Targets <- FewTargets
    MaxGoals = 1
INVARIANT MovedMeansResponded
CHECK_DEADLOCK FALSE
