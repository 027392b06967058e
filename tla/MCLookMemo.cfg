SPECIFICATION Spec
CONSTANTS
    Jobs <- MCJobs
    Positions = {0, 3, 5}
    Sizes = {3, 5}
    MemoLimits = {0, 1, 2}
    Gens = 3
    MaxPos = 9
    Idle = Idle
INVARIANTS
    NeverStale
PROPERTIES
    MemoIsTransparent
CHECK_DEADLOCK FALSE
