SPECIFICATION Spec
CONSTANTS
    Runs = {r1, r2, r3}
    NumFiles = 2
    PriorStates = {"absent", "intact", "stale"}
    CanCancel = TRUE
    Prior = prior
SYMMETRY RunSymmetry
CHECK_DEADLOCK FALSE
INVARIANTS
    UndisturbedRunsConverge
    LoneRunRepairs
