SPECIFICATION Spec
CONSTANTS
    Runs = {r1, r2}
    NumFiles = 2
    PriorStates = {"absent"}
    CanCancel = TRUE
    Prior = prior
SYMMETRY RunSymmetry
CHECK_DEADLOCK FALSE
INVARIANT
    ConcurrentRunsConverge
