SPECIFICATION MCSpec
CONSTANTS
    MaxNodes = 8
    MaxSteps = 1
    MaxMerges = 1
    MaxMaps = 1
    MaxDecisions = 2
    MaxPodFailures = 1
    MaxGenerated = 11
    Rank <- MCRank
    Budget = 2
    StepTypes = {"object"}
    MaxBranches = 2
    TagPool <- MCTagPool
INVARIANTS
    GeneratedGraphsAccepted
    PredictionAgrees
    AcceptedGraphsResolve
    RemoteMatchesLocal
    SchedulesAgree
