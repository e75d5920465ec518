SPECIFICATION FairSpec
CONSTANTS
    InlineLimit = 4
    ItemInlineLimit = 2
    MaxMapItems = 2
    MaxItems = 2
    MaxPods = 2
    MaxAttempts = 2
    Parallelism = 2
    AuthorEnds = {"exit0", "nonretryable", "fatal", "signal", "deadline"}
    MaxKills = 1
    MaxFaults = 1
INVARIANTS
    CollectedIsTruthful
    FatalRunFails
    SuccessIsKept
PROPERTIES
    FatalStopsRun
