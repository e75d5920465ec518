SPECIFICATION FairSpec
CONSTANTS
    NumSteps = 3
    MaxConcurrency = 0
    ProcessLimit = 2
    RunnerEnds <- MCRunnerEnds
INVARIANTS
    TypeOK
    ReturnContract
    StartedIffOutcome
    JobsExclusive
PROPERTIES
    RootCauseKept
    CancelReturns
    EndingStepsReturn
