SPECIFICATION FairSpec
CONSTANTS
    NodeOrder <- BranchOrder
    Node <- BranchNode
    StartNode = "start"
    StartValue <- StartOfRun
    EndSource = "last"
    OutcomeKinds = {"succeeded", "cancelled", "infra", "fatal", "nonretryable", "schema", "step"}
    HasExitHook = TRUE
    HasDeadline = TRUE
    MaxFaults = 2
INVARIANTS
    DurableReadable
    HistoryJournaled
    RetryDiscipline
    HookBlamesLastDispatch
    CauseIsKept
    ReportedIsDurable
    JournalMatchesPrediction
    SkipsFollowDecisions
PROPERTIES
    CompletedWorkPreserved
    NoDispatchAfterFailure
    TerminalNeverReopens
    RunTerminates
