SPECIFICATION FairSpec
CONSTANTS
    NodeOrder <- BranchOrder
    Node <- BranchNode
    StartNode = "start"
    StartValue <- StartOfRun
    EndSource = "last"
    OutcomeKinds = {"succeeded", "cancelled", "other"}
    HasExitHook = TRUE
    HasDeadline = FALSE
    MaxFaults = 0
INVARIANT
    EveryJournalReadable
