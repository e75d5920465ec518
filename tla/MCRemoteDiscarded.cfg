SPECIFICATION Spec
CONSTANTS
    InlineLimit = 4
    ItemInlineLimit = 2
    MaxMapItems = 2
    MaxItems = 1
    MaxPods = 2
    MaxAttempts = 1
    Parallelism = 1
    AuthorEnds = {"exit0", "fatal"}
    MaxKills = 0
    MaxFaults = 0
INVARIANT PublishedIsKept
