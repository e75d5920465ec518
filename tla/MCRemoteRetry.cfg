SPECIFICATION FairSpec
CONSTANTS
    InlineLimit = 4
    ItemInlineLimit = 2
    MaxMapItems = 2
    MaxItems = 1
    MaxPods = 1
    MaxAttempts = 2
    Parallelism = 1
    AuthorEnds = {"exit0"}
    MaxKills = 0
    MaxFaults = 1
PROPERTIES
    PublicationFailureStops
