SPECIFICATION FairSpec
CONSTANTS
    Outlets <- MCOutlets
    MaxBacklog = 1
    Plans <- MCPlans
    MaxItems = 2
    MaxAttempts = 2
    Ends = {"succeeded", "other", "fatal"}
    MaxFailures = 1
INVARIANTS
    AttemptsBracketed
    DeliveredInOrder
PROPERTIES
    CommandReturns
