SPECIFICATION Spec
CONSTANTS
    Clients = {c1, c2, c3}
    Requests <- ObjectRequests
    DefaultType = "octets"
    ClaimFirst = TRUE
SYMMETRY ClientSymmetry
PROPERTIES
    ImplementsStore
    CreatedIsImmutable
    RefusalIsConflict
