SPECIFICATION Spec
CONSTANTS
    Calls = {c1, c2, c3}
    Slots = {s1, s2}
    Bodies = {b1, b2, schema}
    Valid = {b1, schema}
    Schema = schema
    None = None
SYMMETRY PublicationSymmetry
INVARIANTS
    CommittedHasBody
    SlotHasOneValue
    RetryConverges
