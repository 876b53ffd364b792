SPECIFICATION Spec
CONSTANTS
    Pings = {p1}
    Updates = {u1, u2}
    Parts = 2
    None = None
    Capacity = 1
    MaxStrays = 1
INVARIANTS
    TypeOK
    ConfirmedIsApplied
    AppliedInOrder
PROPERTIES
    RequestsEnd
CHECK_DEADLOCK FALSE
