SPECIFICATION Spec
CONSTANTS
    Null = Null
    Limit = 2
    MaxDelay = 1
    Capacity = 1
    MaxMoves = 1
    MaxHalts = 1
INVARIANTS TypeOK LockdownHolds CardIsCurrent
PROPERTIES LockdownLifts CardCatchesUp
