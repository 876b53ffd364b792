SPECIFICATION Spec
CONSTANTS
    MaxCommands = 3
    MaxOthers = 2
    MaxResends = 1
INVARIANTS
    TypeOK
    CreditsGoForward
    AnonymousIsExplained
CHECK_DEADLOCK FALSE
