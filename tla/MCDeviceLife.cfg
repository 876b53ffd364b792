SPECIFICATION LifeSpec
CONSTANTS
    MaxRequests = 2
    MaxCommands = 2
    MaxFailures = 1
    MaxLosses = 1
    MaxBeats = 1
CHECK_DEADLOCK FALSE
INVARIANTS LifeTypeOK AnsweredIsStored StoppedIsLocked
PROPERTIES LockdownSleeps ComesBack
