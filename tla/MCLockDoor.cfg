SPECIFICATION Spec
CONSTANTS
    mqtt = mqtt
    serial = serial
    http = http
    touch = touch
    Commanded = {mqtt, serial}
    Client = mqtt
    Voiced = {http}
    Buttons = {touch}
    Daemon = Daemon
    NoThread = NoThread
    QueueLength = 3
    MaxCalls = 3
INVARIANTS
    TypeOK
    LockedIsSettled
    IntactUnlock
PROPERTIES
    CallsReturn
    AutoLocks
    DoorSpec
CHECK_DEADLOCK FALSE
