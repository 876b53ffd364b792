INIT Init
NEXT Next
CONSTANTS
    mqtt = mqtt
    serial = serial
    http = http
    touch = touch
    Commanded = {mqtt, serial}
    Client = mqtt
    Voiced = {}
    Buttons = {}
    Daemon = Daemon
    NoThread = NoThread
    QueueLength = 10
    MaxCalls = 3
INVARIANT OpenIsTimed
CHECK_DEADLOCK FALSE
