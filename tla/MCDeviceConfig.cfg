CONSTANTS
    mqtt = mqtt
    serial = serial
    wifi_ssid = wifi_ssid
    wifi_pass = wifi_pass
    v0 = v0
    long = long
    Tasks = {mqtt, serial}
    Keys = {wifi_ssid, wifi_pass}
    Unmirrored = {}
    CaseKept = {wifi_ssid, wifi_pass}
    Values = {v0, long}
    Long = {long}
    Narrow = {wifi_ssid}
    Beyond <- SsidOverrun
    Default = v0
    None = None
    Failing = {"open", "write"}
    Typed = {"exact", "othercase"}
SPECIFICATION Spec
SYMMETRY AnyTask
INVARIANTS
    TypeOK
PROPERTY RestartRemembers
