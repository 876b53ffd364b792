--------------------------- MODULE MCDeviceStatus ---------------------------
EXTENDS DeviceStatus
=============================================================================
