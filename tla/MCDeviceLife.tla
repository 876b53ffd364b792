---------------------------- MODULE MCDeviceLife ----------------------------
EXTENDS DeviceLife
=============================================================================
