--------------------------- MODULE MCDeviceConfig ---------------------------
(* Instances of DeviceConfig for TLC: the MQTT task and the serial task,   *)
(* two fields that lie one after the other, of which the first can be      *)
(* overrun.                                                                *)
EXTENDS DeviceConfig, TLC

CONSTANTS mqtt, serial, wifi_ssid, wifi_pass, v0, long

AnyTask == Permutations({mqtt, serial})

SsidOverrun == [k \in {wifi_ssid} |-> {wifi_pass}]

=============================================================================
