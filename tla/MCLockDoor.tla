----------------------------- MODULE MCLockDoor -----------------------------
(* Instances of LockDoor for TLC: one MQTT task, one serial task, the      *)
(* voice task and the touch task, or fewer.                                *)
EXTENDS LockDoor

CONSTANTS mqtt, serial, http, touch

=============================================================================
