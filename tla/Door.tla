-------------------------------- MODULE Door --------------------------------
(***************************************************************************)
(* What lock.h promises of the door, whoever calls it and however the      *)
(* calls interleave.  The logical state of the lock and the actuator are   *)
(* two things: the actuator is driven open only while the lock is          *)
(* unlocked, and a lock that has been locked while its actuator was open   *)
(* still owes the actuator a closing, which comes.                         *)
(***************************************************************************)

VARIABLES
    door,     \* "LOCKED" or "UNLOCKED": lock_ctx.state
    bolt,     \* level of LOCK_ACTUATOR_GPIO: 1 is open
    closing   \* TRUE while some call of lock_door still owes the closing

vars == <<door, bolt, closing>>

-----------------------------------------------------------------------------

(* lock_init: locked, actuator low. *)
Init ==
    /\ door = "LOCKED"
    /\ bolt = 0
    /\ closing = FALSE

Unlock ==
    /\ door = "LOCKED"
    /\ door' = "UNLOCKED"
    /\ UNCHANGED <<bolt, closing>>

Open ==
    /\ door = "UNLOCKED"
    /\ bolt' = 1
    /\ UNCHANGED <<door, closing>>

Lock ==
    /\ door = "UNLOCKED"
    /\ door' = "LOCKED"
    /\ closing' = TRUE
    /\ UNCHANGED bolt

(* One of the calls that owe a closing pays it; others may still owe one.  *)
Close ==
    /\ closing
    /\ bolt' = 0
    /\ closing' \in BOOLEAN
    /\ UNCHANGED door

Next == Unlock \/ Open \/ Lock \/ Close

Spec == Init /\ [][Next]_vars /\ WF_vars(Close)

=============================================================================
