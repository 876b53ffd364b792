------------------------------ MODULE LockDoor ------------------------------
(***************************************************************************)
(* The door lock of the device: lock.c, with the tasks that call it and    *)
(* the FreeRTOS timer daemon that runs its auto-lock timer.                *)
(*                                                                         *)
(* unlock_door holds the mutex from its first to its last step.  lock_door *)
(* gives the mutex back as soon as it has written the state: it drives the *)
(* actuator, stops the timer and publishes outside the critical section.   *)
(* Those three steps are called the TAIL of lock_door below.  A step of    *)
(* this module is what a task does between two points at which another     *)
(* task, or the daemon, can see or disturb what it did.                    *)
(*                                                                         *)
(* A publication takes the API lock of esp-mqtt, which the MQTT task holds *)
(* while it runs its event handler: unlock_door waits for that lock with   *)
(* the mutex in its hands, and the handler may be waiting for the mutex.   *)
(*                                                                         *)
(* Simplifications: xTimerCreate succeeds; a publication that gets the API *)
(* lock is put in the client's outbox, or refused, in one step; the reason *)
(* of a call is left out, since nothing in lock.c depends on it.           *)
(***************************************************************************)
EXTENDS Naturals, Sequences

CONSTANTS
    Commanded,    \* tasks that lock or unlock on command: MQTT events, serial
    Client,       \* the one of them that runs the MQTT event handler
    Voiced,       \* tasks that toggle the door: http_stream_task
    Buttons,      \* tasks that unlock on touch and lock on release
    Daemon,       \* the timer daemon, which runs lock_timeout_callback
    NoThread,     \* the holder of the mutex when nobody holds it
    QueueLength,  \* length of the daemon's command queue (10 in ESP-IDF)
    MaxCalls      \* bound on the calls the tasks make

Tasks   == Commanded \cup Voiced \cup Buttons
Threads == Tasks \cup {Daemon}

ASSUME ThreadsAssumption ==
    /\ Commanded \cap Voiced = {}
    /\ Commanded \cap Buttons = {}
    /\ Voiced \cap Buttons = {}
    /\ Daemon \notin Tasks
    /\ NoThread \notin Threads
    /\ Client \in Commanded

ASSUME BoundsAssumption ==
    /\ QueueLength \in Nat
    /\ MaxCalls \in Nat

VARIABLES
    state,      \* lock_ctx.state
    actuator,   \* level of LOCK_ACTUATOR_GPIO: 1 is open
    mutex,      \* holder of lock_ctx.mutex
    timer,      \* lock_ctx.timer: "none" before xTimerCreate
    commands,   \* commands posted to the timer daemon, oldest first
    reported,   \* state named by the last lock event, or "refused" by the client
    pc,         \* where each thread is
    calls,      \* calls made so far
    intact      \* history: see Intact below

vars == <<state, actuator, mutex, timer, commands, reported, pc, calls, intact>>

Labels == {"idle", "held", "toggle", "unlock", "open", "announce", "arm",
           "start", "give", "lock", "still", "release", "close", "disarm",
           "report"}

TypeOK ==
    /\ state \in {"LOCKED", "UNLOCKED"}
    /\ actuator \in {0, 1}
    /\ mutex \in Threads \cup {NoThread}
    /\ timer \in {"none", "dormant", "running"}
    /\ commands \in Seq({"start", "stop"}) /\ Len(commands) <= QueueLength
    /\ reported \in {"nothing", "LOCKED", "UNLOCKED", "refused"}
    /\ pc \in [Threads -> Labels]
    /\ calls \in Nat
    /\ intact \in BOOLEAN

-----------------------------------------------------------------------------
(* lock_init, called before any task exists. *)
Init ==
    /\ state = "LOCKED"
    /\ actuator = 0
    /\ mutex = NoThread
    /\ timer = "none"
    /\ commands = <<>>
    /\ reported = "nothing"
    /\ pc = [t \in Threads |-> "idle"]
    /\ calls = 0
    /\ intact = TRUE

-----------------------------------------------------------------------------
(* Threads in the part of lock_door that follows the write of the state.   *)
TailLabels == {"release", "close", "disarm", "report"}
InTail(t) == pc[t] \in TailLabels

Goto(t, label) == pc' = [pc EXCEPT ![t] = label]

(* A call that waits for the mutex of a lock nobody holds takes it. *)
Take(t) == mutex = NoThread /\ mutex' = t

(* xTimerStart and xTimerStop with a wait of 0 ticks: the command is lost  *)
(* when the queue is full, and lock.c does not look at the result.         *)
Room == Len(commands) < QueueLength

Post(command) ==
    commands' = IF Room THEN Append(commands, command) ELSE commands

(* The MQTT task has the API lock of esp-mqtt from the message it receives *)
(* to the return of its event handler, and may take it again; the others   *)
(* have to wait.  The client does not exist yet, or has no memory: the     *)
(* publication is refused, which mqtt_publish_lock_event only logs.        *)
HasApiLock(t) == t = Client \/ pc[Client] = "idle"

Publish(t, event) == HasApiLock(t) /\ reported' \in {event, "refused"}

(* After unlock_door the touch task waits for the finger to leave. *)
AfterUnlock(t) == IF t \in Buttons THEN "held" ELSE "idle"

-----------------------------------------------------------------------------
(* The callers. *)

(* process_cbor_command and run_command: UNLOCK or LOCK. *)
Command(t) ==
    /\ t \in Commanded
    /\ pc[t] = "idle"
    /\ calls < MaxCalls
    /\ calls' = calls + 1
    /\ \E label \in {"unlock", "lock"} : Goto(t, label)
    /\ UNCHANGED <<state, actuator, mutex, timer, commands, reported, intact>>

(* http_stream_task: the backend recognised the speaker. *)
Recognised(t) ==
    /\ t \in Voiced
    /\ pc[t] = "idle"
    /\ calls < MaxCalls
    /\ calls' = calls + 1
    /\ Goto(t, "toggle")
    /\ UNCHANGED <<state, actuator, mutex, timer, commands, reported, intact>>

(* toggle_door reads the state without the mutex and then calls. *)
ToggleReads(t) ==
    /\ pc[t] = "toggle"
    /\ Goto(t, IF state = "LOCKED" THEN "unlock" ELSE "lock")
    /\ UNCHANGED <<state, actuator, mutex, timer, commands, reported, calls, intact>>

(* touch_monitor_task: the Play pad is touched, later released. *)
Touch(t) ==
    /\ t \in Buttons
    /\ pc[t] = "idle"
    /\ calls < MaxCalls
    /\ calls' = calls + 1
    /\ Goto(t, "unlock")
    /\ UNCHANGED <<state, actuator, mutex, timer, commands, reported, intact>>

Untouch(t) ==
    /\ pc[t] = "held"
    /\ Goto(t, "lock")
    /\ UNCHANGED <<state, actuator, mutex, timer, commands, reported, calls, intact>>

-----------------------------------------------------------------------------
(***************************************************************************)
(* Intact: the last unlock_door that ran found no lock_door in its tail,   *)
(* and its xTimerStart was not lost to a full queue.  The variable is      *)
(* history: no guard reads it.  It separates the executions in which       *)
(* lock.c keeps the actuator, the timer and the reports together from      *)
(* those in which the tail of a lock_door undoes part of an unlock_door.   *)
(***************************************************************************)

(* unlock_door on a locked door. *)
UnlockTakes(t) ==
    /\ pc[t] = "unlock"
    /\ state # "UNLOCKED"
    /\ Take(t)
    /\ state' = "UNLOCKED"
    /\ intact' = (\A s \in Threads : ~InTail(s))
    /\ Goto(t, "open")
    /\ UNCHANGED <<actuator, timer, commands, reported, calls>>

(* unlock_door on an unlocked door only restarts the timer. *)
UnlockAgain(t) ==
    /\ pc[t] = "unlock"
    /\ state = "UNLOCKED"
    /\ Take(t)
    /\ intact' = (intact /\ \A s \in Threads : ~InTail(s))
    /\ Goto(t, "arm")
    /\ UNCHANGED <<state, actuator, timer, commands, reported, calls>>

(* Faulty variant: the mutex is given back before the publication, the way *)
(* lock_door does it.                                                      *)
UnlockOpensAndGives(t) ==
    /\ pc[t] = "open"
    /\ actuator' = 1
    /\ mutex' = NoThread
    /\ Goto(t, "announce")
    /\ UNCHANGED <<state, timer, commands, reported, calls, intact>>

UnlockOpens(t) ==
    /\ pc[t] = "open"
    /\ actuator' = 1
    /\ Goto(t, "announce")
    /\ UNCHANGED <<state, mutex, timer, commands, reported, calls, intact>>

UnlockAnnounces(t) ==
    /\ pc[t] = "announce"
    /\ Publish(t, "UNLOCKED")
    /\ Goto(t, "arm")
    /\ UNCHANGED <<state, actuator, mutex, timer, commands, calls, intact>>

(* Faulty variant: the new timer is never started. *)
UnlockCreatesOnly(t) ==
    /\ pc[t] = "arm"
    /\ timer = "none"
    /\ timer' = "dormant"
    /\ Goto(t, "give")
    /\ UNCHANGED <<state, actuator, mutex, commands, reported, calls, intact>>

(* xTimerCreate the first time, xTimerStop afterwards. *)
UnlockCreates(t) ==
    /\ pc[t] = "arm"
    /\ timer = "none"
    /\ timer' = "dormant"
    /\ Goto(t, "start")
    /\ UNCHANGED <<state, actuator, mutex, commands, reported, calls, intact>>

UnlockStops(t) ==
    /\ pc[t] = "arm"
    /\ timer # "none"
    /\ Post("stop")
    /\ Goto(t, "start")
    /\ UNCHANGED <<state, actuator, mutex, timer, reported, calls, intact>>

UnlockStarts(t) ==
    /\ pc[t] = "start"
    /\ Post("start")
    /\ intact' = (intact /\ Room)
    /\ Goto(t, "give")
    /\ UNCHANGED <<state, actuator, mutex, timer, reported, calls>>

UnlockGives(t) ==
    /\ pc[t] = "give"
    /\ mutex' = NoThread
    /\ Goto(t, AfterUnlock(t))
    /\ UNCHANGED <<state, actuator, timer, commands, reported, calls, intact>>

-----------------------------------------------------------------------------
(* lock_door on an unlocked door. *)
LockTakes(t) ==
    /\ pc[t] = "lock"
    /\ state # "LOCKED"
    /\ Take(t)
    /\ state' = "LOCKED"
    /\ Goto(t, "release")
    /\ UNCHANGED <<actuator, timer, commands, reported, calls, intact>>

(* lock_door on a locked door stops the timer, if any, and returns. *)
LockAgain(t) ==
    /\ pc[t] = "lock"
    /\ state = "LOCKED"
    /\ Take(t)
    /\ Goto(t, "still")
    /\ UNCHANGED <<state, actuator, timer, commands, reported, calls, intact>>

StopTimer ==
    \/ timer = "none" /\ UNCHANGED commands
    \/ timer # "none" /\ Post("stop")

(* Faulty variant: the early return forgets the mutex. *)
LockStandsAndKeeps(t) ==
    /\ pc[t] = "still"
    /\ StopTimer
    /\ Goto(t, "idle")
    /\ UNCHANGED <<state, actuator, mutex, timer, reported, calls, intact>>

LockStands(t) ==
    /\ pc[t] = "still"
    /\ StopTimer
    /\ mutex' = NoThread
    /\ Goto(t, "idle")
    /\ UNCHANGED <<state, actuator, timer, reported, calls, intact>>

(* Faulty variant: the actuator is not driven low. *)
LockReleasesOnly(t) ==
    /\ pc[t] = "release"
    /\ mutex' = NoThread
    /\ Goto(t, "disarm")
    /\ UNCHANGED <<state, actuator, timer, commands, reported, calls, intact>>

LockReleases(t) ==
    /\ pc[t] = "release"
    /\ mutex' = NoThread
    /\ Goto(t, "close")
    /\ UNCHANGED <<state, actuator, timer, commands, reported, calls, intact>>

(* The tail, outside the critical section. *)
LockCloses(t) ==
    /\ pc[t] = "close"
    /\ actuator' = 0
    /\ Goto(t, "disarm")
    /\ UNCHANGED <<state, mutex, timer, commands, reported, calls, intact>>

LockDisarms(t) ==
    /\ pc[t] = "disarm"
    /\ StopTimer
    /\ Goto(t, "report")
    /\ UNCHANGED <<state, actuator, mutex, timer, reported, calls, intact>>

(* Faulty variant: the arguments of mqtt_publish_lock_event are swapped,   *)
(* and the reason is looked up among the names of the states.              *)
LockReportsReason(t) ==
    /\ pc[t] = "report"
    /\ Publish(t, "UNKNOWN")
    /\ Goto(t, "idle")
    /\ UNCHANGED <<state, actuator, mutex, timer, commands, calls, intact>>

LockReports(t) ==
    /\ pc[t] = "report"
    /\ Publish(t, "LOCKED")
    /\ Goto(t, "idle")
    /\ UNCHANGED <<state, actuator, mutex, timer, commands, calls, intact>>

-----------------------------------------------------------------------------
(* The timer daemon: it takes its commands in order, and a timer that      *)
(* expires becomes dormant and runs its callback, lock_door(TIMEOUT), in   *)
(* the daemon, which takes no command until the callback returns.          *)
DaemonObeys ==
    /\ pc[Daemon] = "idle"
    /\ commands # <<>>
    /\ timer' = IF Head(commands) = "start" THEN "running" ELSE "dormant"
    /\ commands' = Tail(commands)
    /\ UNCHANGED <<state, actuator, mutex, reported, pc, calls, intact>>

(* Faulty variant: a timer without a callback. *)
TimerExpiresSilently ==
    /\ pc[Daemon] = "idle"
    /\ timer = "running"
    /\ timer' = "dormant"
    /\ UNCHANGED <<state, actuator, mutex, commands, reported, pc, calls, intact>>

TimerExpires ==
    /\ pc[Daemon] = "idle"
    /\ timer = "running"
    /\ timer' = "dormant"
    /\ Goto(Daemon, "lock")
    /\ UNCHANGED <<state, actuator, mutex, commands, reported, calls, intact>>

-----------------------------------------------------------------------------
Waits(t) ==
    \/ UnlockTakes(t) \/ UnlockAgain(t) \/ LockTakes(t) \/ LockAgain(t)
    \/ UnlockAnnounces(t) \/ LockReports(t)

Runs(t) ==
    \/ ToggleReads(t)
    \/ UnlockOpens(t) \/ UnlockCreates(t) \/ UnlockStops(t)
    \/ UnlockStarts(t) \/ UnlockGives(t) \/ LockStands(t)
    \/ LockReleases(t) \/ LockCloses(t) \/ LockDisarms(t)

Calls(t) == Command(t) \/ Recognised(t) \/ Touch(t) \/ Untouch(t)

Next ==
    \/ \E t \in Tasks : Calls(t)
    \/ \E t \in Threads : Waits(t) \/ Runs(t)
    \/ DaemonObeys
    \/ TimerExpires

(***************************************************************************)
(* A task that can run is scheduled, and so is the daemon (FreeRTOS runs   *)
(* every ready task; the ones above it sleep).  A task that waits for the  *)
(* mutex, or for the API lock, gets it if it is free again and again: the  *)
(* waiters are queued.                                                     *)
(* Time passes, so a running timer expires.  Nobody has to touch the pad,  *)
(* take the finger off it or send a command.                               *)
(***************************************************************************)
Fairness ==
    /\ \A t \in Threads : WF_vars(Runs(t)) /\ SF_vars(Waits(t))
    /\ WF_vars(DaemonObeys)
    /\ WF_vars(TimerExpires)

Spec == Init /\ [][Next]_vars /\ Fairness

-----------------------------------------------------------------------------
(* Safety. *)

(* Whatever happened before, a lock that stands LOCKED with no lock_door   *)
(* in its tail has its actuator low, and the last event it had to publish  *)
(* was LOCKED, published or refused: every race of lock.c is repaired by   *)
(* the next lock_door.                                                     *)
LockedIsSettled ==
    state = "LOCKED" /\ (\A t \in Threads : ~InTail(t))
        => actuator = 0 /\ reported # "UNLOCKED"

(* The actuator is open on a LOCKED door only while a lock_door that has   *)
(* yet to drive it low is under way.                                       *)
OpenIsExplained ==
    actuator = 1 /\ state = "LOCKED"
        => \E t \in Threads : pc[t] \in {"release", "close"}

(* The daemon will see to the auto-lock: the last command it has to obey   *)
(* is a start, or the timer runs, or the callback is already under way.    *)
Armed ==
    \/ commands # <<>> /\ commands[Len(commands)] = "start"
    \/ commands = <<>> /\ timer = "running"
    \/ pc[Daemon] = "lock"

(* unlock_door does what lock.h says of it (opens the actuator, publishes, *)
(* arms the auto-lock) as long as it met no lock_door in its tail.         *)
IntactUnlock ==
    intact /\ state = "UNLOCKED" /\ mutex = NoThread
        => actuator = 1 /\ reported \in {"UNLOCKED", "refused"} /\ Armed

-----------------------------------------------------------------------------
(* Liveness. *)

(* The one deadlock of lock.c: a task that unlocks has the mutex and waits *)
(* for the API lock; the event handler of the MQTT task has the API lock   *)
(* and waits for the mutex.                                                *)
Crossed ==
    /\ pc[Client] \in {"unlock", "lock"}
    /\ \E t \in Threads \ {Client} : pc[t] = "announce"

(* Every call of lock.c returns, or the two locks were taken crosswise:    *)
(* nobody waits for ever for any other reason.                             *)
CallsReturn ==
    \A t \in Threads :
        pc[t] \notin {"idle", "held"} ~> pc[t] \in {"idle", "held"} \/ Crossed

(* An unlocked door is locked again without anybody asking, unless the     *)
(* unlock was disturbed or the two locks were taken crosswise.             *)
AutoLocks ==
    (state = "UNLOCKED" /\ intact) ~> (state = "LOCKED" \/ ~intact \/ Crossed)

-----------------------------------------------------------------------------
(* Refinement: lock.c implements Door. *)
Closing == \E t \in Threads : pc[t] \in {"release", "close"}

Abstract == INSTANCE Door WITH door <- state, bolt <- actuator, closing <- Closing
DoorSpec == Abstract!Spec

-----------------------------------------------------------------------------
(* What the documents say and the code does not do. *)

Quiescent == commands = <<>> /\ \A t \in Threads : pc[t] = "idle"

(* Embedded.md: the auto-lock timeout has no race conditions.  A door at   *)
(* rest that is open has its timer running.                                *)
OpenIsTimed == Quiescent /\ actuator = 1 => timer = "running"

=============================================================================
