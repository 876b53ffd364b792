----------------------------- MODULE DeviceLife -----------------------------
(***************************************************************************)
(* The device from one start to the next: app_main (main.c), the pairing   *)
(* server and its timeout (wifi.c), cleanup_restart and cleanup_halt       *)
(* (system_utils.c), which five tasks may call with no lock between them.  *)
(*                                                                         *)
(* A shutdown announces itself, locks the door, deletes the heartbeat,     *)
(* destroys the MQTT client and waits 100 ms; the other tasks run on until *)
(* its last step.  A pairing request writes three parameters, answers, and *)
(* restarts the device; the timeout may come at any moment of it.          *)
(*                                                                         *)
(* unlock_door publishes with lock_ctx.mutex held, lock_door after it has  *)
(* given it.  A publication waits for the lock of the MQTT client, which   *)
(* the heartbeat holds while it publishes and the MQTT task as long as it  *)
(* handles a command.  The other tasks take it for one step.  A client     *)
(* that is used after it was destroyed may work, wait for ever or crash    *)
(* the device.                                                             *)
(*                                                                         *)
(* A pairing request stands for its three values, which are those of a     *)
(* network that exists, if the request was not cut; 0 is what the device   *)
(* had before.  update_config is one step here: DeviceConfig has its steps.*)
(*                                                                         *)
(* Names that AudioStream has too begin with Life: FirmwareProofs is about *)
(* both.                                                                   *)
(***************************************************************************)
EXTENDS Naturals

CONSTANTS
    MaxRequests,  \* bound on the pairing requests
    MaxCommands,  \* bound on the commands and touches
    MaxFailures,  \* bound on the failures of NVS, sockets, tasks, audio, requests
    MaxLosses,    \* bound on the losses of power
    MaxBeats      \* bound on the heartbeats of one start

ASSUME BoundsAssumption ==
    {MaxRequests, MaxCommands, MaxFailures, MaxLosses, MaxBeats} \subseteq Nat

VARIABLES
    boot,       \* how far app_main has got
    pairing,    \* config.pairing_mode
    flag,       \* pairing_mode in NVS
    stored,     \* the three parameters in NVS: the request each is of
    server,     \* where handle_pairing_client is
    paired,     \* what timeout_task tests
    timed,      \* timeout_task has been created
    requests,   \* the requests so far; the last is the one in hand
    answered,   \* the last request that was answered 200
    client,     \* mqtt_client
    heartbeat,  \* the heartbeat task, and the state of the door that it has read
    door,       \* lock_ctx.state
    reported,   \* the state that was last handed to a client
    step,       \* where each task is in a call of lock.c or in its shutdown
    goal,       \* what each task will do at the end of it
    commands, failures, losses, beats,
    failed,     \* history: requests of which a write failed
    cut,        \* history: requests that were received or stored in part
    reopened,   \* history: unlocked after a shutdown had locked the door
    heard,      \* history: the state was published since the start
    outdated,   \* history: a later state was read, or had no client to go to
    met         \* history: since then a shutdown met another, or the start

config   == <<pairing, flag, stored>>
pair     == <<server, paired, timed, requests, answered>>
network  == <<client, heartbeat>>
lock     == <<door, reported>>
shutdown == <<step, goal>>
bounds   == <<commands, failures, losses, beats>>
said     == <<heard, outdated>>
history  == <<failed, cut, reopened, said, met>>
lifeVars == <<boot, config, pair, network, lock, shutdown, bounds, history>>

(* main runs app_main, and so wifi_init and the pairing server; the daemon  *)
(* of the FreeRTOS timers runs the auto-lock.                               *)
Tasks  == {"mqtt", "serial", "touch", "main", "timeout", "daemon"}
Params == {"wifi_ssid", "wifi_pass", "user_id"}
Doors  == {"LOCKED", "UNLOCKED"}
(* enter: called by the MQTT task; unlock: the mutex is held; report: it is *)
(* given; tell: a status is to be published; held: by a finger.             *)
Calls  == {"enter", "unlock", "report", "tell", "held"}
Behind == {"cleanup", "test", "destroy", "clear", "stop"}
Steps  == {"idle", "announce", "lock", "locked"} \cup Calls \cup Behind

LifeTypeOK ==
    /\ boot \in {"boot", "pairing", "station", "starting", "online", "returned",
                "asleep", "off"}
    /\ pairing \in BOOLEAN /\ flag \in BOOLEAN
    /\ stored \in [Params -> 0..MaxRequests]
    /\ server \in {"idle", "open", "accept", "recv", "answer", "paired", "done"} \cup Params
    /\ paired \in BOOLEAN /\ timed \in BOOLEAN
    /\ requests \in 0..MaxRequests /\ answered \in 0..MaxRequests
    /\ client \in {"none", "up", "freed"}
    /\ heartbeat \in {"none", "idle", "sending", "killed"} \cup Doors
    /\ door \in Doors /\ reported \in Doors
    /\ step \in [Tasks -> Steps]
    /\ goal \in [Tasks -> {"restart", "halt"}]
    /\ commands \in 0..MaxCommands
    /\ failures \in 0..MaxFailures /\ losses \in 0..MaxLosses
    /\ beats \in 0..MaxBeats
    /\ failed \subseteq 1..MaxRequests /\ cut \subseteq 1..MaxRequests
    /\ reopened \in BOOLEAN /\ met \in BOOLEAN
    /\ heard \in BOOLEAN /\ outdated \in BOOLEAN

LifeInit ==
    /\ boot = "boot" /\ pairing = FALSE /\ flag = FALSE
    /\ stored = [p \in Params |-> 0]
    /\ server = "idle" /\ paired = FALSE /\ timed = FALSE
    /\ requests = 0 /\ answered = 0
    /\ client = "none" /\ heartbeat = "none"
    /\ door = "LOCKED" /\ reported \in Doors
    /\ step = [t \in Tasks |-> "idle"] /\ goal = [t \in Tasks |-> "restart"]
    /\ commands = 0 /\ failures = 0 /\ losses = 0 /\ beats = 0
    /\ failed = {} /\ cut = {}
    /\ reopened = FALSE /\ heard = FALSE /\ outdated = FALSE /\ met = FALSE

-----------------------------------------------------------------------------
Running == boot \notin {"boot", "asleep", "off"}

Fail == failures < MaxFailures /\ failures' = failures + 1

Command == commands < MaxCommands /\ commands' = commands + 1

Goto(t, s) == step' = [step EXCEPT ![t] = s]

Free(t) == Running /\ step[t] = "idle"
ShuttingDown(t) == step[t] \in {"announce", "lock", "locked"} \cup Behind

(* cleanup_restart or cleanup_halt is called. *)
Begin(t, g) ==
    /\ Goto(t, "announce")
    /\ goal' = [goal EXCEPT ![t] = g]
    /\ met' = (met \/ \E u \in Tasks \ {t} : ShuttingDown(u))

(* lock_ctx.mutex is free. *)
MutexFree == \A t \in Tasks : step[t] # "unlock"

(* The lock of the client is free, or this task has it: the MQTT task while *)
(* it handles a command, the heartbeat until it has published, and for ever *)
(* when it is deleted meanwhile.                                            *)
ApiFree(t) ==
    /\ heartbeat \notin {"sending", "killed"}
    /\ t # "mqtt" => step["mqtt"] = "idle"
CanPublish(t) == client = "up" => ApiFree(t)

(* The MQTT task waits in a command for the mutex of a task that waits in   *)
(* unlock_door for the command to end.                                      *)
Crossed == step["mqtt"] \in {"enter", "lock"} /\ ~MutexFree

(* Faulty variant: an event says why, and not what. *)
PublishReason(state, late) ==
    IF client = "up"
    THEN reported' = "REBOOT" /\ heard' = TRUE /\ outdated' = late
    ELSE outdated' = heard /\ UNCHANGED <<reported, heard>>

(* A lock event or a heartbeat, if there is a client. *)
Publish(state, late) ==
    IF client = "up"
    THEN reported' = state /\ heard' = TRUE /\ outdated' = late
    ELSE outdated' = heard /\ UNCHANGED <<reported, heard>>

(* Nothing is left of a run but NVS; lock_init closes the actuator. *)
Fresh ==
    /\ pairing' = FALSE
    /\ server' = "idle" /\ paired' = FALSE /\ timed' = FALSE
    /\ client' = "none" /\ heartbeat' = "none"
    /\ door' = "LOCKED"
    /\ step' = [t \in Tasks |-> "idle"] /\ goal' = [t \in Tasks |-> "restart"]
    /\ reopened' = FALSE /\ heard' = FALSE /\ outdated' = FALSE /\ met' = FALSE
    /\ beats' = 0
    /\ UNCHANGED <<flag, stored, requests, answered, reported, commands, failures, failed,
                   cut>>

-----------------------------------------------------------------------------
(* app_main. *)

Load ==
    /\ boot = "boot" /\ ~flag
    /\ boot' = "station" /\ pairing' = FALSE
    /\ UNCHANGED <<flag, stored, pair, network, lock, shutdown, bounds, history>>

(* The flag is reset at once, "so we don't get stuck"; RAM keeps it. *)
EnterPairing ==
    /\ boot = "boot" /\ flag
    /\ boot' = "pairing" /\ pairing' = TRUE
    /\ server' = "open"
    /\ \/ flag' = FALSE /\ UNCHANGED failures
       \/ Fail /\ UNCHANGED flag
    /\ UNCHANGED <<stored, paired, timed, requests, answered, network, lock, shutdown,
                   commands, losses, beats, history>>

(* The two halves of what was stored are not of one network; those of a     *)
(* request that was cut may be of none.                                     *)
Torn    == stored["wifi_ssid"] # stored["wifi_pass"]
Known   == ~Torn /\ stored["wifi_ssid"] \notin cut

(* wifi_init, and mqtt_init, if the audio board could be set up between     *)
(* them: else app_main returns.                                             *)
Connect ==
    /\ boot = "station" /\ Free("main")
    /\ ~Torn
    /\ \/ boot' = "starting" /\ client' = "up" /\ UNCHANGED failures
       \/ Fail /\ boot' = "returned" /\ UNCHANGED client
    /\ UNCHANGED <<config, pair, heartbeat, lock, shutdown, commands, losses, beats, history>>

(* Not connected in 30 s. *)
ConnectFails ==
    /\ boot = "station" /\ Free("main")
    /\ Begin("main", "restart")
    /\ UNCHANGED <<boot, config, pair, network, lock, bounds, failed, cut, reopened, said>>

(* If it is enabled, and the task can be created. *)
StartHeartbeat ==
    /\ boot = "starting"
    /\ boot' = "online" /\ heartbeat' \in {"none", "idle"}
    /\ met' = (met \/ \E t \in Tasks : ShuttingDown(t))
    /\ UNCHANGED <<config, pair, client, lock, shutdown, bounds, failed, cut, reopened, said>>

(* The state of the door is read first, and sent when the client is free. *)
ReadState ==
    /\ Running /\ heartbeat = "idle" /\ client # "none"
    /\ beats < MaxBeats /\ beats' = beats + 1
    /\ heartbeat' = door
    /\ UNCHANGED <<boot, config, pair, client, lock, shutdown, commands, failures, losses,
                   history>>

SendState ==
    /\ Running /\ heartbeat \in Doors /\ CanPublish("heartbeat")
    /\ heartbeat' = (IF client = "up" THEN "sending" ELSE "idle")
    /\ Publish(heartbeat, heartbeat # door)
    /\ UNCHANGED <<boot, config, pair, client, door, shutdown, bounds, failed, cut,
                   reopened, met>>

EndSending ==
    /\ Running /\ heartbeat = "sending"
    /\ heartbeat' = "idle"
    /\ UNCHANGED <<boot, config, pair, client, lock, shutdown, bounds, history>>

Heartbeat == ReadState \/ SendState \/ EndSending

-----------------------------------------------------------------------------
(* The pairing server, in the main task, and its timeout. *)

InPairing(s) == boot = "pairing" /\ server = s

Serve(s) ==
    server' = s /\ UNCHANGED <<boot, pairing, flag, network, lock, commands, losses, beats>>

(* start_pairing_server, with no socket, returns: the device sleeps.  That  *)
(* timeout_task could not be created is not noticed.                        *)
OpenServer ==
    /\ InPairing("open")
    /\ \/ Serve("accept") /\ timed' = TRUE /\ UNCHANGED failures
       \/ Serve("accept") /\ Fail /\ UNCHANGED timed
       \/ /\ Fail /\ boot' = "asleep"
          /\ UNCHANGED <<pairing, flag, server, timed, network, lock, commands, losses, beats>>
    /\ UNCHANGED <<stored, paired, requests, answered, shutdown, history>>

(* Somebody connects, and may say nothing: recv has no time limit. *)
Accept ==
    /\ InPairing("accept")
    /\ Serve("recv")
    /\ UNCHANGED <<stored, paired, timed, requests, answered, shutdown, failures, history>>

(* 400, 404 and connections that are closed. *)
Reject ==
    /\ InPairing("recv")
    /\ Serve("accept")
    /\ UNCHANGED <<stored, paired, timed, requests, answered, shutdown, failures, history>>

(* What one recv has of the request is taken for all of it, and a value     *)
(* that is longer than its buffer is cut.                                   *)
Receive ==
    /\ InPairing("recv")
    /\ requests < MaxRequests
    /\ requests' = requests + 1
    /\ \/ UNCHANGED <<cut, failures>>
       \/ Fail /\ cut' = cut \cup {requests'}
    /\ Serve("wifi_ssid")
    /\ UNCHANGED <<stored, paired, timed, shutdown, failed, reopened, said, met>>

(* Faulty variant: the application has its answer before the writes. *)
ConfigureAnswering == Receive /\ answered' = requests'

Configure == Receive /\ UNCHANGED answered

After == [p \in Params |->
    CASE p = "wifi_ssid" -> "wifi_pass" [] p = "wifi_pass" -> "user_id" [] OTHER -> "answer"]

(* Its failures are ignored; what a failed commit was for may be stored. *)
Write(p) ==
    /\ InPairing(p)
    /\ Serve(After[p])
    /\ \/ /\ stored' = [stored EXCEPT ![p] = requests]
          /\ UNCHANGED <<failures, failed>>
       \/ /\ Fail
          /\ stored' \in {stored, [stored EXCEPT ![p] = requests]}
          /\ failed' = failed \cup {requests}
    /\ UNCHANGED <<paired, timed, requests, answered, shutdown, cut, reopened, said, met>>

Answer ==
    /\ InPairing("answer")
    /\ answered' = requests
    /\ Serve("paired")
    /\ UNCHANGED <<stored, paired, timed, requests, shutdown, failures, history>>

SetPaired ==
    /\ InPairing("paired")
    /\ paired' = TRUE
    /\ Serve("done")
    /\ UNCHANGED <<stored, timed, requests, answered, shutdown, failures, history>>

(* 250 ms later. *)
EndPairing ==
    /\ InPairing("done") /\ Free("main")
    /\ Begin("main", "restart")
    /\ UNCHANGED <<boot, config, pair, network, lock, bounds, failed, cut, reopened, said>>

(* Faulty variant: timeout_task waits for handle_pairing_client to be done. *)
TimeoutWaiting ==
    /\ boot = "pairing" /\ server = "accept" /\ Free("timeout")
    /\ ~paired
    /\ Begin("timeout", "restart")
    /\ UNCHANGED <<boot, config, pair, network, lock, bounds, failed, cut, reopened, said>>

(* Whatever handle_pairing_client is doing: pair_mutex is not asked for. *)
Timeout ==
    /\ boot = "pairing" /\ timed /\ Free("timeout")
    /\ ~paired
    /\ Begin("timeout", "restart")
    /\ UNCHANGED <<boot, config, pair, network, lock, bounds, failed, cut, reopened, said>>

-----------------------------------------------------------------------------
(* Commands, by MQTT or typed, and touches. *)

(* The MQTT task holds the lock of its client from the command to its end. *)
Commanded(t) ==
    /\ Free(t) /\ Command
    /\ t = "mqtt" => client = "up" /\ ApiFree(t)

(* UNLOCK or LOCK of the backend, which has to wait for the mutex. *)
Enter ==
    /\ Commanded("mqtt") /\ Goto("mqtt", "enter")
    /\ UNCHANGED <<boot, config, pair, network, lock, goal, failures, losses, beats, history>>

(* A finger opens the door and closes it when it is lifted. *)
Unlock(t) ==
    /\ IF t = "mqtt" THEN Running /\ step[t] = "enter" /\ UNCHANGED commands
                     ELSE Commanded(t)
    /\ MutexFree
    /\ door' = "UNLOCKED"
    /\ Goto(t, IF door = "LOCKED" THEN "unlock" ELSE IF t = "touch" THEN "held" ELSE "idle")
    /\ reopened' = (reopened \/ \E u \in Tasks : step[u] \in Behind \cup {"locked"})
    /\ UNCHANGED <<boot, config, pair, network, reported, goal, failures, losses, beats, failed,
                   cut, said, met>>

(* lock_door gives the mutex before it publishes, and publishes nothing if  *)
(* it finds the door locked.                                                *)
LockDoor(t, publishing, done) ==
    /\ MutexFree
    /\ door' = "LOCKED"
    /\ Goto(t, IF door = "UNLOCKED" THEN publishing ELSE done)
    /\ UNCHANGED <<boot, config, pair, network, reported, goal, bounds, history>>

(* A command, the auto-lock, or the end of a touch. *)
Relock(t) ==
    /\ Running
    /\ CASE t = "mqtt"  -> step[t] = "enter"
         [] t = "touch" -> step[t] = "held"
         [] OTHER       -> step[t] = "idle" /\ door = "UNLOCKED"
    /\ LockDoor(t, "report", "idle")

(* A command that does nothing here but publish a status: PING, or an       *)
(* UPDATE_CONFIG of another parameter.                                      *)
Speak(t) ==
    /\ Commanded(t) /\ Goto(t, "tell")
    /\ UNCHANGED <<boot, config, pair, network, lock, goal, failures, losses, beats, history>>

(* The publication of unlock_door, lock_door or a command. *)
Say(t) ==
    /\ Running /\ CanPublish(t)
    /\ \/ /\ step[t] = "unlock" /\ Goto(t, IF t = "touch" THEN "held" ELSE "idle")
          /\ Publish("UNLOCKED", FALSE)
       \/ /\ step[t] = "report" /\ Goto(t, "idle")
          /\ Publish("LOCKED", FALSE)
       \/ /\ step[t] = "locked" /\ Goto(t, "cleanup")
          /\ Publish("LOCKED", FALSE)
       \/ /\ step[t] = "tell" /\ Goto(t, "idle")
          /\ UNCHANGED <<reported, said>>
    /\ UNCHANGED <<boot, config, pair, network, door, goal, bounds, failed, cut, reopened,
                   met>>

(* REBOOT and LOCKDOWN, of the backend or of the console. *)
ShutDown(t) ==
    /\ Commanded(t)
    /\ \E g \in {"restart", "halt"} : Begin(t, g)
    /\ UNCHANGED <<boot, config, pair, network, lock, failures, losses, beats, failed, cut,
                   reopened, said>>

(* update_config("pairing_mode", ...), which compares with RAM and leaves it. *)
SetPairingMode(value) ==
    \/ flag' = (IF pairing = value THEN flag ELSE value) /\ UNCHANGED failures
    \/ pairing # value /\ Fail /\ UNCHANGED flag

(* PAIR sets the flag; the touch pad takes the opposite of RAM.  What they  *)
(* publish of that comes with the announcement.                             *)
Pair(t) ==
    /\ Commanded(t)
    /\ SetPairingMode(IF t = "touch" THEN ~pairing ELSE TRUE)
    /\ Begin(t, "restart")
    /\ UNCHANGED <<boot, pairing, stored, pair, network, lock, losses, beats, failed, cut,
                   reopened, said>>

-----------------------------------------------------------------------------
(* cleanup_restart and cleanup_halt. *)

At(t, s) == Running /\ step[t] = s

(* RESTARTING or LOCKING_DOWN, if there is a client. *)
Announce(t) ==
    /\ At(t, "announce") /\ CanPublish(t) /\ Goto(t, "lock")
    /\ UNCHANGED <<boot, config, pair, network, lock, goal, bounds, history>>

(* Faulty variant: the door is locked and nothing is said of it. *)
LockUnheard(t) == At(t, "lock") /\ LockDoor(t, "cleanup", "cleanup")

LockUp(t) == At(t, "lock") /\ LockDoor(t, "locked", "cleanup")

(* What it holds is not given back. *)
DeleteHeartbeat(t) ==
    /\ At(t, "cleanup") /\ Goto(t, "test")
    /\ heartbeat' = (IF heartbeat \in {"sending", "killed"} THEN "killed" ELSE "none")
    /\ UNCHANGED <<boot, config, pair, client, lock, goal, bounds, history>>

Test(t) ==
    /\ At(t, "test") /\ Goto(t, IF client = "none" THEN "stop" ELSE "destroy")
    /\ UNCHANGED <<boot, config, pair, network, lock, goal, bounds, history>>

(* The handle still has its old value. *)
Destroy(t) ==
    /\ At(t, "destroy") /\ CanPublish(t) /\ Goto(t, "clear")
    /\ client' = IF client = "up" THEN "freed" ELSE client
    /\ UNCHANGED <<boot, config, pair, heartbeat, lock, goal, bounds, history>>

Clear(t) ==
    /\ At(t, "clear") /\ Goto(t, "stop")
    /\ client' = "none"
    /\ UNCHANGED <<boot, config, pair, heartbeat, lock, goal, bounds, history>>

(* Faulty variant: the two functions end in the same way. *)
StopRestarting(t) ==
    /\ At(t, "stop")
    /\ boot' = "boot" /\ Fresh
    /\ UNCHANGED losses

(* 100 ms later.  In its sleep the device keeps what it was doing. *)
Stop(t) ==
    /\ At(t, "stop")
    /\ \/ goal[t] = "restart" /\ boot' = "boot" /\ Fresh /\ UNCHANGED losses
       \/ /\ goal[t] = "halt" /\ boot' = "asleep"
          /\ UNCHANGED <<config, pair, network, lock, shutdown, bounds, history>>

ShutdownStep(t) ==
    \/ Announce(t) \/ LockUp(t) \/ DeleteHeartbeat(t) \/ Test(t)
    \/ Destroy(t) \/ Clear(t) \/ Stop(t)

(* A client that was destroyed is used: by another shutdown, by a task that *)
(* is in a call of lock.c or a command, or by the heartbeat.                *)
Uses(t) ==
    /\ client = "freed"
    /\ step[t] \in {"unlock", "report", "tell", "announce", "locked", "destroy"}
Misused ==
    \/ \E t \in Tasks : Uses(t)
    \/ client = "freed" /\ heartbeat \in Doors \cup {"sending"}

(* Two shutdowns delete the heartbeat. *)
DeletedTwice ==
    /\ heartbeat # "none"
    /\ \E t, u \in Tasks : t # u /\ step[t] = "cleanup" /\ step[u] = "cleanup"

Crash ==
    /\ Running /\ (Misused \/ DeletedTwice)
    /\ boot' = "boot" /\ Fresh
    /\ UNCHANGED losses

LosePower ==
    /\ boot # "off" /\ losses < MaxLosses
    /\ losses' = losses + 1
    /\ boot' = "off" /\ Fresh

PowerOn ==
    /\ boot = "off"
    /\ boot' = "boot"
    /\ UNCHANGED <<config, pair, network, lock, shutdown, bounds, history>>

-----------------------------------------------------------------------------
Main ==
    \/ Load \/ EnterPairing \/ Connect \/ ConnectFails \/ StartHeartbeat
    \/ OpenServer \/ Accept \/ Reject \/ Configure
    \/ (\E p \in Params : Write(p)) \/ Answer \/ SetPaired \/ EndPairing

Commands ==
    \/ Enter
    \/ \E t \in {"mqtt", "serial", "touch"} : Unlock(t)
    \/ \E t \in {"mqtt", "serial", "touch", "daemon"} : Relock(t)
    \/ \E t \in {"mqtt", "serial"} : Speak(t)
    \/ \E t \in {"mqtt", "serial"} : ShutDown(t)
    \/ \E t \in {"mqtt", "serial", "touch"} : Pair(t)

Power == Crash \/ LosePower \/ PowerOn

LifeNext ==
    \/ Main \/ Heartbeat \/ Timeout \/ Commands \/ Power
    \/ \E t \in Tasks : Say(t) \/ ShutdownStep(t)

(* Every task that can run does, but for the use of a destroyed client; the *)
(* network of a complete configuration is there again and again.  The lock  *)
(* of the client is not taken from those who wait for it by one heartbeat   *)
(* after the other, which are seconds apart: MaxBeats.  Nobody has to       *)
(* connect, command, lift a finger or restore power.                        *)
LifeFairness ==
    /\ WF_lifeVars(Load) /\ WF_lifeVars(EnterPairing) /\ WF_lifeVars(OpenServer)
    /\ SF_lifeVars(Known /\ Connect) /\ WF_lifeVars(ConnectFails) /\ WF_lifeVars(StartHeartbeat)
    /\ WF_lifeVars(\E p \in Params : Write(p))
    /\ WF_lifeVars(Answer) /\ WF_lifeVars(SetPaired) /\ WF_lifeVars(EndPairing)
    /\ WF_lifeVars(Timeout)
    /\ WF_lifeVars(EndSending) /\ WF_lifeVars(Unlock("mqtt") \/ Relock("mqtt"))
    /\ \A t \in Tasks : WF_lifeVars(~Uses(t) /\ (Say(t) \/ ShutdownStep(t)))

LifeSpec == LifeInit /\ [][LifeNext]_lifeVars /\ LifeFairness

-----------------------------------------------------------------------------
(* A device whose pairing the application was told of has all three of the *)
(* parameters that were sent, or of a later request: no timeout, command,  *)
(* restart or loss of power takes them back.  The exceptions are a failure *)
(* of update_config, which handle_pairing_client does not look at, and a   *)
(* request of which it has taken only a part.                              *)
AnsweredIsStored ==
    answered \notin failed \cup cut => \A p \in Params : stored[p] >= answered

(* A device that is past the locking of its shutdown, up to its sleep, is   *)
(* locked, unless somebody has unlocked it after that; and the last it has  *)
(* said of the door since its start is that it is locked.  Three reports of *)
(* other tasks are the exceptions: the LOCKED of a task that has locked the *)
(* door before the shutdown and has not published it yet, the same when it  *)
(* finds the client destroyed, and a heartbeat that has read the door       *)
(* before it was locked.                                                    *)
StoppedIsLocked ==
    (\E t \in Tasks : step[t] \in Behind) /\ ~reopened =>
        /\ door = "LOCKED"
        /\ \/ ~heard \/ reported = "LOCKED"
           \/ outdated \/ \E t \in Tasks : step[t] \in {"report", "locked"}

(* The client is destroyed while other tasks run.  In a shutdown that met   *)
(* no other and no start of the heartbeat, only a task that was about to    *)
(* publish in a call of lock.c or of a command can still use it: neither    *)
(* the heartbeat, which is deleted before, nor the MQTT task, whose command *)
(* the destruction waits for.                                               *)
Straggling == \E t \in Tasks \ {"mqtt"} : step[t] \in {"unlock", "report", "tell"}
ClientIsUnused == ~met /\ Misused => Straggling

(* A lockdown that has met neither and has no such task beside it is not    *)
(* turned into a restart, not by a crash and not by another task: what may  *)
(* follow it is sleep or a loss of power.                                   *)
LockdownIsKept ==
    [][(\E t \in Tasks : goal[t] = "halt" /\ ShuttingDown(t))
           /\ boot # "asleep" /\ ~met /\ ~Straggling
               => boot' # "boot"]_lifeVars

(* A device that is to be locked down ends asleep, or without power.  Four  *)
(* things can prevent it: another shutdown or the start of the heartbeat in *)
(* its way, a client that is used after it was destroyed, a heartbeat that  *)
(* is deleted while it has the lock of the client, and a task that waits    *)
(* for that lock in unlock_door while the MQTT task waits for the mutex.    *)
LockdownSleeps ==
    (\E t \in Tasks : goal[t] = "halt" /\ ShuttingDown(t))
        ~> \/ boot \in {"asleep", "off"}
           \/ met \/ Misused \/ heartbeat = "killed" \/ Crossed

(* However it was paired, commanded, interrupted or shut down, a device     *)
(* that is not asleep or without power comes back to where it can be        *)
(* reached and no shutdown is under way.  Five things can keep it away for  *)
(* ever: the parts of two networks or of none, an app_main that returned, a *)
(* pairing with no timeout, and the two ways of waiting for a lock that is  *)
(* never given.                                                             *)
Reachable == boot = "online" /\ \A t \in Tasks : ~ShuttingDown(t)
ComesBack ==
    []<>(\/ Reachable \/ boot \in {"asleep", "off"}
         \/ ~Known \/ boot = "returned"
         \/ boot = "pairing" /\ server # "open" /\ ~timed
         \/ heartbeat = "killed" \/ Crossed)
=============================================================================
