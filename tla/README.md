# LockWise in TLA+

A verification development of the LockWise door lock: the ESP32 firmware
(`embedded/`, C on FreeRTOS), the backend (`backend/`, Rust on Rocket, PostgreSQL
and an MQTT broker) and the mobile application (`app/`, Flutter).  Source paths
below are those of the repository; line numbers are in `PROJECT.json`.

## 1. The system

```
 touch pads, UART          voice (HTTP POST)             HTTP, WebSocket
      |                 +------------------+          +----------------+
      v                 |                  v          v                |
 +---------+   MQTT   +--------+        +---------------+   SQL   +----------+
 | device  |<-------->| broker |<------>|    backend    |<------->| Postgres |
 +---------+          +--------+        +---------------+         +----------+
      ^   pairing: HTTP over the device's own access point   ^
      +-------------------------- app -----------------------+
```

### 1.1 Firmware (`embedded/main/src`)

| Component | State | Operations | Hard behaviour | What makes it correct |
|---|---|---|---|---|
| Door lock, `lock.c` | `lock_ctx.state`, mutex, auto-lock timer; the actuator pin | `unlock_door`, `lock_door`, `toggle_door`, timer callback | called from the MQTT, serial, touch, voice tasks and the timer daemon; `lock_door` leaves the critical section before it acts; the daemon's queue is finite and its result ignored; a publication waits for a lock of the MQTT client with the mutex held | actuator, timer and last report agree with the state; an unlocked door is locked again; every call returns |
| Configuration, `config.c` | RAM copy `config`, NVS | `load_config_from_nvs`, `update_config` | RAM is written before the commit, the commit can fail, the device can restart between the two; `pairing_mode` is not written in RAM; two tasks update with no lock; no length is checked | what is acknowledged is stored; after a restart the device runs with what it acknowledged |
| Voice, `audio_stream.c` | `streaming_enabled`, `recording_active`, the gate, the command queue, two blink tasks | START, STOP, voice activity trigger, recording, POST to the backend | three tasks share flags without a lock; every early `continue` of `http_stream_task` must undo what was done | a recording always ends and another can start; one trigger is one recording; the LED returns to idle |
| Start, shutdown, `main.c`, `system_utils.c` | tasks, the MQTT client, Wi-Fi | `app_main`, `cleanup_restart`, `cleanup_halt`, touch monitor | any of five tasks can call cleanup while the others run; `app_main` can return | a device that halts is locked and has said so; a lockdown ends asleep; the device comes back |
| Pairing and Wi-Fi, `wifi.c` | access point, server, timeout task | `wifi_init`, `wifi_init_ap`, `handle_pairing_client`, `parse_configure_request`, `timeout_task` | timeout races a pairing request; a request can be partly applied | a paired device has every parameter; an unpaired one goes back to its old configuration |
| MQTT, `mqtt.c` | client handle | event handler, `process_cbor_command`, publications, heartbeat | commands and heartbeats in different tasks | a report matches the state it was read from |
| Serial, `serial.c` | line buffer | `run_command` | same calls as MQTT from another task | as above |

### 1.2 Backend (`backend/src`)

| Component | State | Operations | Hard behaviour | What makes it correct |
|---|---|---|---|---|
| MQTT events, `mqtt.rs` | `devices`, `logs`, `PENDING_PINGS`, `PENDING_CONFIG_UPDATES`, `RECENT_COMMANDS` | heartbeat, PONG, CONFIG_UPDATED, LOCKING_DOWN, lock event | events race HTTP handlers over the same rows and maps; most failures of statements are ignored | a log entry names who acted; a device belongs to the user who paired it |
| Devices, `device.rs` | the same, and `update_tx` | control, ping, configuration, reboot, lockdown, unpair, logs, voice | check then publish; publish then insert; one slot per device; 10 s timeouts, which do not cover the publication | an answer goes to the request it answers; only the owner and his guests command a device |
| Users, `user.rs` | `users` | register, login, logout, passwords, delete, voice | tokens survive logout and a change of password; deletion is several statements, and comes last of three services | who has no account holds nothing; the services agree on the account and its password |
| Invites, `invite.rs` | `invites` | create, accept, reject, cancel, update | check then insert; sender no longer the owner; expiry | a guest has the access the owner gave him, as long as he gave it |
| Web, `main.rs` | broadcast channel, WebSocket sessions | `Token`, `websocket_updates`, log cleanup | a slow socket is disconnected | a connected application learns every event of its devices |
| Voice verification, `device.rs`, and speech, `speechbrain_service.py` | `users.voice_embeddings`, `devices.hashed_passphrase` | `verify_voice`, `register_voice`, `delete_voice`; embedding and comparison | four statements and then a wait for the service, under changes of owner, guests and voices | who is let in is entitled and has spoken; who is entitled is heard |
| Passphrase tool, `bin/add_passphrase.rs` | `devices.hashed_passphrase` | list, choose, write | it writes without looking again | a passphrase the device has passed with is not replaced |

### 1.3 Application (`app/lib`)

| Component | State | Operations | Hard behaviour | What makes it correct |
|---|---|---|---|---|
| Home page, `PaginaInicial.dart` | cards, WebSocket, timers | events, polling, control, pairing | events and polls overwrite each other; offline timer of 10 s against a heartbeat of 30 s; reconnection after dispose | the card shows the door |
| Session, `LocalService.dart` | stored token and user | login, logout | several phones; a call that is no longer awaited goes on in the backend | only a later login, or the end of the account, ends a session |
| Registration, account and lost password, `PaginaCadastro.dart`, `PaginaConta.dart`, `PaginaEsqueci.dart` | forms | Firebase, Firestore and the backend, one after the other | nothing undoes the first when the second fails | the three agree on the account and on its password |
| Other pages | forms and lists | HTTP calls | none beyond the backend's | they show what the backend last answered |

## 2. The modules

| Module | Kind | Models | Extends / instantiates |
|---|---|---|---|
| `Door` | abstract specification | what `lock.h` promises of the door | |
| `LockDoor` | component | `lock.c` under its callers and the timer daemon | `Door` (refinement) |
| `AudioStream` | component | the three tasks of `audio_stream.c` | |
| `DeviceConfig` | component | `config.c`, RAM and NVS | |
| `Access` | component | owners, invites, accounts in the backend | |
| `Replies` | protocol | pings and configuration updates, backend to device and back | |
| `CommandLog` | protocol | `RECENT_COMMANDS` and the access log, application to device and back | |
| `DeviceStatus` | protocol | lockdowns, heartbeats and events, from the device to its row and to the card of the application | |
| `Voices` | component | `verify_voice`, the voices of users, the passphrase tool | |
| `Accounts` | composition | one account in Firebase, Firestore and the backend, under several phones | |
| `DeviceLife` | composition | start, pairing and its timeout, the two shutdowns, in five tasks and the timer daemon | |
| `LockDoorProofs`, `DeviceConfigProofs`, `RepliesProofs`, `CommandLogProofs`, `DeviceStatusProofs`, `VoicesProofs` | proofs | theorems about the module of the same name | TLAPS |
| `FirmwareProofs` | proofs | theorems about `AudioStream` and about `DeviceLife` | both, TLAPS |
| `UserProofs` | proofs | theorems about `Access` and about `Accounts` | both, TLAPS |
| `MC...` | instances | small constants for TLC, symmetry where there is one | the component |

Operators called "Faulty variant" in a module are not part of its `Next`.  Each is
what a plausible mistake in the code would look like; putting it in the place of the
right action makes the property it is paired with in `PROJECT.json` fail, which shows
that the property depends on that piece of code.

`FirmwareProofs` and `UserProofs` each extend two components that share no name.  For that
reason the specification of `DeviceLife` is `LifeSpec`, with `LifeInit`, `LifeNext` and
`LifeTypeOK`, and that of `Accounts` is `AccountsSpec`.

Variables called *history* are read by no guard.  They name the executions a property
does not cover (a race that the code is known to lose), so that the property says
exactly where the code keeps its promise.  Each is set by the action of the race itself.

### 2.1 `LockDoor` and `Door`

| Model | Code |
|---|---|
| `state`, `mutex`, `timer` | `lock_ctx` (`lock.c:20-28`) |
| `actuator` | `gpio_set_level(LOCK_ACTUATOR_GPIO, ...)` |
| `commands` | the timer daemon's queue behind `xTimerStart` and `xTimerStop` |
| `reported` | the last `mqtt_publish_lock_event` |
| `Command`, `Recognised`, `Touch`, `Untouch` | the calls of `mqtt.c`, `serial.c`, `audio_stream.c`, `main.c` |
| `Unlock...` | `unlock_door`, all of it under the mutex |
| `Lock...` | `lock_door`; after `LockReleases` it runs without the mutex (its *tail*) |
| `TimerExpires` | `lock_timeout_callback`, run by the daemon |

`Client` is the task of `mqtt.c`, which holds the API lock of esp-mqtt while it runs its
event handler.  `HasApiLock` says who has it; a publication (`Publish`) waits for it and may be
refused.  `Crossed` is the one deadlock: a task in `unlock_door` has the mutex and waits for
that lock, and the event handler has that lock and waits for the mutex.

`Door` knows of two things, the logical state and the bolt, and says that the bolt
opens only while the state is UNLOCKED and that a closing which is owed comes.  The
refinement maps a closing that is owed to a thread between `LockReleases` and
`LockCloses`.

### 2.2 `AudioStream`

`queue`, `streaming`, `recording`, `gate` are `audio_stream_queue`, `streaming_enabled`,
`recording_active`, `stream_gate`.  `control`, `vad` and `http` are where
`audio_stream_task`, `vad_task` and `http_stream_task` are.  Testing a flag and setting
it are separate steps.  Each `continue` of `http_stream_task` is an action: no client or
buffer, no small buffer, connection not opened, sent in part, answered.  The blink tasks
are `idle`, `fast`, and `leaked` for a fast blink that no handle names.

### 2.3 `DeviceConfig`

`ram` is the structure `config`; `page` the NVS entries as later reads see them; `flash`
what a loss of power leaves for certain.  A call of `update_config` goes through `Check`,
`Set`, `Copy`, `Commit`, each of which another task or a restart can come after.
`pairing_mode` is the one parameter that is not copied to RAM (`Unmirrored`), and string
parameters are stored under the key as it was typed (`CaseKept`, `Typed`).

A value in `Long` does not fit the field of a parameter in `Narrow`.  It is stored whole;
`strcpy` spoils the fields that `Beyond` names, as does a later copy into one of these
(`Spoiled`); and at the next start `nvs_get_str` has no room for it, so that `Load` takes the
default and stores that.

### 2.4 `Access`

One action per SQL statement, because no handler uses a transaction: `pc` and `call` are
the statement and the request of each handler under way, and `Fail` ends a handler at any
of them.  `owner`, `invites`, `accounts` are tables.  `configured` and `beat` are the
`user_id` in the device and in its heartbeat, whose upsert (`HandleHeartbeat`) writes the
owner whatever it was.  At most one heartbeat of a device is under way; it may be handled
at any later time, so a stale one is covered.

### 2.5 `Replies`

`slot` is `PENDING_PINGS` and `PENDING_CONFIG_UPDATES` at one device, `channel` the
oneshot channel that each request waits on, `control` and `status` the two topics.  A ping
publishes and then registers, an update registers and then publishes.  A publication needs a
place in the channel of the MQTT client: the last `unsent` messages of `control` are in it, and
`Send`, the event loop, is what makes room.  `Handle` takes the
sender it finds, whoever it belongs to.  Commands have QoS 0; answers are published with
QoS 1 and subscribed to with QoS 0 (`mqtt.c:335`, `main.rs:251`), so that they may be
repeated and may be lost.

### 2.6 `CommandLog`

`recent` is `RECENT_COMMANDS` at one device.  Commands are numbered when they are
remembered, and a row of `logs` says which command caused the event and which one it was
put down to.  `Remember` is the end of `control_device`, `control_temp_device` and
`verify_voice`; `Publish` is separate, so two handlers may publish in the other order.
The door moves in one step, since `LockDoor` has the steps.  The recent command is removed
before the row is inserted, and the insertion may fail: `unlogged` is the history of those.

### 2.7 `DeviceStatus`

| Model | Code |
|---|---|
| `power`, `door`, `synced` | the device: running, in `cleanup_halt`, asleep; `lock_ctx.state`; whether SNTP set the clock |
| `Move`, `Heartbeat`, `LockDown`, `LockForHalt`, `Halt`, `PowerOn` | `lock.c`, `mqtt_heartbeat_task`, `cleanup_halt` in its order, `app_main` |
| `lockdown`, `lock` | `devices.locked_down_at` (its age) and `devices.lock_state` |
| `Handle`, `Broadcast` | `handle_mqtt_events` (`mqtt.rs`): first the row, then `tx.send` |
| `link`, `queue`, `lagged` | `websocket_updates` (`main.rs`) and its receiver of the broadcast channel |
| `Connect`, `Deliver`, `Answer`, `FailPoll`, `Overrun` | `_connectWebSocket`, its listener and the poll of `PaginaInicial.dart` |
| `Tick` | time; `Limit` ticks are the 10 s after which a heartbeat clears the lockdown |

Every statement of the backend may fail, and the code goes on after most failures.  The
answers that statements get are the parameter `answers` of `Handle` and `Broadcast`: BOOLEAN
in `Next`, `{TRUE}` in the premise `Healthy`.  `hidden` records that the last update denied a
lockdown that the row has, or was not sent at all.

The race is between the announcement of a lockdown and the heartbeats around it, which
travel from another task and are told apart only by the clock.  The WebSocket
and the poll race for the card: an answer may be older than what it overwrites.

### 2.8 `Accounts`

`firebase`, `profile` and `hashed`, `token` are the three services; `at`, `stored`,
`signed` are the phones.  An operation of the application is one action per call it
makes, and a call to the backend is two: `Check` is the request guard (the token, or
the password of a login), the action of its name is the statement.  `Interrupt` ends an
operation at any point (the application is closed, a service fails) and
leaves a call that was sent under way, or takes it as never received.

### 2.9 `Voices`

A verification goes through `Speak`, `ReadDevice`, `ReadOwner`, `ReadGuests` and `Grant`,
one per statement of `verify_voice`, and the wait for the service; the changes of
`Tables` may come between any two.  `user_ids` and `user_embeddings` are the two vectors
that `verify_voice` builds side by side and indexes with one index.  `ListDevices` and
`SetPassphrase` are the two halves of a run of `add_passphrase`; several may run at once.

### 2.10 `DeviceLife`

| Model | Code |
|---|---|
| `boot`, `Load`, `EnterPairing`, `Connect`, `ConnectFails`, `StartHeartbeat` | `app_main` (`main.c`) and `wifi_init` |
| `server`, `OpenServer` ... `EndPairing` | `start_pairing_server`, `handle_pairing_client`, `parse_configure_request` (`wifi.c`) |
| `Timeout` | `timeout_task` |
| `step`, `goal`, `Announce` ... `Stop` | `cleanup_restart`, `cleanup_halt`, `cleanup` (`system_utils.c`), in any of five tasks |
| `client`, `heartbeat` | `mqtt_client`; the heartbeat task, the state it has read, whether it holds the API lock |
| `Enter`, `Unlock`, `Relock`, `Say` | `unlock_door` and `lock_door`, of the MQTT, serial and touch tasks and the timer daemon: first the state, then the publication |
| `Speak`, `ShutDown`, `Pair` | the other commands of `mqtt.c` and `serial.c`, the touch pads of `main.c` |
| `ReadState`, `SendState`, `EndSending` | one turn of `mqtt_heartbeat_task` |
| `Crash`, `LosePower`, `PowerOn` | a client used after it was destroyed, a task deleted twice; the power |

Both locks are there.  The mutex of the door is held from `Unlock` to its publication
(`MutexFree`); `lock_door` gives it before it publishes, so that a shutdown can find the door
locked by a task that has not reported it yet.  The API lock of the client (`ApiFree`) is held by
the MQTT task while it has a command and by the heartbeat while it publishes.  `Destroy` waits
for it; `DeleteHeartbeat` may delete its holder (`killed`).  `Connect` may end with an
`app_main` that has returned, and `timed` says whether `timeout_task` was created.

A pairing request stands for its three values, so that `stored` says of which request
each parameter in NVS is, and a configuration is `Torn` when the name of the network and
its password come from two requests; `cut` is the history of those that were taken in part.

## 3. The runs

| Run | Expected | Instance | What it shows |
|---|---|---|---|
| `lock` | passes | MQTT, serial, HTTP and touch tasks, a daemon queue of 3, 3 calls | every race of `lock.c` is repaired by the next `lock_door` (`LockedIsSettled`); an unlock that met no tail is complete (`IntactUnlock`); every call returns (`CallsReturn`) and an intact unlock is locked again (`AutoLocks`), unless the two locks are taken crosswise; `Door` is implemented (`DoorSpec`) |
| `lock_timed` | `OpenIsTimed` violated | two command tasks, the queue of 10 of ESP-IDF | the tail of a `lock_door` stops the timer that a later `unlock_door` has started: the door stands open with no auto-lock |
| `audio` | passes | queue of 2 | `streaming_enabled` is always somebody's to clear, and a recording owns the stream (`StreamHasOwner`); the lights come back (`LightsRestored`); the device listens again (`ListensAgain`); each up to the branch it names |
| `config` | passes | two tasks, two fields of which the first can overrun the second, a value that fits and one that does not, failures of open and write, both spellings | a restart at any moment brings back what was acknowledged (`RestartRemembers`), but for values that were cut off or spoiled and the races and failures named by `clean` |
| `access` | passes | two people, one device, two handlers at once, 4 requests, 2 pairings, 2 invites | who gets as far as commanding has a right that descends from a pairing (`CommandsHaveLineage`); unpairing leaves no guests (`UnpairClears`) |
| `access_deleted` | `DeletedHoldsNothing` violated | one of each | the next heartbeat gives the device back to the deleted account |
| `replies` | passes | two updates of two parameters, one ping, one stray answer, a channel of one place | 200 means applied for a request that was alone (`ConfirmedIsApplied`); a parameter is applied only after those before it (`AppliedInOrder`); every request ends, if the event loop makes room again and again (`RequestsEnd`) |
| `log` | passes | 3 commands, 2 other moves, 1 repeated event | the users the log names come in the order of their commands, once each, and never for what was asked after their last one (`CreditsGoForward`); why an event is anonymous (`AnonymousIsExplained`) |
| `status` | passes | 10 s of 2 ticks, messages up to 1 tick late, a channel of 1, one move, one lockdown | no heartbeat of before the halt clears a lockdown (`LockdownHolds`), and one of after the restart does, if the backend is heard from (`LockdownLifts`); with nothing waiting the card is the last update, and agrees with the row (`CardIsCurrent`); whatever was lost or failed before, the card catches up (`CardCatchesUp`) |
| `accounts` | passes | two phones, 3 passwords, 3 logins, one call left behind | Firebase and the backend have one password (`PasswordsAgree`), the account is in all services or in none (`AccountsAgree`), each up to a flow cut short; a session ends only by a later one or with the account (`SessionsAreSuperseded`) |
| `voices` | passes | two users, two persons, 2 passphrases, 2 runs of the tool, 4 changes | who is let in spoke and had a right since the request came (`NamedSpoke`); who stays entitled is heard (`EntitledIsHeard`); a proven passphrase stays (`ProvenKeyStays`) |
| `life` | passes | 2 pairing requests, 2 commands, one heartbeat per start, one failure, one loss of power | a pairing that was answered is stored (`AnsweredIsStored`); a device that stops is locked and has said so (`StoppedIsLocked`); a lockdown ends asleep (`LockdownSleeps`); the device comes back (`ComesBack`); each up to the exceptions that the property names |

### Bounds

- `LockDoor`: three calls are two that race and one that repairs or is hit; with the daemon
  as fourth thread that is every pair of operations in every order.  The daemon's queue is
  shorter than in ESP-IDF so that it fills; `lock_timed` keeps the real length, so that the
  counterexample does not come from a full queue.
- `AudioStream`: no bound but the queue; two commands fill it.
- `DeviceConfig`: no bound on calls, failures or restarts; two values, one that fits
  and one that does not, suffice since code and properties only compare them, and two tasks
  since a race has two sides.  `pairing_mode` is not in the instance: no field of RAM is
  written for it, and the theorems hold for every `Unmirrored`.
- `Access`: two people who can each be owner and guest, and two handlers, which is what
  every race of statements takes.  Four requests let a device be shared, accepted, unpaired
  and commanded; two pairings let it change hands.  Symmetry over people and over handlers.
- `Replies`: two updates race for the slot or follow each other after a timeout; two
  parameters make an order.  The ping shares the topics but no slot; with a second ping the
  state space is past what a run should take, and pings race like updates of one parameter.
  Every request is made once.  A channel of one place is full after one message, where the real
  one is after ten.
- `CommandLog`: three commands let one be overtaken, one used up and one kept.
- `DeviceStatus`: two ticks with a delay of one separate a heartbeat that is late from one
  that comes after the 10 s; a channel of one place overflows with two updates; one lockdown
  and one move make every order of event, announcement and heartbeat.  Starts, losses,
  connections and polls are not bounded.
- `Accounts`: two phones overlap, and a call that one of them has left behind makes a third
  actor; three passwords are the first and two that cross; three logins supersede each other.
- `Voices`: an owner and a guest, of whom one may be given the other's voice; two runs of the
  tool write over each other; four changes during one verification are one between every two
  of its steps.  Verifications are not bounded.
- `DeviceLife`: two requests make the two halves of a torn configuration; two commands are
  two shutdowns that meet, or a shutdown and an unlock; one failure and one loss of power hit
  any step.  One heartbeat per start can be at any of its places when it is deleted; that there
  are not infinitely many also keeps the lock of the client from being taken, again and again,
  ahead of a task that waits for it.  Each exception of the properties was checked to be
  needed: without it TLC finds a counterexample in this instance.

`CHECK_DEADLOCK FALSE` is set where the bounds, or requests that are made once, let the
system stop: `lock`, `lock_timed`, `replies`, `log`, `accounts`, `life` (a device that is
asleep stays so when no power may be lost any more).

### Fairness

- `LockDoor`: weak fairness of every thread that can run (FreeRTOS schedules every ready
  task, and the tasks above it sleep), strong fairness of the waits for the mutex and for the
  API lock (their waiters are queued), weak fairness of the daemon and of the running timer.
  None for commands and touches.
- `AudioStream`: weak fairness of each of the three tasks; the codec delivers samples and the
  HTTP client has a timeout.  None for speech and commands.
- `Replies`: weak fairness of each request's own steps, the timeout among them.  None for the
  device, the broker or the event handler: `RequestsEnd` holds with all messages lost.  It has
  the premise that the channel of the MQTT client has room again and again, since nothing
  limits the wait for it: with the broker away for good a request need not end.
- `DeviceStatus`: weak fairness of time, of the heartbeats and of the steps of a halt, of the
  backend's loop and handlers, of the application's own steps.  A message is handled or lost
  (`Handle \/ Lose`): none has to arrive.  None for moves, lockdowns, restarts and lost
  connections.  What the code does not give is in the premises of the properties: messages go
  on being handled (`Heard`, which fails after a reconnection of the backend, `main.rs:250`),
  statements stop failing (`Healthy`), and, for `CardCatchesUp`, the socket stays open.
- `DeviceLife`: weak fairness of every task that can run, the timeout and the steps of a
  shutdown among them, but not of the use of a client that was destroyed, which may wait for
  ever; strong fairness of `Connect` with the configuration of a network that exists, which is
  there again and again though not always within 30 s.  None for phones,
  commands, fingers or the power.
- The others state safety only, and no fairness.

## 4. What is proved

TLAPS proves the following for every value of the constants.

| Module | Theorem | Property |
|---|---|---|
| `LockDoorProofs` | `TypeCorrect`, `LockedSettles`, `IntactUnlocks` | `TypeOK`, `LockedIsSettled`, `IntactUnlock` |
| | `OpenExplained` | `OpenIsExplained`: an open bolt on a locked door is about to close |
| | `ImplementsDoor` | every step of `LockDoor` is a step of `Door` or leaves it alone |
| `FirmwareProofs`, `AudioStream` | `TypeCorrect`, `StreamIsAlwaysOwned`, `LightsAreRestored` | `TypeOK`, `StreamHasOwner`, `LightsRestored` |
| `FirmwareProofs`, `DeviceLife` | `LifeTypeCorrect`, `AnsweredIsAlwaysStored`, `StoppedIsAlwaysLocked` | `LifeTypeOK`, `AnsweredIsStored`, `StoppedIsLocked` |
| | `ClientIsNeverMisused` | `ClientIsUnused`: after a shutdown that met no other, only a task that was about to publish in a call of `lock.c` or a command (`Straggling`) can use the client it destroyed |
| | `LockdownIsAlwaysKept` | `LockdownIsKept`: no step, and no crash, turns such a lockdown, with no straggler beside it, into a restart |
| `DeviceConfigProofs` | `TypeCorrect`, `RestartIsFaithful` | `TypeOK`, `RestartRemembers` |
| | `StoredIsRemembered` | `MemoryIsStored`: a clean parameter is the same in RAM, entry and flash, whatever other fields were overrun |
| `UserProofs`, `Access` | `TypeCorrect`, `CommandsDescend`, `UnpairingClears` | `TypeOK`, `CommandsHaveLineage`, `UnpairClears` |
| `UserProofs`, `Accounts` | `AccountsTypeCorrect`, `PasswordsAlwaysAgree`, `AccountsAlwaysAgree`, `SessionsEndByLater` | `AccountsTypeOK`, `PasswordsAgree`, `AccountsAgree`, `SessionsAreSuperseded` |
| `RepliesProofs` | `TypeCorrect`, `ConfirmedIsAlwaysApplied`, `AlwaysAppliedInOrder` | `TypeOK`, `ConfirmedIsApplied`, `AppliedInOrder` |
| `CommandLogProofs` | `TypeCorrect`, `CreditsAlwaysGoForward`, `AnonymityIsExplained` | `TypeOK`, `CreditsGoForward`, `AnonymousIsExplained` |
| `DeviceStatusProofs` | `TypeCorrect`, `LockdownAlwaysHolds`, `CardIsAlwaysCurrent` | `TypeOK`, `LockdownHolds`, `CardIsCurrent` |
| `VoicesProofs` | `TypeCorrect`, `NamedAlwaysSpoke`, `EntitledIsAlwaysHeard`, `ProvenKeyAlwaysStays` | `TypeOK`, `NamedSpoke`, `EntitledIsHeard`, `ProvenKeyStays` |

Assumptions: those that the modules state of their constants (the kinds of tasks are
disjoint, the names of "nobody" are nobody's, bounds are natural numbers, the users are
finitely many, a message is handled before the 10 s are over).

Inductive invariants, and why they are needed:

- `LockDoor`: the properties speak of a lock at rest, so the invariant says what holds at
  every label: the holder of the mutex is the one thread in a critical section
  (`MutexHeld`), the state is the one that thread found or wrote (`StateHeld`), and an
  intact unlock has done what it has got to (`IntactSteps`).
- `AudioStream`: who has still to clear `streaming_enabled`, by place of each task; that a
  second trigger is recorded as a race (`OneTrigger`); and which lights go with each place
  (`LightsFollow`).
- `DeviceConfig`: a clean parameter is either being stored by one task alone, whose value
  its entry already holds, or at rest, equal in its three places (`CleanIsKept`), and its value
  fits its field.
- `Access`: `CommandsHaveLineage` speaks of a handler about to publish, but its reasons are
  in the tables: every owner is recorded as one (`OwnersRecorded`), every invite has a sender
  who owned the device (`InvitesHaveOwners`), an accepted invite was consented to
  (`AcceptedIsConsented`), and a handler that creates one has looked (`CreatorsOwned`).
  `UnpairClears` needs that no handler is creating an invite to a released device
  (`NoneCreating`).
- `Replies`: a confirmation names no request, so it can only be known for the request's own
  by what travels: before the command of an update that runs alone nothing of its kind does,
  and after it at most that command or its one answer (`Undisturbed`).  `ObeyedSoFar` counts
  the parameters that the device has obeyed.
- `CommandLog`: what is remembered is the last command and has not been used
  (`RecentIsLast`, `RecentIsUnused`), nothing under way is of a command to come
  (`CausesArePast`), and the last command is remembered, forgotten, used, or removed for a row
  that was not inserted (`LastIsAccounted`).
- `DeviceStatus`: until the last lockdown is recorded its announcement is at least as old as
  every heartbeat that is under way (`HeartbeatsAreOlder`), and from then on the record is
  younger than the 10 s while one of them may still come (`RecordIsYoung`).  For the card:
  the last update sent is the last one waiting or what is shown (`LastIsShown`), and one that
  does not deny a lockdown says what the row says (`UpdateIsTrue`).
- `Voices`: what has been read is in the history of the verification
  (`CandidatesAreKnown`), which keeps up with the tables (`HistoryIsCurrent`); who has been
  entitled all along is a candidate or will be read (`EntitledIsCandidate`); a run of the tool
  that is under way on a device with a passphrase is recorded as a race (`RaceIsKnown`).
- `DeviceLife`: the type of `failed` already needs that what is written is of a request
  (`WritesARequest`).  An answer is of the last request, which is stored as far as the server
  has come with it (`RequestIsStored`).  A locked door was reported as locked, or somebody has yet to
  report it, or the report is outdated (`ReportIsTrue`); since `lock_door` reports after it has
  given the mutex, that needs that a task which holds it to report an unlocking has an open
  door (`OpenWhileHeld`), and that past its locking a shutdown has a locked one
  (`LockedBehind`).  `LockdownIsKept` needs that a shutdown which met no other is alone
  (`OneShutdown`), has deleted the heartbeat (`HeartbeatIsOver`), and is itself about to clear
  the client that it destroyed (`FreedIsCleared`), which it could not destroy before the command
  of the MQTT task was over (`CommandIsOver`).
- `Accounts`: a phone that waits has one call, of the operation it waits for (`CallsFit`).
  There is one registration (`OneRegistration`), during which nobody else gets further than
  asking to log in (`SigningUp`).  Whoever has got further found an account in the backend,
  which goes after that of Firebase (`AccountKnown`, `DeletedFirst`).  For the passwords: a
  change that nobody waits for is in doubt (`LeftInDoubt`), and one that has met no other is
  the only one, with the password that Firebase has (`AloneIsAlone`).  For the account: what
  one service has and another has not is somebody's to finish, unless it was cut short
  (`Unfinished`).

Only model-checked: the liveness properties (`CallsReturn`, `AutoLocks`, `ListensAgain`,
`RequestsEnd`, `LockdownLifts`, `CardCatchesUp`, `LockdownSleeps`, `ComesBack`) and the
fairness of `Door`, since liveness under fairness and `ENABLED` are beyond the prover.  Every
safety property of a run that passes is a theorem.  The conjuncts of the inductive invariants
were model-checked on the instances of the runs before they were proved.  No module declares
a RECURSIVE operator.

## 5. Divergences

Two runs are expected to fail; `PROJECT.json` quotes, for each, what the repository says
and the line that does otherwise.  Others were met while modelling.  They are part of the
model where it has the code, kept out of the properties by the history variables, or noted
here only.

The lock, the voice and the device:

- the tail of `lock_door` also drives the actuator low, and reports LOCKED, on a door that an
  `unlock_door` has opened since (`lock.c:116-124`);
- `unlock_door` publishes with the mutex held (`lock.c:82`), a publication waits for the API
  lock of esp-mqtt (`mqtt.c:411`), and the MQTT task has that lock while its event handler waits
  for the mutex (`mqtt.c:71-73`): a touch, a voice or the console against a command of the
  backend can stop both tasks for ever, the door open and its timer never started, against "sem
  condições de corrida ou deadlocks" (`Embedded.md:341-342`).  `CallsReturn` and `AutoLocks` name
  this deadlock as their exception (`Crossed`), and show that `lock.c` has no other;
- after a loss of power, `lock_door` of an immediate LOCKDOWN finds the door locked and
  publishes no event, so the last one that was published may still say UNLOCKED;
- a connection that cannot be opened leaves the fast blink running and the idle one
  suspended (`audio_stream.c:313-319`);
- a recording whose buffer cannot be allocated leaves `streaming_enabled` set, and the device
  is deaf until it is restarted (`audio_stream.c:286`);
- a STOP obeyed before `recording_active` is set is lost (`audio_stream.c:275`);
- after a failed commit the same update is acknowledged on a second try, though nothing
  commits it (`config.c:398-402`);
- a key typed in another case is accepted and stored under that spelling, which the next
  start does not read (`config.c:355`);
- `pairing_mode` is stored and not copied to RAM, against `config.h:51`: 1 and then 0 is
  acknowledged and not stored (`config.c:341-343`), and PAIR, given to a device in pairing
  mode, restarts it out of that mode;
- no length is checked: a string longer than its field is stored and acknowledged, overruns
  RAM, and at the next start is too long to be read and replaced by the default
  (`config.c:357-368`, `config.c:41-50`); a pairing request with a name of 32 bytes is answered
  200 and stored with 31 (`wifi.c:394-404`);
- two shutdowns that overlap can turn a lockdown into a restart, by the goal of the quicker
  one or by a crash: on the client that the other destroyed (`system_utils.c:30`), or by deleting
  the heartbeat a second time (`system_utils.c:24`).  A task that is about to publish in a call
  of `lock.c` or after a command can use the destroyed client too (`lock.c:124`,
  `config.c:379-403`);
- a heartbeat that is deleted while it publishes keeps the API lock, and the shutdown that
  deleted it waits for ever (`system_utils.c:24-30`);
- the last report of a device that stops can be UNLOCKED although it was locked: the task that
  locked it published too late, or the heartbeat had read the state before (`lock.c:114-124`);
- `app_main` returns, and never restarts, when the audio board cannot be set up
  (`main.c:186-191`); whether `timeout_task` could be created is not looked at (`wifi.c:285`);
- a pairing server without a socket returns, and the device sleeps though nobody locked it
  down (`main.c`); a configuration of two lines is accepted with the name of the network as
  its password, and of one that comes in several segments only the first is taken (`wifi.c`).

Rights, voices and accounts:

- the next heartbeat undoes an unpairing, as it does a deletion (`mqtt.rs:119`); pairing a
  device with somebody else leaves the invites of the one before, since the application's
  pairing page never calls `register_device`, which anybody may call for any device: who has
  been an owner, in the history of `Access`, includes who was registered in that way;
- the right to command is checked some statements before the command is published, and may be
  withdrawn in between (`device.rs:663`);
- two `create_invite` at once make two pending invites (`invite.rs:146`);
- `verify_voice` may combine a right and a voice that the user held at different moments, and
  `add_passphrase` writes over a passphrase that was set while its list was shown
  (`add_passphrase.rs:84`);
- `logout` compares the token with `firebase_uid`, so no session ends by it (`user.rs:134`);
  a login without "manter conectado" wipes what the phone stores, and its session stays open;
- a password reset by mail, or a change whose second call fails, leaves the backend with the
  old password; the deletion of an account removes log rows by `user_id` only.

Answers, log and cards:

- an answer that comes after the timeout, or one that is repeated, confirms the next request
  of its kind, which the device may not have obeyed (`device.rs:301`, `mqtt.rs:194-200`);
- a ping publishes before it registers, so a quick answer is lost (`device.rs:465-476`); the
  publication waits for room in the client's channel with no time limit (`device.rs:295`, 465);
- the failure of INSERT INTO logs is ignored, with the recent command already removed: the next
  event of the command is anonymous (`mqtt.rs:295-304`);
- any event within 5 s of a command is credited to its author, the auto-lock and the touch
  pads included (`mqtt.rs:276-292`, against `device.rs:85`);
- the update for a heartbeat says that there is no lockdown, whatever the row says
  (`mqtt.rs:144`), and is sent if the upsert failed too (`mqtt.rs:118`); a failed SELECT of
  `locked_down_at` is taken for no lockdown (`mqtt.rs:363-371`); guests whose invite has expired still get updates (`mqtt.rs:163`);
- a card goes offline 10 s after a heartbeat, and heartbeats are 30 s apart
  (`PaginaInicial.dart:133`); a poll sets a card online and starts no timer;
- the backend subscribes once, with a clean session: after a reconnection to the broker it
  receives nothing (`main.rs:250`).  Hence the premise `Heard` of what `DeviceStatus` promises.

## 6. What is not modelled

- Numerical and textual work: samples and their RMS, the embedding service and its scores,
  CBOR and JSON, the text of a pairing request, password hashes.
- Read-only handlers other than `get_devices`, which run one SELECT after the checks that
  `Access` has; `update_phone`, which writes one column that nothing else reads; the monthly
  deletion of log rows; notifications, which are read from the log.
- The access point, its DNS and the Wi-Fi driver, beyond a connection that comes or a restart;
  connection events and TLS of the MQTT client; the line editing of the console.
- FreeRTOS, esp-mqtt, NVS, the broker, Firebase and PostgreSQL beyond what their callers rely
  on; each assumption is at the head of the module that makes it, and marked external in
  `PROJECT.json` where it is an action.
- Weak memory: the flags of `audio_stream.c` are `volatile` booleans on which each access is
  taken to be one step.

Assumptions that narrow a module, beyond those its constants state:

- `LockDoor`, `DeviceLife`: that esp-mqtt's API lock is taken by publications and by the
  destruction of the client, and is held during its event handler, is a fact about esp-mqtt,
  whose source is not in the repository.  The tasks other than the heartbeat and the MQTT task
  hold it for one step in `DeviceLife`.
- `DeviceConfig`: an overrun reaches the fields that `Beyond` names; that of `device_id`, which
  no command sets, and anything behind the structure are left out.
- `DeviceStatus`: heartbeats are enabled, and the device halts within a tick; other
  messages of the same user's channel are left out, which only make it overflow sooner.
- `Voices`: one verification at a time, and its outcome is looked at before the tables change
  again; a service that does not fail recognises the speaker among the candidates.
- `Accounts`: an account is registered once; a statement that fails is a call never received.
- `DeviceLife`: `update_config` and a move of the door are one step (`DeviceConfig` and
  `LockDoor` have their steps); the network of a complete configuration exists, unless its
  request was cut; a start that ESP_ERROR_CHECK aborts is one that has yet to come; Wi-Fi parameters typed at the console, and FLASH, are left out; a
  voice that unlocks stands with the commands of the serial task.

## 7. Plan

Done, in the order in which they were written: `Door`, `LockDoor`, `AudioStream`,
`DeviceConfig`, `Access`, `Replies`, `CommandLog`, `DeviceStatus`, `Accounts`, `Voices`,
`DeviceLife`, and proofs of every safety property of their runs.  What is left:

1. `LockDoor` composed with `DeviceConfig`, for the period of the auto-lock, which is read
   once (`lock.c:89`).
2. The commands of `Access` feeding `CommandLog`, so that a named user also had the right.
