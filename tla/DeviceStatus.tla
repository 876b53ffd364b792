---------------------------- MODULE DeviceStatus ----------------------------
(***************************************************************************)
(* What the owner is shown of his device: from the device's messages to    *)
(* its row in the table devices, and from there to the card of the         *)
(* application, by the WebSocket and by polling.                           *)
(*                                                                         *)
(* The row says when the device locked itself down; a heartbeat that comes *)
(* 10 s after that clears it, for the device must have been started again. *)
(* Time passes in ticks, Limit of which are those 10 s.  What matters of a *)
(* time is its age, and ages are not counted past Limit.                   *)
(*                                                                         *)
(* Every statement of the backend may fail, and most failures are ignored:  *)
(* the answers that its statements can get are a parameter, BOOLEAN in Next.*)
(*                                                                         *)
(* Assumptions.  A message is handled MaxDelay ticks after it was sent or  *)
(* is lost; heartbeats are further apart than that, so that one at most is *)
(* under way; the device needs less than a tick to halt.  Its clock is the *)
(* backend's, unless SNTP has failed: then it starts in 1970.  Messages    *)
(* that are sent twice are in CommandLog, the door's steps in LockDoor.    *)
(*                                                                         *)
(* One application with one card is shown; the duplicates of its           *)
(* connection that a refused one leaves behind are left out.               *)
(***************************************************************************)
EXTENDS Naturals, Sequences

CONSTANTS
    Null,
    Limit,      \* ticks after which a heartbeat clears the lockdown
    MaxDelay,   \* bound on the age of a message that is handled
    Capacity,   \* length of the channel of a WebSocket
    MaxMoves,   \* bound on the moves of the door
    MaxHalts    \* bound on the lockdowns

ASSUME DelayAssumption == Limit \in Nat /\ MaxDelay \in Nat /\ MaxDelay < Limit
ASSUME BoundsAssumption ==
    /\ {MaxMoves, MaxHalts} \subseteq Nat
    /\ Capacity \in Nat \ {0}

VARIABLES
    power,     \* where the device is between two starts
    door,      \* lock_ctx.state
    synced,    \* the device's clock was set by SNTP
    moves, halts,
    status,    \* the topic status
    lockdown,  \* devices.locked_down_at: its age
    lock,      \* devices.lock_state
    update,    \* what handle_mqtt_events is about to broadcast
    link,      \* the WebSocket
    queue,     \* its receiver of the user's broadcast
    lagged,    \* updates were dropped from it
    asked,     \* a request GET /devices is under way
    poll,      \* its answer
    card,      \* what the application shows
    recorded,  \* history: the lockdown that locked_down_at is of
    hidden,    \* history: the last update denied a lockdown of the row, or was
               \* not sent
    latest     \* history: the last update sent since the connection or a poll

device  == <<power, door, synced, moves, halts>>
row     == <<lockdown, lock, recorded>>
backend == <<row, update, hidden>>
socket  == <<link, queue, lagged, latest>>
app     == <<asked, poll, card>>
vars    == <<device, status, backend, socket, app>>

Doors == {"LOCKED", "UNLOCKED"}
Ages  == 0..Limit

Messages ==
    [kind : {"heartbeat", "event", "locking_down"}, lock : Doors,
     age : 0..MaxDelay, dated : BOOLEAN, halt : 0..MaxHalts]

Message(kind, state) ==
    [kind |-> kind, lock |-> state, age |-> 0, dated |-> synced, halt |-> halts']

(* A card, an update and a polled row say the same two things. *)
Shown == [unlocked : BOOLEAN, lockdown : BOOLEAN]
Show(state, locked) == [unlocked |-> state = "UNLOCKED", lockdown |-> locked]

ASSUME NullAssumption == Null \notin Nat /\ Null \notin Shown

TypeOK ==
    /\ power \in {"on", "locking", "stopping", "off"}
    /\ door \in Doors
    /\ synced \in BOOLEAN
    /\ moves \in 0..MaxMoves /\ halts \in 0..MaxHalts
    /\ status \in Seq(Messages)
    /\ lockdown \in Ages \cup {Null}
    /\ lock \in Doors
    /\ update \in Shown \cup {Null}
    /\ link \in {"waiting", "connecting", "open"}
    /\ queue \in Seq(Shown) /\ Len(queue) <= Capacity
    /\ lagged \in BOOLEAN
    /\ asked \in BOOLEAN
    /\ poll \in Shown \cup {Null}
    /\ card \in Shown
    /\ recorded \in 0..MaxHalts
    /\ hidden \in BOOLEAN
    /\ latest \in Shown \cup {Null}

(* The device runs, has been heard, and the page is being opened. *)
Init ==
    /\ power = "on" /\ door = "LOCKED" /\ synced \in BOOLEAN
    /\ moves = 0 /\ halts = 0 /\ status = <<>>
    /\ lockdown = Null /\ lock = "LOCKED" /\ update = Null
    /\ link = "waiting" /\ queue = <<>> /\ lagged = FALSE
    /\ asked = FALSE /\ poll = Null /\ card = Show("LOCKED", FALSE)
    /\ recorded = 0 /\ hidden = FALSE /\ latest = Null

-----------------------------------------------------------------------------
(* The device. *)

Publish(kind, state) == status' = Append(status, Message(kind, state))

(* unlock_door and lock_door; a halt does not keep other tasks from them. *)
Move ==
    /\ power # "off"
    /\ moves < MaxMoves
    /\ moves' = moves + 1
    /\ door' \in Doors \ {door}
    /\ UNCHANGED <<power, synced, halts>>
    /\ Publish("event", door')
    /\ UNCHANGED <<backend, socket, app>>

(* mqtt_heartbeat_task, which goes on until cleanup deletes it. *)
Heartbeat ==
    /\ power # "off"
    /\ \A i \in DOMAIN status : status[i].kind # "heartbeat"
    /\ UNCHANGED device
    /\ Publish("heartbeat", door)
    /\ UNCHANGED <<backend, socket, app>>

(* cleanup_halt: first it says so, ... *)
LockDown ==
    /\ power = "on"
    /\ halts < MaxHalts
    /\ power' = "locking"
    /\ halts' = halts + 1
    /\ UNCHANGED <<door, synced, moves>>
    /\ Publish("locking_down", "LOCKED")
    /\ UNCHANGED <<backend, socket, app>>

(* ... then it locks the door, which is an event unless it was locked, ... *)
LockForHalt ==
    /\ power = "locking"
    /\ power' = "stopping"
    /\ door' = "LOCKED"
    /\ UNCHANGED <<synced, moves, halts>>
    /\ IF door = "LOCKED" THEN UNCHANGED status ELSE Publish("event", door')
    /\ UNCHANGED <<backend, socket, app>>

(* ... stops the heartbeats and the client, and sleeps for ever. *)
Halt ==
    /\ power = "stopping"
    /\ power' = "off"
    /\ UNCHANGED <<door, synced, moves, halts, status, backend, socket, app>>

(* Somebody turns it off and on; app_main waits 15 s at most for SNTP. *)
PowerOn ==
    /\ power = "off"
    /\ power' = "on"
    /\ door' = "LOCKED"
    /\ synced' \in BOOLEAN
    /\ UNCHANGED <<moves, halts, status, backend, socket, app>>

-----------------------------------------------------------------------------
(* The backend. *)

(* What each message does to the row, and what is broadcast of it. *)

(* Faulty variant: a heartbeat is stored and not broadcast. *)
HeartbeatIsQuiet(m, answers) ==
    /\ m.kind = "heartbeat"
    /\ lock' = m.lock
    /\ lockdown' = IF lockdown = Limit THEN Null ELSE lockdown
    /\ UNCHANGED <<recorded, hidden, update>>

(* Faulty variant: no heartbeat clears the lockdown. *)
HeartbeatKeeps(m, answers) ==
    /\ m.kind = "heartbeat"
    /\ lock' = m.lock
    /\ hidden' = (lockdown # Null)
    /\ update' = Show(m.lock, FALSE)
    /\ UNCHANGED <<lockdown, recorded>>

(* A lockdown that could not be read is kept; what could not be written is *)
(* broadcast all the same.                                                 *)
HandleHeartbeat(m, answers) ==
    /\ m.kind = "heartbeat"
    /\ \E read, written \in answers :
         /\ lock' = IF written THEN m.lock ELSE lock
         /\ lockdown' = IF read /\ written /\ lockdown = Limit THEN Null ELSE lockdown
    /\ hidden' = (lockdown' # Null)
    /\ update' = Show(m.lock, FALSE)
    /\ UNCHANGED recorded

(* Faulty variant: the seconds of the device are taken for milliseconds. *)
LockingDownInSeconds(m, answers) ==
    /\ m.kind = "locking_down"
    /\ lockdown' = Limit
    /\ recorded' = m.halt
    /\ hidden' = FALSE
    /\ update' = Show("LOCKED", TRUE)
    /\ UNCHANGED lock

(* Faulty variant: it is broadcast whether or not it was written. *)
LockingDownRegardless(m, answers) ==
    /\ m.kind = "locking_down"
    /\ \E written \in answers :
         IF written
         THEN /\ lockdown' = IF m.dated THEN m.age ELSE Limit
              /\ recorded' = m.halt
              /\ UNCHANGED lock
         ELSE UNCHANGED row
    /\ hidden' = FALSE
    /\ update' = Show("LOCKED", TRUE)

(* The timestamp is the device's: a clock that was not set is long past.   *)
(* What could not be written is not broadcast.                             *)
HandleLockingDown(m, answers) ==
    /\ m.kind = "locking_down"
    /\ \E written \in answers :
         IF written
         THEN /\ lockdown' = IF m.dated THEN m.age ELSE Limit
              /\ recorded' = m.halt
              /\ hidden' = FALSE
              /\ update' = Show("LOCKED", TRUE)
              /\ UNCHANGED lock
         ELSE UNCHANGED <<row, update, hidden>>

(* The statement that should write lock_state fails (mqtt.rs:356-360).  A  *)
(* lockdown that could not be read is taken for none.                      *)
HandleEvent(m, answers) ==
    /\ m.kind = "event"
    /\ \E read \in answers :
         /\ hidden' = (~read /\ lockdown # Null)
         /\ update' = Show(m.lock, read /\ lockdown # Null)
    /\ UNCHANGED row

(* One message at a time: the loop polls again when it has broadcast. *)
Handle(answers) ==
    /\ update = Null
    /\ status # <<>>
    /\ status' = Tail(status)
    /\ \/ HandleHeartbeat(Head(status), answers)
       \/ HandleLockingDown(Head(status), answers)
       \/ HandleEvent(Head(status), answers)
    /\ UNCHANGED <<device, socket, app>>

(* Faulty variant: the channel has no capacity to exceed. *)
BroadcastUnbounded(answers) ==
    /\ update # Null
    /\ update' = Null
    /\ IF link # "open"
       THEN UNCHANGED <<queue, lagged, latest>>
       ELSE /\ latest' = update
            /\ queue' = Append(queue, update)
            /\ UNCHANGED lagged
    /\ UNCHANGED <<device, status, row, hidden, link, app>>

(* tx.send: a full channel drops its oldest update, and remembers it. *)
Send ==
    /\ UNCHANGED hidden
    /\ IF link # "open"
       THEN UNCHANGED <<queue, lagged, latest>>
       ELSE /\ latest' = update
            /\ lagged' = (lagged \/ Len(queue) = Capacity)
            /\ queue' = IF Len(queue) = Capacity
                        THEN Append(Tail(queue), update)
                        ELSE Append(queue, update)

(* Who is to be told is looked up; when that fails nobody is. *)
Broadcast(answers) ==
    /\ update # Null
    /\ update' = Null
    /\ \E found \in answers :
         IF found THEN Send ELSE hidden' = TRUE /\ UNCHANGED <<queue, lagged, latest>>
    /\ UNCHANGED <<device, status, row, link, app>>

(* The subscription has QoS 0.  It is made once, in a clean session: when   *)
(* the backend has connected again, everything is lost.                     *)
Lose ==
    /\ status # <<>>
    /\ status' = Tail(status)
    /\ UNCHANGED <<device, backend, socket, app>>

(* get_devices reads the row. *)
Serve ==
    /\ asked
    /\ asked' = FALSE
    /\ poll' = Show(lock, lockdown # Null)
    /\ UNCHANGED <<device, status, backend, socket, card>>

(* websocket_updates subscribes. *)
Accept ==
    /\ link = "connecting"
    /\ link' = "open"
    /\ UNCHANGED <<device, status, backend, queue, lagged, latest, app>>

Older(m) == [m EXCEPT !.age = m.age + 1]

(* A message that has to be handled, and a device about to halt, come first. *)
Tick ==
    /\ power \in {"on", "off"}
    /\ \A i \in DOMAIN status : status[i].age < MaxDelay
    /\ status' = [i \in DOMAIN status |-> Older(status[i])]
    /\ lockdown' = IF lockdown \in {Null, Limit} THEN lockdown ELSE lockdown + 1
    /\ UNCHANGED <<device, lock, recorded, update, hidden, socket, app>>

-----------------------------------------------------------------------------
(* The application. *)

(* _connectWebSocket, which ends with a poll. *)
Connect ==
    /\ link = "waiting"
    /\ link' = "connecting"
    /\ asked' = TRUE
    /\ UNCHANGED <<device, status, backend, queue, lagged, latest, poll, card>>

(* The stream is done: onDone connects again in 5 s. *)
Close ==
    /\ link' = "waiting"
    /\ queue' = <<>> /\ lagged' = FALSE /\ latest' = Null

(* A connection is refused or breaks, or the backend starts again. *)
Drop ==
    /\ link \in {"connecting", "open"}
    /\ Close
    /\ UNCHANGED <<device, status, backend, asked, poll, card>>

(* rx.recv says that updates were lost: the socket is closed. *)
Overrun ==
    /\ link = "open"
    /\ lagged
    /\ Close
    /\ UNCHANGED <<device, status, backend, app>>

Deliver ==
    /\ link = "open"
    /\ ~lagged
    /\ queue # <<>>
    /\ card' = Head(queue)
    /\ queue' = Tail(queue)
    /\ UNCHANGED <<device, status, backend, link, lagged, latest, asked, poll>>

(* The answer overwrites the card; it may be older than what it overwrites. *)
Answer ==
    /\ poll \in Shown
    /\ card' = poll
    /\ poll' = Null
    /\ latest' = Null
    /\ UNCHANGED <<device, status, backend, link, queue, lagged, asked>>

(* A poll that fails is ignored. *)
FailPoll ==
    /\ asked \/ poll # Null
    /\ asked' = FALSE
    /\ poll' = Null
    /\ UNCHANGED <<device, status, backend, socket, card>>

-----------------------------------------------------------------------------
DeviceNext == Move \/ Heartbeat \/ LockDown \/ LockForHalt \/ Halt \/ PowerOn
BackendNext == Handle(BOOLEAN) \/ Broadcast(BOOLEAN) \/ Lose \/ Serve \/ Accept \/ Tick
AppNext == Connect \/ Drop \/ Overrun \/ Deliver \/ Answer \/ FailPoll

Next == DeviceNext \/ BackendNext \/ AppNext

(* Time passes, a device that runs sends heartbeats, the backend and the    *)
(* application do their own steps.  A message arrives or is lost: none has  *)
(* to arrive.  Nobody has to move the door, lock the device down or turn it *)
(* on again.                                                                *)
Fairness ==
    /\ WF_vars(Heartbeat) /\ WF_vars(LockForHalt) /\ WF_vars(Halt)
    /\ WF_vars(Handle(BOOLEAN) \/ Lose) /\ WF_vars(Broadcast(BOOLEAN)) /\ WF_vars(Tick)
    /\ WF_vars(Serve) /\ WF_vars(Accept)
    /\ WF_vars(Connect) /\ WF_vars(Overrun) /\ WF_vars(Deliver)
    /\ WF_vars(Answer \/ FailPoll)

Spec == Init /\ [][Next]_vars /\ Fairness

-----------------------------------------------------------------------------
(* A device that has locked itself down stays locked down in its row until  *)
(* it is started again: no heartbeat that was still under way clears it.    *)
(* It holds as long as messages take less than the 10 s (DelayAssumption)   *)
(* and the device's clock was set.                                          *)
LockdownHolds ==
    power = "off" /\ synced /\ recorded = halts /\ halts > 0 => lockdown # Null

(* Messages go on arriving, which needs more than the backend does: it      *)
(* hears nothing after it has connected to the broker again.                *)
Heard == []<><<Handle(BOOLEAN)>>_vars

(* From some time on, what the statements do is what they do when none of   *)
(* them fails.                                                              *)
Healthy ==
    <>[][/\ Handle(BOOLEAN) => Handle({TRUE})
         /\ Broadcast(BOOLEAN) => Broadcast({TRUE})]_vars

(* While the backend is heard from and its database answers: a device that  *)
(* was started again and stays on is some day no longer locked down in its  *)
(* row, whenever the first heartbeats came, and whichever were lost.        *)
LockdownLifts ==
    Heard /\ Healthy => (power = "on" ~> lockdown = Null \/ power # "on")

(* When all that was sent has arrived, an open socket that has not been     *)
(* overtaken by a poll leaves the card with the last update, and what the   *)
(* card says of the lockdown is what the row says, unless the last update   *)
(* was a heartbeat, which always denies it (mqtt.rs:144), or was made by    *)
(* statements that failed: no other order of messages, updates, polls and   *)
(* connections makes the card differ from the row.                          *)
CardIsCurrent ==
    link = "open" /\ queue = <<>> /\ latest # Null =>
        /\ card = latest
        /\ update = Null /\ ~hidden => card.lockdown = (lockdown # Null)

(* Whatever was lost, dropped, overtaken or failed before: once the door    *)
(* rests and the socket stays open and keeps up, with messages that go on   *)
(* arriving and a database that answers, the card of a device that runs     *)
(* shows its door, and no lockdown.  Heartbeats repair it.                  *)
CardCatchesUp ==
    Heard /\ Healthy /\ <>[](link = "open" /\ ~lagged)
        => <>[](power = "on" => card = Show(door, FALSE))
=============================================================================
