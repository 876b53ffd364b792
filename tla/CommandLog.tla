---------------------------- MODULE CommandLog ----------------------------
(***************************************************************************)
(* Whom the access log names for a lock event: RECENT_COMMANDS.            *)
(*                                                                         *)
(* An event says what the door did and why ("MQTT", "TIMEOUT"), not who    *)
(* asked.  The backend remembers the last command of each device with its  *)
(* author, and the next event within 5 s is put down to him, whatever has  *)
(* caused it.                                                              *)
(*                                                                         *)
(* Commands are numbered in the order in which they are remembered; the    *)
(* author of a command is told by its number, so that a row that names a   *)
(* number says more than one that names a user.  There is one device, and  *)
(* its door moves in one step: LockDoor has the steps.  Access has the     *)
(* checks that come before a command is remembered.  A command that is     *)
(* neither LOCK nor UNLOCK is like a LOCK of a locked door.                *)
(***************************************************************************)
EXTENDS Naturals, Sequences

CONSTANTS
    MaxCommands,  \* bound on the commands
    MaxOthers,    \* bound on what moves the door without a command
    MaxResends    \* bound on the events that the device sends again

ASSUME BoundsAssumption == {MaxCommands, MaxOthers, MaxResends} \subseteq Nat

VARIABLES
    issued,     \* commands remembered so far
    recent,     \* RECENT_COMMANDS: the last of them, and whether it is recent
    sending,    \* remembered, but not yet published or answered
    control,    \* the topic control
    verdicts,   \* voices accepted, the device not having heard of it yet
    door,       \* lock_ctx.state
    published,  \* causes of the events of the device
    status,     \* the topic status: the causes of the events under way
    logs,       \* the table logs
    others,     \* moves of the door without a command
    resends,    \* events sent again
    forgotten,  \* history: commands that RECENT_COMMANDS lost by age or restart
    unlogged    \* history: commands removed for a row that was not inserted

backend == <<issued, recent, sending, logs, forgotten, unlogged>>
device  == <<door, published, others, resends>>
topics  == <<control, verdicts, status>>
vars    == <<backend, device, topics>>

Nothing == [id |-> 0, fresh |-> FALSE]
Numbers == 1..MaxCommands
Causes  == 0..MaxCommands  \* 0: no command

Commands == [id : Numbers, command : {"LOCK", "UNLOCK", "VOICE"}]
Voices   == {c \in Commands : c.command = "VOICE"}
Messages == Commands \ Voices

TypeOK ==
    /\ issued \in Causes
    /\ recent \in {Nothing} \cup [id : Numbers, fresh : BOOLEAN]
    /\ sending \subseteq Commands
    /\ control \in Seq(Messages)
    /\ verdicts \subseteq Voices
    /\ door \in {"LOCKED", "UNLOCKED"}
    /\ published \subseteq Causes
    /\ status \in Seq(Causes)
    /\ logs \in Seq([cause : Causes, user : Causes])
    /\ others \in 0..MaxOthers
    /\ resends \in 0..MaxResends
    /\ forgotten \subseteq Numbers /\ unlogged \subseteq Numbers

Init ==
    /\ issued = 0
    /\ recent = Nothing
    /\ sending = {}
    /\ control = <<>>
    /\ verdicts = {}
    /\ door = "LOCKED"
    /\ published = {}
    /\ status = <<>>
    /\ logs = <<>>
    /\ others = 0
    /\ resends = 0
    /\ forgotten = {}
    /\ unlogged = {}

-----------------------------------------------------------------------------
(* The backend. *)

(* control_device, control_temp_device and verify_voice, having checked. *)
Remember(command) ==
    /\ issued < MaxCommands
    /\ issued' = issued + 1
    /\ recent' = [id |-> issued', fresh |-> TRUE]
    /\ sending' = sending \cup {[id |-> issued', command |-> command]}
    /\ UNCHANGED <<logs, forgotten, unlogged, device, topics>>

(* Faulty variant: who has published forgets. *)
PublishAndForget ==
    \E c \in sending :
        /\ sending' = sending \ {c}
        /\ recent' = Nothing
        /\ IF c.command = "VOICE"
           THEN verdicts' = verdicts \cup {c} /\ UNCHANGED control
           ELSE control' = Append(control, c) /\ UNCHANGED verdicts
        /\ UNCHANGED <<issued, logs, forgotten, unlogged, device, status>>

(* Faulty variant: a voice is published like a command. *)
PublishVoice ==
    \E c \in sending :
        /\ sending' = sending \ {c}
        /\ control' = Append(control, c)
        /\ UNCHANGED <<issued, recent, logs, forgotten, unlogged, device, verdicts, status>>

(* publish_control_message, or the answer of verify_voice to the device. *)
Publish ==
    \E c \in sending :
        /\ sending' = sending \ {c}
        /\ IF c.command = "VOICE"
           THEN verdicts' = verdicts \cup {c} /\ UNCHANGED control
           ELSE control' = Append(control, c) /\ UNCHANGED verdicts
        /\ UNCHANGED <<issued, recent, logs, forgotten, unlogged, device, status>>

(* 5 s pass since the last command: it stays where it is. *)
Elapse ==
    /\ recent.fresh
    /\ recent' = [recent EXCEPT !.fresh = FALSE]
    /\ forgotten' = forgotten \cup {recent.id}
    /\ UNCHANGED <<issued, sending, logs, unlogged, device, topics>>

(* The backend stops and starts again: the map was in memory. *)
Restart ==
    /\ recent # Nothing \/ sending # {}
    /\ recent' = Nothing
    /\ sending' = {}
    /\ forgotten' = forgotten \cup ({recent.id} \cap Numbers)
    /\ UNCHANGED <<issued, logs, unlogged, device, topics>>

(* Faulty variant: the command is not removed. *)
HandleAndKeep ==
    /\ status # <<>>
    /\ status' = Tail(status)
    /\ logs' = Append(logs, [cause |-> Head(status),
                             user |-> IF recent.fresh THEN recent.id ELSE 0])
    /\ UNCHANGED <<issued, recent, sending, forgotten, unlogged, device, control, verdicts>>

(* The lock event in handle_mqtt_events.  The command is removed before    *)
(* the row is inserted, and a failure of the insertion is ignored.         *)
Handle ==
    /\ status # <<>>
    /\ status' = Tail(status)
    /\ recent' = IF recent.fresh THEN Nothing ELSE recent
    /\ \/ /\ logs' = Append(logs, [cause |-> Head(status),
                                   user |-> IF recent.fresh THEN recent.id ELSE 0])
          /\ UNCHANGED unlogged
       \/ /\ unlogged' = unlogged \cup (IF recent.fresh THEN {recent.id} ELSE {})
          /\ UNCHANGED logs
    /\ UNCHANGED <<issued, sending, forgotten, device, control, verdicts>>

-----------------------------------------------------------------------------
(* The device.  Only a change of state is published. *)
Move(target, cause) ==
    IF door = target
    THEN UNCHANGED <<door, published, status>>
    ELSE /\ door' = target
         /\ published' = published \cup {cause}
         /\ status' = Append(status, cause)

Opposite(d) == IF d = "LOCKED" THEN "UNLOCKED" ELSE "LOCKED"

(* process_cbor_command. *)
Obey ==
    /\ control # <<>>
    /\ control' = Tail(control)
    /\ Move(IF Head(control).command = "LOCK" THEN "LOCKED" ELSE "UNLOCKED", Head(control).id)
    /\ UNCHANGED <<backend, verdicts, others, resends>>

(* http_stream_task hears that the voice is accepted, and toggles. *)
Hear ==
    \E c \in verdicts :
        /\ verdicts' = verdicts \ {c}
        /\ Move(Opposite(door), c.id)
        /\ UNCHANGED <<backend, control, others, resends>>

(* The auto-lock, a touch, the serial console, a restart. *)
Other ==
    /\ others < MaxOthers
    /\ others' = others + 1
    /\ Move(Opposite(door), 0)
    /\ UNCHANGED <<backend, control, verdicts, resends>>

(* Events are published with QoS 1: one that is not yet acknowledged is    *)
(* sent again.                                                             *)
Resend ==
    /\ resends < MaxResends
    /\ resends' = resends + 1
    /\ \E cause \in published : status' = Append(status, cause)
    /\ UNCHANGED <<backend, control, verdicts, door, published, others>>

(* A command, an answer to a voice or an event is lost. *)
Lose ==
    /\ \/ control # <<>> /\ control' = Tail(control) /\ UNCHANGED <<verdicts, status>>
       \/ status # <<>> /\ status' = Tail(status) /\ UNCHANGED <<control, verdicts>>
       \/ /\ \E c \in verdicts : verdicts' = verdicts \ {c}
          /\ UNCHANGED <<control, status>>
    /\ UNCHANGED <<backend, device>>

-----------------------------------------------------------------------------
Next ==
    \/ \E command \in {"LOCK", "UNLOCK", "VOICE"} : Remember(command)
    \/ Publish \/ Elapse \/ Restart \/ Handle
    \/ Obey \/ Hear \/ Other
    \/ Resend \/ Lose

Spec == Init /\ [][Next]_vars

-----------------------------------------------------------------------------
(* Safety. *)

(* A command is put down once in the log, and the log never goes back to   *)
(* an older one: the users it names come in the order of their commands.   *)
UsersAdvance ==
    \A i, j \in 1..Len(logs) :
        i < j /\ logs[i].user # 0 /\ logs[j].user # 0 => logs[i].user < logs[j].user

(* When the log names somebody else than who caused an event, it is        *)
(* somebody who gave a command after him: nobody is named for what was     *)
(* asked later than his last command.                                      *)
NeverAnEarlierUser ==
    \A i \in 1..Len(logs) :
        logs[i].user # 0 => logs[i].user >= logs[i].cause

(* Whatever is late, lost or sent again, the credits of the log go forward *)
(* with the commands.                                                      *)
CreditsGoForward == UsersAdvance /\ NeverAnEarlierUser

(* An event that a command caused is put down to nobody only if the        *)
(* command, or one after it, had been used up by an earlier event (whose   *)
(* row may have failed), had grown old, or was lost in a restart.          *)
AnonymousIsExplained ==
    \A i \in 1..Len(logs) :
        logs[i].cause # 0 /\ logs[i].user = 0 =>
            \/ \E n \in forgotten \cup unlogged : n >= logs[i].cause
            \/ \E j \in 1..(i - 1) : logs[j].user >= logs[i].cause
=============================================================================
