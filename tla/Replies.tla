------------------------------ MODULE Replies ------------------------------
(***************************************************************************)
(* How the backend asks a device something and waits for the answer:       *)
(* ping_device, ping_temp_device and update_config in device.rs, the       *)
(* events PONG and CONFIG_UPDATED in mqtt.rs, and the MQTT task of the     *)
(* device in between.                                                      *)
(*                                                                         *)
(* An answer does not say what it answers.  The backend keeps one sender   *)
(* of a oneshot channel per device and kind of request; a request puts     *)
(* its own there, which drops the one it finds, and any answer of the kind *)
(* takes whatever it finds.  A request that times out leaves its sender.   *)
(*                                                                         *)
(* A command is put in the channel of the MQTT client, which holds ten and *)
(* which the event loop empties while it is connected: a handler that      *)
(* finds no room waits, and no time limit covers that wait.                *)
(*                                                                         *)
(* There is one device: nothing is shared between two.  Commands travel    *)
(* with QoS 0.  The device publishes its answers with QoS 1, so it may     *)
(* send one again, but the backend subscribes with QoS 0, so any of them   *)
(* may be lost.  The access checks are in Access, the parameters in        *)
(* DeviceConfig.                                                           *)
(***************************************************************************)
EXTENDS Naturals, Sequences

CONSTANTS
    Pings,      \* requests of ping_device and ping_temp_device
    Updates,    \* requests of update_config
    Parts,      \* parameters in each of the latter
    None,       \* an empty slot
    Capacity,   \* of the channel of the MQTT client (10)
    MaxStrays   \* bound on the answers beyond the first to a command

Requests == Pings \cup Updates

ASSUME RequestsAssumption ==
    /\ Pings \cap Updates = {}
    /\ None \notin Requests
    /\ Parts \in Nat \ {0}
    /\ Capacity \in Nat \ {0}
    /\ MaxStrays \in Nat

VARIABLES
    pc,       \* where each request is
    part,     \* the parameter it is at
    slot,     \* PENDING_PINGS and PENDING_CONFIG_UPDATES
    channel,  \* the oneshot channel each request waits on
    control,  \* commands on their way to the device: requests and parameters
    unsent,   \* how many of the last of them are still in the client's channel
    status,   \* the topic status: answers
    obeyed,   \* requests and parameters that the device has obeyed
    strays,   \* answers that no request asked for
    mixed     \* history: see below

requests == <<pc, part, slot, channel>>
vars     == <<requests, control, unsent, status, obeyed, strays, mixed>>

Kinds == {"PING", "UPDATE_CONFIG"}
Kind(r) == IF r \in Pings THEN "PING" ELSE "UPDATE_CONFIG"

Steps(r) == IF r \in Pings THEN 1..1 ELSE 1..Parts

Active(r) == pc[r] \in {"register", "publish", "wait"}

TypeOK ==
    /\ pc \in [Requests -> {"new", "register", "publish", "wait", "ok", "timeout", "error"}]
    /\ part \in [Requests -> 1..Parts] /\ \A r \in Pings : part[r] = 1
    /\ slot \in [Kinds -> Requests \cup {None}]
    /\ \A k \in Kinds : slot[k] # None => Kind(slot[k]) = k
    /\ channel \in [Requests -> {"none", "open", "sent", "dropped", "closed"}]
    /\ control \in Seq(Requests \X (1..Parts))
    /\ unsent \in 0..Capacity /\ unsent <= Len(control)
    /\ status \in Seq([kind : Kinds, good : BOOLEAN])
    /\ obeyed \subseteq Requests \X (1..Parts)
    /\ strays \in 0..MaxStrays
    /\ mixed \subseteq Requests

Init ==
    /\ pc = [r \in Requests |-> "new"]
    /\ part = [r \in Requests |-> 1]
    /\ slot = [k \in Kinds |-> None]
    /\ channel = [r \in Requests |-> "none"]
    /\ control = <<>>
    /\ unsent = 0
    /\ status = <<>>
    /\ obeyed = {}
    /\ strays = 0
    /\ mixed = {}

-----------------------------------------------------------------------------
(***************************************************************************)
(* A request is mixed if, while it was under way, another of its kind was  *)
(* too, or a stray answer came up, or a command or an answer of an earlier *)
(* one was still travelling.  No guard reads it.                           *)
(***************************************************************************)
Others(r) == {s \in Requests \ {r} : Kind(s) = Kind(r) /\ Active(s)}

Travelling(k) ==
    \/ \E i \in 1..Len(control) : Kind(control[i][1]) = k
    \/ \E i \in 1..Len(status) : status[i].kind = k

-----------------------------------------------------------------------------
(* The handlers of the backend. *)

Goto(r, step) == pc' = [pc EXCEPT ![r] = step]

(* A ping is published and then registered; an update the other way round. *)
Begin(r) ==
    /\ pc[r] = "new"
    /\ Goto(r, IF r \in Pings THEN "publish" ELSE "register")
    /\ mixed' = IF Others(r) = {} /\ ~Travelling(Kind(r))
                THEN mixed
                ELSE mixed \cup {r} \cup Others(r)
    /\ UNCHANGED <<part, slot, channel, control, unsent, status, obeyed, strays>>

(* insert drops the sender that it replaces. *)
Register(r) ==
    /\ pc[r] = "register"
    /\ slot' = [slot EXCEPT ![Kind(r)] = r]
    /\ channel' = [s \in Requests |->
            IF s = r THEN "open"
            ELSE IF s = slot[Kind(r)] /\ channel[s] = "open" THEN "dropped"
            ELSE channel[s]]
    /\ Goto(r, IF r \in Pings THEN "wait" ELSE "publish")
    /\ UNCHANGED <<part, control, unsent, status, obeyed, strays, mixed>>

(* publish returns when the command is in the channel. *)
Publish(r) ==
    /\ pc[r] = "publish"
    /\ unsent < Capacity
    /\ unsent' = unsent + 1
    /\ control' = Append(control, <<r, part[r]>>)
    /\ Goto(r, IF r \in Pings THEN "register" ELSE "wait")
    /\ UNCHANGED <<part, slot, channel, status, obeyed, strays, mixed>>

(* Faulty variant: one parameter too many. *)
AnsweredGoesOn(r) ==
    /\ pc[r] = "wait"
    /\ channel[r] = "sent"
    /\ IF part[r] \in Steps(r)
       THEN part' = [part EXCEPT ![r] = @ + 1] /\ Goto(r, "register")
       ELSE UNCHANGED part /\ Goto(r, "ok")
    /\ channel' = [channel EXCEPT ![r] = "none"]
    /\ UNCHANGED <<slot, control, unsent, status, obeyed, strays, mixed>>

(* The client of the broker has stopped; an update leaves its sender. *)
PublishFails(r) ==
    /\ pc[r] = "publish"
    /\ Goto(r, "error")
    /\ channel' = [channel EXCEPT ![r] = "closed"]
    /\ UNCHANGED <<part, slot, control, unsent, status, obeyed, strays, mixed>>

(* The channel delivers; an update goes on with its next parameter. *)
Answered(r) ==
    /\ pc[r] = "wait"
    /\ channel[r] = "sent"
    /\ IF part[r] + 1 \in Steps(r)
       THEN part' = [part EXCEPT ![r] = @ + 1] /\ Goto(r, "register")
       ELSE UNCHANGED part /\ Goto(r, "ok")
    /\ channel' = [channel EXCEPT ![r] = "none"]
    /\ UNCHANGED <<slot, control, unsent, status, obeyed, strays, mixed>>

(* The sender was replaced. *)
Dropped(r) ==
    /\ pc[r] = "wait"
    /\ channel[r] = "dropped"
    /\ Goto(r, "error")
    /\ UNCHANGED <<part, slot, channel, control, unsent, status, obeyed, strays, mixed>>

(* Faulty variant: a parameter that is not confirmed is passed over. *)
TimeoutGoesOn(r) ==
    /\ pc[r] = "wait"
    /\ channel[r] = "open"
    /\ IF part[r] + 1 \in Steps(r)
       THEN part' = [part EXCEPT ![r] = @ + 1] /\ Goto(r, "register")
       ELSE UNCHANGED part /\ Goto(r, "timeout")
    /\ channel' = [channel EXCEPT ![r] = "closed"]
    /\ UNCHANGED <<slot, control, unsent, status, obeyed, strays, mixed>>

(* Faulty variant: an update waits without limit. *)
TimeoutOfPings(r) ==
    /\ r \in Pings
    /\ pc[r] = "wait"
    /\ channel[r] = "open"
    /\ Goto(r, "timeout")
    /\ channel' = [channel EXCEPT ![r] = "closed"]
    /\ UNCHANGED <<part, slot, control, unsent, status, obeyed, strays, mixed>>

(* 10 s have passed: 408.  The sender stays in its slot. *)
Timeout(r) ==
    /\ pc[r] = "wait"
    /\ channel[r] = "open"
    /\ Goto(r, "timeout")
    /\ channel' = [channel EXCEPT ![r] = "closed"]
    /\ UNCHANGED <<part, slot, control, unsent, status, obeyed, strays, mixed>>

(* Faulty variant: any answer is taken for a confirmation. *)
HandleAny ==
    /\ status # <<>>
    /\ LET a == Head(status) IN
         /\ slot' = [slot EXCEPT ![a.kind] = None]
         /\ channel' = [r \in Requests |->
                IF slot[a.kind] = r /\ channel[r] = "open" THEN "sent" ELSE channel[r]]
    /\ status' = Tail(status)
    /\ UNCHANGED <<pc, part, control, unsent, obeyed, strays, mixed>>

(* handle_mqtt_events: PONG and CONFIG_UPDATED take the sender they find;  *)
(* a failure is an event it does not know.                                 *)
Handle ==
    /\ status # <<>>
    /\ LET a == Head(status) IN
         IF a.good
         THEN /\ slot' = [slot EXCEPT ![a.kind] = None]
              /\ channel' = [r \in Requests |->
                    IF slot[a.kind] = r /\ channel[r] = "open" THEN "sent" ELSE channel[r]]
         ELSE UNCHANGED <<slot, channel>>
    /\ status' = Tail(status)
    /\ UNCHANGED <<pc, part, control, unsent, obeyed, strays, mixed>>

-----------------------------------------------------------------------------
(* The event loop of the client, the broker and the device. *)

(* The event loop takes the oldest command of the channel, which it does   *)
(* only while it is connected to the broker.                               *)
Send ==
    /\ unsent > 0
    /\ unsent' = unsent - 1
    /\ UNCHANGED <<requests, control, status, obeyed, strays, mixed>>

(* The oldest command has left the channel. *)
Sent == Len(control) > unsent

Answer(kind, success) ==
    status' = Append(status, [kind |-> kind, good |-> success])

(* process_cbor_command, one command after the other. *)
Obey ==
    /\ Sent
    /\ control' = Tail(control)
    /\ obeyed' = obeyed \cup {Head(control)}
    /\ Answer(Kind(Head(control)[1]), TRUE)
    /\ UNCHANGED <<requests, unsent, strays, mixed>>

(* UPDATE_CONFIG_FAILED and the other failures of update_config. *)
Refuse ==
    /\ Sent
    /\ Head(control)[1] \in Updates
    /\ control' = Tail(control)
    /\ Answer("UPDATE_CONFIG", FALSE)
    /\ UNCHANGED <<requests, unsent, obeyed, strays, mixed>>

Stray(kind) ==
    /\ strays < MaxStrays
    /\ strays' = strays + 1
    /\ Answer(kind, TRUE)
    /\ mixed' = mixed \cup {r \in Requests : Kind(r) = kind /\ Active(r)}
    /\ UNCHANGED <<requests, control, unsent, obeyed>>

(* run_command at the serial console calls the same update_config. *)
Type == Stray("UPDATE_CONFIG")

(* The client of the device sends again what the broker has not yet        *)
(* acknowledged.                                                           *)
Resend == \E c \in obeyed : Stray(Kind(c[1]))

LoseCommand ==
    /\ Sent
    /\ control' = Tail(control)
    /\ UNCHANGED <<requests, unsent, status, obeyed, strays, mixed>>

LoseAnswer ==
    /\ status # <<>>
    /\ status' = Tail(status)
    /\ UNCHANGED <<requests, control, unsent, obeyed, strays, mixed>>

-----------------------------------------------------------------------------
Runs(r) ==
    \/ Register(r)
    \/ Publish(r) \/ PublishFails(r)
    \/ Answered(r) \/ Dropped(r) \/ Timeout(r)

Next ==
    \/ \E r \in Requests : Begin(r) \/ Runs(r)
    \/ Handle
    \/ Send \/ Obey \/ Refuse \/ Type \/ Resend
    \/ LoseCommand \/ LoseAnswer

(* A request that can go on does, and time passes.  Nothing is assumed of  *)
(* the device, nor that the broker can be reached.                         *)
Fairness == \A r \in Requests : WF_vars(Runs(r))

Spec == Init /\ [][Next]_vars /\ Fairness

-----------------------------------------------------------------------------
(* Safety.  TypeOK is at the top. *)

(* An update that was alone and was answered 200 has been obeyed in all    *)
(* its parameters.                                                         *)
ConfirmedIsApplied ==
    \A r \in Updates : pc[r] = "ok" /\ r \notin mixed => {r} \X Steps(r) \subseteq obeyed

(* An update that was alone never leaves a hole: a parameter is applied    *)
(* only when those before it are, however the request ends.                *)
AppliedInOrder ==
    \A r \in Updates \ mixed : \A p \in Steps(r) :
        <<r, p>> \in obeyed => {r} \X (1..p) \subseteq obeyed

-----------------------------------------------------------------------------
(* Liveness. *)

(* Every request is answered by the backend, if every message is lost too, *)
(* as long as the event loop makes room in its channel again and again.    *)
(* With the broker away for good, a request may wait for ever.             *)
RequestsEnd ==
    []<>(unsent < Capacity) =>
        \A r \in Requests : Active(r) ~> pc[r] \in {"ok", "timeout", "error"}

=============================================================================
