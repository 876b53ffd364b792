------------------------------- MODULE Access -------------------------------
(***************************************************************************)
(* Who may command a device: the tables devices, invites and users of the  *)
(* backend (device.rs, invite.rs, user.rs) and the heartbeats that write   *)
(* the owner into the first of them (mqtt.rs).                             *)
(*                                                                         *)
(* Every handler runs its SQL statements one after the other, outside any  *)
(* transaction, and any number of handlers run at once: a statement is a   *)
(* step here, and any statement may fail, which ends the handler and       *)
(* leaves what the earlier ones did.  A token is valid as long as the      *)
(* account it was issued for exists: sessions are left out, and so is the  *)
(* access log, whose rows the same handlers delete.                        *)
(*                                                                         *)
(* A row of devices with a NULL owner and no row at all are the same here: *)
(* every handler treats them alike, and a device has a row from its first  *)
(* heartbeat on.                                                           *)
(***************************************************************************)
EXTENDS Naturals

CONSTANTS
    Users,       \* firebase_uid of everybody who ever registers
    Devices,
    Clients,     \* handlers that can be under way at the same time
    Null,        \* no owner, and no heartbeat
    Nobody,      \* the empty user_id of a device that was never paired
    MaxInvites,  \* bound on the invites that are created
    MaxPairings, \* bound on the pairings
    MaxRequests  \* bound on the requests that are served

ASSUME NamesAssumption ==
    /\ Null \notin Users
    /\ Nobody \notin Users
    /\ Null # Nobody

ASSUME BoundsAssumption ==
    MaxInvites \in Nat /\ MaxPairings \in Nat /\ MaxRequests \in Nat

VARIABLES
    accounts,    \* the rows of users
    gone,        \* history: accounts that were deleted
    owner,       \* devices.user_id
    invites,     \* the rows of invites
    created,     \* the sequence of invites.id: how many it has issued
    configured,  \* user_id in the configuration of each device
    beat,        \* user_id in the heartbeat of each device under way
    pairings,    \* pairings so far
    requests,    \* requests so far
    pc,          \* the statement each handler is at
    call,        \* the request each handler serves
    owners,      \* history: pairs of a device and a user who owned it
    consents,    \* history: device, sender and receiver of an accepted invite
    released     \* history: see UnpairClears

tables  == <<accounts, gone, owner, invites, created>>
device  == <<configured, beat, pairings>>
handlers == <<requests, pc, call>>
past    == <<owners, consents, released>>
vars    == <<tables, device, handlers, past>>

Ids == 1..MaxInvites

Invites ==
    [id : Ids, device : Devices, sender : Users, receiver : Users,
     accepted : BOOLEAN, expired : BOOLEAN]

(* The requests, by the fields their handlers use. *)
OnDevice == [op : {"control", "temp_control", "unpair"}, user : Users, device : Devices]
Creation == [op : {"create_invite"}, user : Users, device : Devices, receiver : Users]
OnInvite == [op : {"accept_invite", "reject_invite", "cancel_invite", "update_invite"},
             user : Users, id : Ids]
Deletion == [op : {"delete_account"}, user : Users]
Registration == [op : {"register_device"}, user : Users, device : Devices]

Requests == OnDevice \cup Creation \cup OnInvite \cup Deletion

(* The statement that follows the look-up of the token. *)
First == [control         |-> "owner_or_guest",
          temp_control    |-> "guest",
          unpair          |-> "owned",
          create_invite   |-> "sender",
          accept_invite   |-> "change",
          reject_invite   |-> "change",
          cancel_invite   |-> "change",
          update_invite   |-> "change",
          delete_account  |-> "disown"]

Statements == {"idle", "owner_or_guest", "guest", "publish", "owned",
               "disown", "clear", "erase", "sender", "receiver", "pending",
               "insert", "change"}

(* The requests that can be served at each statement. *)
Fits(statement, r) ==
    /\ statement \in {"owner_or_guest", "guest", "publish", "owned"} => r \in OnDevice
    /\ statement = "disown" => r \in OnDevice \cup Deletion
    /\ statement = "clear" => r \in OnDevice \cup Deletion \cup Registration
    /\ statement = "erase" => r \in Deletion
    /\ statement \in {"sender", "receiver", "pending", "insert"} => r \in Creation
    /\ statement = "change" => r \in OnInvite

TypeOK ==
    /\ accounts \subseteq Users
    /\ gone \subseteq Users
    /\ owner \in [Devices -> Users \cup {Null, Nobody}]
    /\ invites \subseteq Invites
    /\ created \in 0..MaxInvites
    /\ configured \in [Devices -> Users \cup {Nobody}]
    /\ beat \in [Devices -> Users \cup {Null, Nobody}]
    /\ pairings \in 0..MaxPairings
    /\ requests \in 0..MaxRequests
    /\ pc \in [Clients -> Statements]
    /\ call \in [Clients -> Requests \cup Registration \cup {Null}]
    /\ \A c \in Clients : Fits(pc[c], call[c])
    /\ owners \subseteq Devices \X Users
    /\ consents \subseteq Devices \X Users \X Users
    /\ released \in [Devices -> BOOLEAN]

(* New tables and new devices. *)
Init ==
    /\ accounts = {} /\ gone = {}
    /\ owner = [d \in Devices |-> Null]
    /\ invites = {} /\ created = 0
    /\ configured = [d \in Devices |-> Nobody]
    /\ beat = [d \in Devices |-> Null]
    /\ pairings = 0
    /\ requests = 0
    /\ pc = [c \in Clients |-> "idle"]
    /\ call = [c \in Clients |-> Null]
    /\ owners = {} /\ consents = {}
    /\ released = [d \in Devices |-> FALSE]

-----------------------------------------------------------------------------
(* Handlers. *)

Arrive(c, r, statement) ==
    /\ pc[c] = "idle"
    /\ requests < MaxRequests
    /\ requests' = requests + 1
    /\ pc' = [pc EXCEPT ![c] = statement]
    /\ call' = [call EXCEPT ![c] = r]

Goto(c, statement) ==
    /\ pc' = [pc EXCEPT ![c] = statement]
    /\ UNCHANGED <<requests, call>>

Return(c) ==
    /\ pc' = [pc EXCEPT ![c] = "idle"]
    /\ call' = [call EXCEPT ![c] = Null]
    /\ UNCHANGED requests

(* The answer is an error unless the condition holds. *)
GotoIf(c, condition, statement) ==
    IF condition THEN Goto(c, statement) ELSE Return(c)

User(c)   == call[c].user
Device(c) == call[c].device

(* register_user. A firebase_uid is not issued twice. *)
Register(u) ==
    /\ u \notin accounts \cup gone
    /\ accounts' = accounts \cup {u}
    /\ UNCHANGED <<gone, owner, invites, created, device, handlers, past>>

(* A request comes in and its token is looked up; without an account the   *)
(* answer is 401.  (Nothing depends on a request before that statement.)   *)
Begin(c, r) ==
    /\ r.user \in accounts
    /\ Arrive(c, r, First[r.op])
    /\ UNCHANGED <<tables, device, past>>

(* Any statement may fail: 500, and the rest is not executed. *)
Fail(c) ==
    /\ pc[c] # "idle"
    /\ Return(c)
    /\ UNCHANGED <<tables, device, past>>

-----------------------------------------------------------------------------
(* control_device and control_temp_device *)

(* Faulty variant: an invite counts from the moment it is sent. *)
GuestBeforeAccepting(d, u) ==
    \E i \in invites : i.device = d /\ i.receiver = u /\ ~i.expired

Guest(d, u) ==
    \E i \in invites : i.device = d /\ i.receiver = u /\ i.accepted /\ ~i.expired

(* A device with no owner obeys nobody, whatever the invites say. *)
ReadOwner(c) ==
    /\ pc[c] = "owner_or_guest"
    /\ LET o == owner[Device(c)] IN
       \/ o = User(c) /\ Goto(c, "publish")
       \/ o \notin {User(c), Null} /\ Goto(c, "guest")
       \/ o = Null /\ Return(c)
    /\ UNCHANGED <<tables, device, past>>

(* The temporary access reads the invites only. *)
ReadInvites(c) ==
    /\ pc[c] = "guest"
    /\ GotoIf(c, Guest(Device(c), User(c)), "publish")
    /\ UNCHANGED <<tables, device, past>>

Publish(c) ==
    /\ pc[c] = "publish"
    /\ Return(c)
    /\ UNCHANGED <<tables, device, past>>

-----------------------------------------------------------------------------
(* unpair_device and delete_account *)

ReadOwned(c) ==
    /\ pc[c] = "owned"
    /\ GotoIf(c, owner[Device(c)] = User(c), "disown")
    /\ UNCHANGED <<tables, device, past>>

(* Faulty variant: the statements that follow are skipped. *)
DisownAndErase(c) ==
    /\ pc[c] = "disown"
    /\ owner' = [d \in Devices |-> IF owner[d] = User(c) THEN Null ELSE owner[d]]
    /\ Goto(c, "erase")
    /\ UNCHANGED <<accounts, gone, invites, created, device, past>>

(* UPDATE devices SET user_id = NULL: of one device, or of every device    *)
(* the user owns.                                                          *)
Disown(c) ==
    /\ pc[c] = "disown"
    /\ owner' = [d \in Devices |->
            IF call[c].op = "unpair" THEN IF d = Device(c) THEN Null ELSE owner[d]
                                     ELSE IF owner[d] = User(c) THEN Null ELSE owner[d]]
    /\ Goto(c, "clear")
    /\ UNCHANGED <<accounts, gone, invites, created, device, past>>

(* Handlers that have found the sender to be the owner, and have not yet   *)
(* inserted the invite.                                                    *)
Creating(c, d) == pc[c] \in {"receiver", "pending", "insert"} /\ Device(c) = d

(* Faulty variant: only the invites that were accepted are deleted. *)
ClearAcceptedOf(c) ==
    /\ pc[c] = "clear"
    /\ call[c].op = "unpair"
    /\ invites' = {i \in invites : ~(i.device = Device(c) /\ i.accepted)}
    /\ released' = [released EXCEPT ![Device(c)] =
            owner[Device(c)] = Null /\ \A e \in Clients : ~Creating(e, Device(c))]
    /\ Return(c)
    /\ UNCHANGED <<accounts, gone, owner, created, device, owners, consents>>

(* DELETE FROM invites, the last statement of unpair_device. *)
ClearDevice(c) ==
    /\ pc[c] = "clear"
    /\ call[c].op # "delete_account"
    /\ invites' = {i \in invites : i.device # Device(c)}
    /\ released' = [released EXCEPT ![Device(c)] =
            owner[Device(c)] = Null /\ \A e \in Clients : ~Creating(e, Device(c))]
    /\ Return(c)
    /\ UNCHANGED <<accounts, gone, owner, created, device, owners, consents>>

ClearUser(c) ==
    /\ pc[c] = "clear"
    /\ call[c].op = "delete_account"
    /\ invites' = {i \in invites : User(c) \notin {i.sender, i.receiver}}
    /\ Goto(c, "erase")
    /\ UNCHANGED <<accounts, gone, owner, created, device, past>>

Erase(c) ==
    /\ pc[c] = "erase"
    /\ accounts' = accounts \ {User(c)}
    /\ gone' = gone \cup {User(c)}
    /\ Return(c)
    /\ UNCHANGED <<owner, invites, created, device, past>>

-----------------------------------------------------------------------------
(* invite.rs *)

(* Faulty variant: any account may invite to any device. *)
SendUnchecked(c) ==
    /\ pc[c] = "sender"
    /\ Goto(c, "receiver")
    /\ UNCHANGED <<tables, device, past>>

CheckSender(c) ==
    /\ pc[c] = "sender"
    /\ GotoIf(c, owner[Device(c)] = User(c), "receiver")
    /\ UNCHANGED <<tables, device, past>>

FindReceiver(c) ==
    /\ pc[c] = "receiver"
    /\ GotoIf(c, call[c].receiver \in accounts, "pending")
    /\ UNCHANGED <<tables, device, past>>

Pending(d, u) == {i \in invites : i.device = d /\ i.receiver = u /\ ~i.accepted}

CheckPending(c) ==
    /\ pc[c] = "pending"
    /\ GotoIf(c, Pending(Device(c), call[c].receiver) = {}, "insert")
    /\ UNCHANGED <<tables, device, past>>

Insert(c) ==
    /\ pc[c] = "insert"
    /\ created < MaxInvites
    /\ created' = created + 1
    /\ invites' = invites \cup
            {[id |-> created', device |-> Device(c), sender |-> User(c),
              receiver |-> call[c].receiver, accepted |-> FALSE, expired |-> FALSE]}
    /\ Return(c)
    /\ UNCHANGED <<accounts, gone, owner, device, past>>

(* The rows a statement on an invite updates or deletes: none or one. *)
Matching(c, role) == {i \in invites : i.id = call[c].id /\ i[role] = User(c)}

(* The expiry is not looked at. *)
Accept(c) ==
    /\ pc[c] = "change" /\ call[c].op = "accept_invite"
    /\ LET rows == {i \in Matching(c, "receiver") : ~i.accepted} IN
       /\ invites' = (invites \ rows) \cup {[i EXCEPT !.accepted = TRUE] : i \in rows}
       /\ consents' = consents \cup {<<i.device, i.sender, i.receiver>> : i \in rows}
    /\ Return(c)
    /\ UNCHANGED <<accounts, gone, owner, created, device, owners, released>>

Reject(c) ==
    /\ pc[c] = "change" /\ call[c].op = "reject_invite"
    /\ invites' = invites \ Matching(c, "receiver")
    /\ Return(c)
    /\ UNCHANGED <<accounts, gone, owner, created, device, past>>

Cancel(c) ==
    /\ pc[c] = "change" /\ call[c].op = "cancel_invite"
    /\ invites' = invites \ Matching(c, "sender")
    /\ Return(c)
    /\ UNCHANGED <<accounts, gone, owner, created, device, past>>

(* A new expiry; whether the sender still owns the device is not asked. *)
Update(c) ==
    /\ pc[c] = "change" /\ call[c].op = "update_invite"
    /\ LET rows == Matching(c, "sender") IN
       invites' = (invites \ rows) \cup {[i EXCEPT !.expired = FALSE] : i \in rows}
    /\ Return(c)
    /\ UNCHANGED <<accounts, gone, owner, created, device, past>>

(* Time passes expiry_timestamp. *)
Expire(i) ==
    /\ ~i.expired
    /\ invites' = (invites \ {i}) \cup {[i EXCEPT !.expired = TRUE]}
    /\ UNCHANGED <<accounts, gone, owner, created, device, handlers, past>>

-----------------------------------------------------------------------------
(* The device. *)

Owns(d, u) == owners \cup ({<<d, u>>} \cap (Devices \X Users))

(* handle_pairing_client stores the user_id it is sent; erasing NVS leaves *)
(* the device without.                                                     *)
Pair(d, u) ==
    /\ pairings < MaxPairings
    /\ pairings' = pairings + 1
    /\ configured' = [configured EXCEPT ![d] = u]
    /\ UNCHANGED <<tables, beat, handlers, past>>

SendHeartbeat(d) ==
    /\ beat[d] = Null
    /\ beat' = [beat EXCEPT ![d] = configured[d]]
    /\ UNCHANGED <<tables, configured, pairings, handlers, past>>

LoseHeartbeat(d) ==
    /\ beat[d] # Null
    /\ beat' = [beat EXCEPT ![d] = Null]
    /\ UNCHANGED <<tables, configured, pairings, handlers, past>>

(* The upsert of handle_mqtt_events sets the owner, whatever it was. *)
HandleHeartbeat(d) ==
    /\ beat[d] # Null
    /\ owner' = [owner EXCEPT ![d] = beat[d]]
    /\ owners' = Owns(d, beat[d])
    /\ released' = [released EXCEPT ![d] = FALSE]
    /\ beat' = [beat EXCEPT ![d] = Null]
    /\ UNCHANGED <<accounts, gone, invites, created, configured, pairings,
                   handlers, consents>>

(* register_device, which asks for no token and which the application      *)
(* never calls: the upsert, then the statements that end unpair_device.    *)
Adopt(c, r) ==
    /\ Arrive(c, r, "clear")
    /\ owner' = [owner EXCEPT ![r.device] = r.user]
    /\ owners' = Owns(r.device, r.user)
    /\ released' = [released EXCEPT ![r.device] = FALSE]
    /\ UNCHANGED <<accounts, gone, invites, created, device, consents>>

-----------------------------------------------------------------------------
Control(c) == ReadOwner(c) \/ ReadInvites(c) \/ Publish(c)
Leave(c)   == ReadOwned(c) \/ Disown(c) \/ ClearDevice(c) \/ ClearUser(c) \/ Erase(c)
Invite(c)  == CheckSender(c) \/ FindReceiver(c) \/ CheckPending(c) \/ Insert(c)
Answer(c)  == Accept(c) \/ Reject(c) \/ Cancel(c) \/ Update(c)

Next ==
    \/ \E u \in Users : Register(u)
    \/ \E c \in Clients, r \in Requests : Begin(c, r)
    \/ \E c \in Clients, r \in Registration : Adopt(c, r)
    \/ \E c \in Clients :
         Fail(c) \/ Control(c) \/ Leave(c) \/ Invite(c) \/ Answer(c)
    \/ \E i \in invites : Expire(i)
    \/ \E d \in Devices :
         \/ \E u \in Users \cup {Nobody} : Pair(d, u)
         \/ SendHeartbeat(d) \/ LoseHeartbeat(d) \/ HandleHeartbeat(d)

Spec == Init /\ [][Next]_vars

-----------------------------------------------------------------------------
(* Safety. *)

(* Rights descend from a pairing: whoever gets as far as commanding a      *)
(* device owned it at some time, or accepted an invite of somebody who had *)
(* owned it when the invite was asked for.                                 *)
CommandsHaveLineage ==
    \A c \in Clients : pc[c] = "publish" =>
        \/ <<Device(c), User(c)>> \in owners
        \/ \E s \in Users : /\ <<Device(c), s, User(c)>> \in consents
                            /\ <<Device(c), s>> \in owners

(* A device that was unpaired has no guests left until it is heard again.  *)
(* The exceptions are an unpair_device that a heartbeat overtook, and one  *)
(* that ran while an invite to the device was being created.               *)
UnpairClears ==
    \A d \in Devices : released[d] =>
        /\ owner[d] = Null
        /\ \A i \in invites : i.device # d

-----------------------------------------------------------------------------
(* What the comments say and the code does not do. *)

(* delete_account: "Exclui conta do usuario e dados associados".  Nothing  *)
(* would belong to a deleted account.                                      *)
DeletedHoldsNothing ==
    \A d \in Devices : owner[d] \notin gone

=============================================================================
