---------------------------- MODULE UserProofs ------------------------------
(***************************************************************************)
(* Proofs about Access, for any users, devices, number of handlers and     *)
(* bounds, and about Accounts, for any phones and bounds.  The two stand   *)
(* side by side: their names are disjoint, and so are the two halves here. *)
(*                                                                         *)
(* In Access the types of the tables and those of the handlers are proved  *)
(* apart: the first need no more of a handler than the request it serves.  *)
(*                                                                         *)
(* In Accounts no property is inductive by itself.  That the services      *)
(* agree once all is quiet (AccountsAgree) rests on who has yet to finish  *)
(* what they disagree on (Unfinished), and that on the order in which the  *)
(* three are written and erased (ProfileGone, DeletedFirst) and on there   *)
(* being one registration, before which nobody else can have got further   *)
(* than a login (SigningUp, OneRegistration).  That the passwords agree    *)
(* (PasswordsAgree) rests on a change that met no other being the only     *)
(* one, and its call carrying what Firebase has (AloneIsAlone).  All of    *)
(* them need that a phone awaits the one call it has made (CallsFit).      *)
(***************************************************************************)
EXTENDS Access, Accounts, TLAPS

(* Rights: Access. *)
HandlerTypes ==
    /\ requests \in 0..MaxRequests
    /\ pc \in [Clients -> Statements]
    /\ call \in [Clients -> Requests \cup Registration \cup {Null}]
    /\ \A c \in Clients : Fits(pc[c], call[c])

TableTypes ==
    /\ accounts \subseteq Users
    /\ gone \subseteq Users
    /\ owner \in [Devices -> Users \cup {Null, Nobody}]
    /\ invites \subseteq Invites
    /\ created \in 0..MaxInvites

DeviceTypes ==
    /\ configured \in [Devices -> Users \cup {Nobody}]
    /\ beat \in [Devices -> Users \cup {Null, Nobody}]
    /\ pairings \in 0..MaxPairings

PastTypes ==
    /\ owners \subseteq Devices \X Users
    /\ consents \subseteq Devices \X Users \X Users
    /\ released \in [Devices -> BOOLEAN]

LEMMA TypeParts == TypeOK <=> HandlerTypes /\ TableTypes /\ DeviceTypes /\ PastTypes
BY DEF TypeOK, HandlerTypes, TableTypes, DeviceTypes, PastTypes

-----------------------------------------------------------------------------
(* Handlers. *)

(* A handler that is the only one to move keeps the types if the statement *)
(* it moves to fits its request.                                           *)
LEMMA MoveKeeps ==
    ASSUME HandlerTypes, NEW c \in Clients, NEW s \in Statements,
           NEW r \in Requests \cup Registration \cup {Null}, Fits(s, r),
           requests' \in 0..MaxRequests,
           pc' = [pc EXCEPT ![c] = s], call' = [call EXCEPT ![c] = r]
    PROVE  HandlerTypes'
<1>1. \A d \in Clients : Fits(pc'[d], call'[d])
  BY DEF HandlerTypes
<1> QED
  BY <1>1 DEF HandlerTypes

LEMMA ArriveKeeps ==
    ASSUME HandlerTypes, NEW c \in Clients, NEW s \in Statements,
           NEW r \in Requests \cup Registration, Fits(s, r), Arrive(c, r, s)
    PROVE  HandlerTypes'
BY MoveKeeps, BoundsAssumption DEF Arrive, HandlerTypes

LEMMA GotoKeeps ==
    ASSUME HandlerTypes, NEW c \in Clients, NEW s \in Statements,
           Fits(s, call[c]), Goto(c, s)
    PROVE  HandlerTypes'
<1>1. call' = [call EXCEPT ![c] = call[c]]
  BY DEF Goto, HandlerTypes
<1> QED
  BY <1>1, MoveKeeps DEF Goto, HandlerTypes

LEMMA ReturnKeeps ==
    ASSUME HandlerTypes, NEW c \in Clients, Return(c)
    PROVE  HandlerTypes'
<1>1. "idle" \in Statements /\ Fits("idle", Null)
  BY DEF Statements, Fits
<1> QED
  BY <1>1, MoveKeeps DEF Return, HandlerTypes

(* The first statement of a handler fits the request. *)
LEMMA FirstFits == ASSUME NEW r \in Requests PROVE First[r.op] \in Statements /\ Fits(First[r.op], r)
<1>1. CASE r \in OnDevice
  BY <1>1 DEF OnDevice, First, Statements, Fits
<1>2. CASE r \in Creation
  BY <1>2 DEF Creation, First, Statements, Fits
<1>3. CASE r \in OnInvite
  BY <1>3 DEF OnInvite, First, Statements, Fits
<1>4. CASE r \in Deletion
  BY <1>4 DEF Deletion, First, Statements, Fits
<1> QED
  BY <1>1, <1>2, <1>3, <1>4 DEF Requests

LEMMA HandlersStep == HandlerTypes /\ [Next]_vars => HandlerTypes'
<1> SUFFICES ASSUME HandlerTypes, [Next]_vars PROVE HandlerTypes'
  OBVIOUS
<1>1. CASE UNCHANGED handlers
  BY <1>1 DEF HandlerTypes, handlers
<1>2. CASE \E c \in Clients, r \in Requests : Begin(c, r)
  BY <1>2, ArriveKeeps, FirstFits DEF Begin
<1>3. CASE \E c \in Clients, r \in Registration : Adopt(c, r)
  <2> PICK c \in Clients, r \in Registration : Adopt(c, r)
    BY <1>3
  <2>1. "clear" \in Statements /\ Fits("clear", r)
    BY DEF Statements, Fits
  <2> QED
    BY <2>1, ArriveKeeps DEF Adopt
<1>4. ASSUME NEW c \in Clients,
             Fail(c) \/ Control(c) \/ Leave(c) \/ Invite(c) \/ Answer(c)
      PROVE  HandlerTypes'
  <2>0. Fits(pc[c], call[c])
    BY DEF HandlerTypes
  <2>1. CASE Return(c)
    BY <2>1, ReturnKeeps
  <2>2. CASE ReadOwner(c) \/ ReadInvites(c)
    BY <2>0, <2>1, <2>2, GotoKeeps DEF ReadOwner, ReadInvites, GotoIf, Fits, Statements
  <2>3. CASE ReadOwned(c)
    BY <2>0, <2>1, <2>3, GotoKeeps DEF ReadOwned, GotoIf, Fits, Statements
  <2>4. CASE Disown(c)
    BY <2>0, <2>4, GotoKeeps DEF Disown, Fits, Statements
  <2>5. CASE ClearUser(c)
    <3>1. call[c] \in Deletion
      BY <2>0, <2>5 DEF ClearUser, Fits, OnDevice, Registration
    <3> QED
      BY <2>5, <3>1, GotoKeeps DEF ClearUser, Fits, Statements
  <2>6. CASE CheckSender(c) \/ FindReceiver(c) \/ CheckPending(c)
    BY <2>0, <2>1, <2>6, GotoKeeps DEF CheckSender, FindReceiver, CheckPending, GotoIf, Fits, Statements
  <2> QED
    BY <1>4, <2>1, <2>2, <2>3, <2>4, <2>5, <2>6
       DEF Fail, Control, Publish, Leave, ClearDevice, Erase, Invite, Insert,
           Answer, Accept, Reject, Cancel, Update
<1>5. CASE \E i \in invites : Expire(i)
  BY <1>1, <1>5 DEF Expire
<1> QED
  BY <1>1, <1>2, <1>3, <1>4, <1>5
     DEF Next, Register, Pair, SendHeartbeat, LoseHeartbeat, HandleHeartbeat, vars

-----------------------------------------------------------------------------
(* Tables. *)

(* The columns of the request are those the statement needs. *)
LEMMA CallTypes ==
    ASSUME HandlerTypes, NEW c \in Clients
    PROVE  /\ pc[c] \in {"owner_or_guest", "guest", "publish", "owned"}
                => Device(c) \in Devices /\ User(c) \in Users
           /\ pc[c] \in {"disown", "clear", "erase"} => User(c) \in Users
           /\ pc[c] = "clear" /\ call[c].op # "delete_account" => Device(c) \in Devices
           /\ pc[c] \in {"sender", "receiver", "pending", "insert"}
                => Device(c) \in Devices /\ User(c) \in Users /\ call[c].receiver \in Users
           /\ pc[c] = "change" => User(c) \in Users
<1>1. Fits(pc[c], call[c])
  BY DEF HandlerTypes
<1> QED
  BY <1>1 DEF Fits, Device, User, OnDevice, Creation, OnInvite, Deletion, Registration

(* A changed row is a row. *)
LEMMA RowTypes ==
    ASSUME NEW i \in Invites
    PROVE  /\ [i EXCEPT !.accepted = TRUE] \in Invites
           /\ [i EXCEPT !.expired = FALSE] \in Invites
           /\ [i EXCEPT !.expired = TRUE] \in Invites
BY DEF Invites

LEMMA TablesStep == HandlerTypes /\ DeviceTypes /\ TableTypes /\ [Next]_vars => TableTypes'
<1> SUFFICES ASSUME HandlerTypes, DeviceTypes, TableTypes, [Next]_vars PROVE TableTypes'
  OBVIOUS
<1> USE DEF TableTypes
<1>1. CASE UNCHANGED tables
  BY <1>1 DEF tables
<1>2. CASE \E u \in Users : Register(u)
  BY <1>2 DEF Register
<1>3. CASE \E c \in Clients, r \in Registration : Adopt(c, r)
  BY <1>3 DEF Adopt, Registration
<1>4. ASSUME NEW c \in Clients, Leave(c)
      PROVE  TableTypes'
  <2>1. CASE ReadOwned(c)
    BY <1>1, <2>1 DEF ReadOwned
  <2>2. CASE Disown(c)
    BY <2>2 DEF Disown
  <2>3. CASE ClearDevice(c) \/ ClearUser(c)
    BY <2>3 DEF ClearDevice, ClearUser
  <2>4. CASE Erase(c)
    BY <2>4, CallTypes DEF Erase
  <2> QED
    BY <1>4, <2>1, <2>2, <2>3, <2>4 DEF Leave
<1>5. ASSUME NEW c \in Clients, Insert(c)
      PROVE  TableTypes'
  <2>1. created' \in Ids
    BY <1>5, BoundsAssumption DEF Insert, Ids
  <2>2. Device(c) \in Devices /\ User(c) \in Users /\ call[c].receiver \in Users
    BY <1>5, CallTypes DEF Insert
  <2>3. invites' \subseteq Invites
    <3> DEFINE new == [id |-> created', device |-> Device(c), sender |-> User(c),
                       receiver |-> call[c].receiver, accepted |-> FALSE, expired |-> FALSE]
    <3>1. new \in Invites
      BY <2>1, <2>2 DEF Invites
    <3>2. invites' = invites \cup {new}
      BY <1>5 DEF Insert
    <3> HIDE DEF new
    <3> QED
      BY <3>1, <3>2
  <2> QED
    BY <1>5, <2>1, <2>3 DEF Insert, Ids
<1>6. ASSUME NEW c \in Clients, Answer(c)
      PROVE  TableTypes'
  <2>1. CASE Accept(c)
    BY <2>1, RowTypes DEF Accept, Matching
  <2>2. CASE Reject(c) \/ Cancel(c)
    BY <2>2 DEF Reject, Cancel
  <2>3. CASE Update(c)
    BY <2>3, RowTypes DEF Update, Matching
  <2> QED
    BY <1>6, <2>1, <2>2, <2>3 DEF Answer
<1>7. ASSUME NEW i \in invites, Expire(i)
      PROVE  TableTypes'
  BY <1>7, RowTypes DEF Expire
<1>8. ASSUME NEW d \in Devices, HandleHeartbeat(d)
      PROVE  TableTypes'
  BY <1>8 DEF HandleHeartbeat, DeviceTypes
<1> QED
  BY <1>1, <1>2, <1>3, <1>4, <1>5, <1>6, <1>7, <1>8
     DEF Next, Begin, Fail, Control, ReadOwner, ReadInvites, Publish, Invite,
         CheckSender, FindReceiver, CheckPending, Pair, SendHeartbeat,
         LoseHeartbeat, vars

LEMMA DeviceStep == DeviceTypes /\ [Next]_vars => DeviceTypes'
<1> SUFFICES ASSUME DeviceTypes, [Next]_vars PROVE DeviceTypes'
  OBVIOUS
<1>1. CASE UNCHANGED device
  BY <1>1 DEF DeviceTypes, device
<1>2. ASSUME NEW d \in Devices, NEW u \in Users \cup {Nobody}, Pair(d, u)
      PROVE  DeviceTypes'
  BY <1>2, BoundsAssumption DEF Pair, DeviceTypes
<1>3. ASSUME NEW d \in Devices, SendHeartbeat(d) \/ LoseHeartbeat(d) \/ HandleHeartbeat(d)
      PROVE  DeviceTypes'
  BY <1>3 DEF SendHeartbeat, LoseHeartbeat, HandleHeartbeat, DeviceTypes
<1> QED
  BY <1>1, <1>2, <1>3
     DEF Next, Register, Begin, Adopt, Fail, Control, ReadOwner, ReadInvites, Publish,
         Leave, ReadOwned, Disown, ClearDevice, ClearUser, Erase, Invite, CheckSender,
         FindReceiver, CheckPending, Insert, Answer, Accept, Reject, Cancel, Update,
         Expire, vars

LEMMA PastStep ==
    HandlerTypes /\ TableTypes /\ PastTypes /\ [Next]_vars => PastTypes'
<1> SUFFICES ASSUME HandlerTypes, TableTypes, PastTypes, [Next]_vars PROVE PastTypes'
  OBVIOUS
<1> USE DEF PastTypes
<1>1. CASE UNCHANGED past
  BY <1>1 DEF past
<1>2. CASE \E c \in Clients, r \in Registration : Adopt(c, r)
  BY <1>2 DEF Adopt, Owns
<1>3. ASSUME NEW c \in Clients, ClearDevice(c)
      PROVE  PastTypes'
  BY <1>3 DEF ClearDevice
<1>4. ASSUME NEW c \in Clients, CheckPending(c)
      PROVE  PastTypes'
  BY <1>4 DEF CheckPending, past
<1>5. ASSUME NEW c \in Clients, Accept(c)
      PROVE  PastTypes'
  BY <1>5 DEF Accept, Matching, TableTypes, Invites
<1>6. ASSUME NEW d \in Devices, HandleHeartbeat(d)
      PROVE  PastTypes'
  BY <1>6 DEF HandleHeartbeat, Owns
<1> QED
  BY <1>1, <1>2, <1>3, <1>4, <1>5, <1>6
     DEF Next, Register, Begin, Fail, Control, ReadOwner, ReadInvites, Publish, Leave,
         ReadOwned, Disown, ClearUser, Erase, Invite, CheckSender, FindReceiver, Insert,
         Answer, Reject, Cancel, Update, Expire, Pair, SendHeartbeat, LoseHeartbeat, vars

LEMMA TypeStep == TypeOK /\ [Next]_vars => TypeOK'
BY TypeParts, HandlersStep, TablesStep, DeviceStep, PastStep
   DEF TypeOK, HandlerTypes, TableTypes, DeviceTypes, PastTypes

LEMMA TypeInit == Init => TypeOK
<1> SUFFICES ASSUME Init PROVE TypeOK
  OBVIOUS
<1>1. HandlerTypes
  BY BoundsAssumption DEF Init, HandlerTypes, Statements, Fits
<1>2. TableTypes
  BY BoundsAssumption DEF Init, TableTypes
<1>3. DeviceTypes
  BY BoundsAssumption DEF Init, DeviceTypes
<1>4. PastTypes
  BY DEF Init, PastTypes
<1> QED
  BY <1>1, <1>2, <1>3, <1>4, TypeParts

(* TypeOK: the variables keep their types, and every statement is executed *)
(* for a request of the kind its handler serves.                           *)
THEOREM TypeCorrect == Spec => []TypeOK
BY TypeInit, TypeStep, PTL DEF Spec

-----------------------------------------------------------------------------
(***************************************************************************)
(* The lineage of a command.  The histories only grow, so it is enough     *)
(* that each right is recorded when it is given: the owner of a device,    *)
(* the sender of an invite, the consent of the one who accepted it, and    *)
(* the ownership that a handler found before it creates an invite.         *)
(***************************************************************************)
OwnersRecorded ==
    \A d \in Devices : owner[d] \in Users => <<d, owner[d]>> \in owners

InvitesHaveOwners == \A i \in invites : <<i.device, i.sender>> \in owners

AcceptedIsConsented ==
    \A i \in invites : i.accepted => <<i.device, i.sender, i.receiver>> \in consents

CreatorsOwned ==
    \A c \in Clients, d \in Devices : Creating(c, d) => <<d, User(c)>> \in owners

LInv ==
    /\ TypeOK
    /\ OwnersRecorded
    /\ InvitesHaveOwners
    /\ AcceptedIsConsented
    /\ CreatorsOwned
    /\ CommandsHaveLineage

LEMMA HistoriesGrow == [Next]_vars => owners \subseteq owners' /\ consents \subseteq consents'
BY DEF Next, Register, Begin, Adopt, Fail, Control, ReadOwner, ReadInvites, Publish,
       Leave, ReadOwned, Disown, ClearDevice, ClearUser, Erase, Invite, CheckSender,
       FindReceiver, CheckPending, Insert, Answer, Accept, Reject, Cancel, Update,
       Expire, Pair, SendHeartbeat, LoseHeartbeat, HandleHeartbeat, Owns, past, vars

LEMMA OwnersRecordedStep == LInv /\ [Next]_vars => OwnersRecorded'
<1> SUFFICES ASSUME LInv, [Next]_vars PROVE OwnersRecorded'
  OBVIOUS
<1>0. HandlerTypes /\ TableTypes /\ DeviceTypes /\ OwnersRecorded /\ owners \subseteq owners'
  BY TypeParts, HistoriesGrow DEF LInv
<1> USE DEF OwnersRecorded
<1>1. CASE UNCHANGED owner
  BY <1>0, <1>1
<1>2. ASSUME NEW c \in Clients, NEW r \in Registration, Adopt(c, r)
      PROVE  OwnersRecorded'
  BY <1>0, <1>2, NamesAssumption DEF Adopt, Owns, Registration, TableTypes
<1>3. ASSUME NEW c \in Clients, Disown(c)
      PROVE  OwnersRecorded'
  BY <1>0, <1>3, NamesAssumption DEF Disown, TableTypes
<1>4. ASSUME NEW d \in Devices, HandleHeartbeat(d)
      PROVE  OwnersRecorded'
  BY <1>0, <1>4 DEF HandleHeartbeat, Owns, TableTypes
<1> QED
  BY <1>1, <1>2, <1>3, <1>4
     DEF Next, Register, Begin, Fail, Control, ReadOwner, ReadInvites, Publish, Leave,
         ReadOwned, ClearDevice, ClearUser, Erase, Invite, CheckSender, FindReceiver,
         CheckPending, Insert, Answer, Accept, Reject, Cancel, Update, Expire, Pair,
         SendHeartbeat, LoseHeartbeat, tables, vars

(* A row of the next state is a new one, or was there with the same device, *)
(* sender and receiver, and was accepted then unless it is now consented.   *)
LEMMA RowsStep ==
    ASSUME TypeOK, Next, NEW j \in invites'
    PROVE  \/ \E c \in Clients :
                 /\ pc[c] = "insert"
                 /\ j.device = Device(c) /\ j.sender = User(c) /\ ~j.accepted
           \/ \E i \in invites :
                 /\ j.device = i.device /\ j.sender = i.sender /\ j.receiver = i.receiver
                 /\ j.accepted => \/ i.accepted
                                  \/ <<i.device, i.sender, i.receiver>> \in consents'
<1>0. invites \subseteq Invites
  BY DEF TypeOK
<1>1. CASE invites' \subseteq invites
  BY <1>1
<1>2. ASSUME NEW c \in Clients, Insert(c)
      PROVE  \/ j \in invites
             \/ pc[c] = "insert" /\ j.device = Device(c) /\ j.sender = User(c) /\ ~j.accepted
  BY <1>2 DEF Insert
<1>3. ASSUME NEW c \in Clients, Accept(c)
      PROVE  \E i \in invites :
                 /\ j.device = i.device /\ j.sender = i.sender /\ j.receiver = i.receiver
                 /\ j.accepted => \/ i.accepted
                                  \/ <<i.device, i.sender, i.receiver>> \in consents'
  <2>1. CASE j \in invites
    BY <1>3, <2>1 DEF Accept
  <2>2. CASE j \notin invites
    <3> PICK i \in Matching(c, "receiver") : ~i.accepted /\ j = [i EXCEPT !.accepted = TRUE]
      BY <1>3, <2>2 DEF Accept
    <3>1. i \in invites /\ <<i.device, i.sender, i.receiver>> \in consents'
      BY <1>3 DEF Accept, Matching
    <3>2. j.device = i.device /\ j.sender = i.sender /\ j.receiver = i.receiver
      BY <1>0, <3>1 DEF Invites
    <3> QED
      BY <3>1, <3>2
  <2> QED
    BY <2>1, <2>2
<1>4. ASSUME NEW i \in invites, NEW e \in BOOLEAN, j = [i EXCEPT !.expired = e]
      PROVE  /\ j.device = i.device /\ j.sender = i.sender /\ j.receiver = i.receiver
             /\ j.accepted = i.accepted
  BY <1>0, <1>4 DEF Invites
<1>5. ASSUME NEW c \in Clients, Update(c)
      PROVE  \/ j \in invites
             \/ \E i \in invites : j = [i EXCEPT !.expired = FALSE]
  BY <1>5 DEF Update, Matching
<1>6. ASSUME NEW i \in invites, Expire(i)
      PROVE  j \in invites \/ j = [i EXCEPT !.expired = TRUE]
  BY <1>6 DEF Expire
<1>7. CASE \E i \in invites : Expire(i)
  BY <1>4, <1>6, <1>7
<1>8. CASE \E c \in Clients : Update(c)
  BY <1>4, <1>5, <1>8
<1>9. CASE \E c \in Clients : Insert(c)
  BY <1>2, <1>9
<1> QED
  BY <1>1, <1>3, <1>7, <1>8, <1>9
     DEF Next, Register, Begin, Adopt, Fail, Control, ReadOwner, ReadInvites, Publish,
         Leave, ReadOwned, Disown, ClearDevice, ClearUser, Erase, Invite, CheckSender,
         FindReceiver, CheckPending, Answer, Reject, Cancel, Pair, SendHeartbeat,
         LoseHeartbeat, HandleHeartbeat, tables

LEMMA InvitesStep == LInv /\ [Next]_vars => InvitesHaveOwners' /\ AcceptedIsConsented'
<1> SUFFICES ASSUME LInv, [Next]_vars PROVE InvitesHaveOwners' /\ AcceptedIsConsented'
  OBVIOUS
<1>0. /\ TypeOK /\ InvitesHaveOwners /\ AcceptedIsConsented /\ CreatorsOwned
      /\ owners \subseteq owners' /\ consents \subseteq consents'
  BY HistoriesGrow DEF LInv
<1>1. CASE UNCHANGED vars
  BY <1>0, <1>1 DEF vars, tables, InvitesHaveOwners, AcceptedIsConsented
<1>2. CASE Next
  <2> SUFFICES ASSUME NEW j \in invites'
               PROVE  /\ <<j.device, j.sender>> \in owners'
                      /\ j.accepted => <<j.device, j.sender, j.receiver>> \in consents'
    BY DEF InvitesHaveOwners, AcceptedIsConsented
  <2>1. ASSUME NEW c \in Clients, pc[c] = "insert"
        PROVE  <<Device(c), User(c)>> \in owners
    <3>1. Device(c) \in Devices
      BY <1>0, <2>1, TypeParts, CallTypes
    <3> QED
      BY <1>0, <2>1, <3>1 DEF CreatorsOwned, Creating
  <2>2. ASSUME NEW i \in invites
        PROVE  /\ <<i.device, i.sender>> \in owners'
               /\ i.accepted => <<i.device, i.sender, i.receiver>> \in consents'
    BY <1>0, <2>2 DEF InvitesHaveOwners, AcceptedIsConsented
  <2> QED
    BY <1>0, <1>2, <2>1, <2>2, RowsStep
<1> QED
  BY <1>1, <1>2

(* A handler is at a statement after a step because it was there before,   *)
(* or it has just moved to it.                                             *)
LEMMA CreatorsStep == LInv /\ [Next]_vars => CreatorsOwned'
<1> SUFFICES ASSUME LInv, [Next]_vars, NEW c \in Clients, NEW d \in Devices, Creating(c, d)'
             PROVE  <<d, User(c)'>> \in owners'
  BY DEF CreatorsOwned
<1>0. HandlerTypes /\ OwnersRecorded /\ CreatorsOwned /\ owners \subseteq owners'
  BY TypeParts, HistoriesGrow DEF LInv
<1>1. CASE Creating(c, d) /\ call'[c] = call[c]
  BY <1>0, <1>1 DEF CreatorsOwned, User
<1>2. CASE CheckSender(c)
  <2>1. owner[Device(c)] = User(c) /\ call' = call /\ Device(c) = d
    BY <1>0, <1>2 DEF CheckSender, GotoIf, Goto, Return, Creating, HandlerTypes, Device
  <2>2. User(c) \in Users
    BY <1>0, <1>2, CallTypes DEF CheckSender
  <2> QED
    BY <1>0, <2>1, <2>2 DEF OwnersRecorded, User
<1>3. CASE pc'[c] = pc[c] /\ call'[c] = call[c]
  BY <1>1, <1>3 DEF Creating, Device
<1>4. ASSUME NEW e \in Clients, NEW r \in Requests, Begin(e, r)
      PROVE  pc'[c] = pc[c] /\ call'[c] = call[c]
  <2>1. First[r.op] \in {"owner_or_guest", "guest", "owned", "sender", "change", "disown"}
    BY DEF First, Requests, OnDevice, Creation, OnInvite, Deletion
  <2> QED
    BY <1>0, <1>4, <2>1 DEF Begin, Arrive, Creating, HandlerTypes
<1>5. ASSUME NEW e \in Clients, NEW r \in Registration, Adopt(e, r)
      PROVE  pc'[c] = pc[c] /\ call'[c] = call[c]
  BY <1>0, <1>5 DEF Adopt, Arrive, Creating, HandlerTypes
<1>6. ASSUME NEW e \in Clients, FindReceiver(e) \/ CheckPending(e)
      PROVE  call'[c] = call[c] /\ Creating(c, d)
  BY <1>0, <1>6 DEF FindReceiver, CheckPending, GotoIf, Goto, Return, Creating,
                    HandlerTypes, Device
<1>7. ASSUME NEW e \in Clients, Return(e)
      PROVE  pc'[c] = pc[c] /\ call'[c] = call[c]
  BY <1>0, <1>7 DEF Return, Creating, HandlerTypes
<1>8. ASSUME NEW e \in Clients, NEW s \in {"guest", "publish", "disown", "clear", "erase"}, Goto(e, s)
      PROVE  pc'[c] = pc[c] /\ call'[c] = call[c]
  BY <1>0, <1>8 DEF Goto, Creating, HandlerTypes
<1>9. ASSUME NEW e \in Clients, e # c, CheckSender(e)
      PROVE  pc'[c] = pc[c] /\ call'[c] = call[c]
  BY <1>0, <1>9 DEF CheckSender, GotoIf, Goto, Return, HandlerTypes
<1>10. ASSUME NEW e \in Clients,
              Fail(e) \/ Control(e) \/ Leave(e) \/ Invite(e) \/ Answer(e)
       PROVE  <<d, User(c)'>> \in owners'
  BY <1>1, <1>2, <1>3, <1>6, <1>7, <1>8, <1>9, <1>10
     DEF Fail, Control, ReadOwner, ReadInvites, Publish, Leave, ReadOwned, Disown,
         ClearDevice, ClearUser, Erase, Invite, Insert, Answer, Accept, Reject, Cancel,
         Update, GotoIf
<1> QED
  BY <1>3, <1>4, <1>5, <1>10
     DEF Next, Register, Expire, Pair, SendHeartbeat, LoseHeartbeat, HandleHeartbeat,
         handlers, vars

LEMMA CommandsStep == LInv /\ [Next]_vars => CommandsHaveLineage'
<1> SUFFICES ASSUME LInv, [Next]_vars, NEW c \in Clients, pc'[c] = "publish"
             PROVE  \/ <<Device(c)', User(c)'>> \in owners'
                    \/ \E s \in Users : /\ <<Device(c)', s, User(c)'>> \in consents'
                                        /\ <<Device(c)', s>> \in owners'
  BY DEF CommandsHaveLineage
<1>0. /\ HandlerTypes /\ TableTypes /\ OwnersRecorded /\ InvitesHaveOwners
      /\ AcceptedIsConsented /\ CommandsHaveLineage
      /\ owners \subseteq owners' /\ consents \subseteq consents'
  BY TypeParts, HistoriesGrow DEF LInv
<1>1. CASE pc'[c] = pc[c] /\ call'[c] = call[c]
  BY <1>0, <1>1 DEF CommandsHaveLineage, Device, User
<1>2. CASE ReadOwner(c)
  <2>1. owner[Device(c)] = User(c) /\ call' = call
    BY <1>0, <1>2 DEF ReadOwner, Goto, Return, HandlerTypes
  <2>2. User(c) \in Users /\ Device(c) \in Devices
    BY <1>0, <1>2, CallTypes DEF ReadOwner
  <2> QED
    BY <1>0, <2>1, <2>2 DEF OwnersRecorded, Device, User
<1>3. CASE ReadInvites(c)
  <2>1. Guest(Device(c), User(c)) /\ call' = call
    BY <1>0, <1>3 DEF ReadInvites, GotoIf, Goto, Return, HandlerTypes
  <2> PICK i \in invites : i.device = Device(c) /\ i.receiver = User(c) /\ i.accepted
    BY <2>1 DEF Guest
  <2>2. i.sender \in Users
    BY <1>0 DEF TableTypes, Invites
  <2>3. <<i.device, i.sender, i.receiver>> \in consents /\ <<i.device, i.sender>> \in owners
    BY <1>0 DEF AcceptedIsConsented, InvitesHaveOwners
  <2> QED
    BY <1>0, <2>1, <2>2, <2>3 DEF Device, User
<1>4. ASSUME NEW e \in Clients, NEW r \in Requests, Begin(e, r)
      PROVE  pc'[c] = pc[c] /\ call'[c] = call[c]
  <2>1. First[r.op] # "publish"
    BY DEF First, Requests, OnDevice, Creation, OnInvite, Deletion
  <2> QED
    BY <1>0, <1>4, <2>1 DEF Begin, Arrive, HandlerTypes
<1>5. ASSUME NEW e \in Clients, NEW r \in Registration, Adopt(e, r)
      PROVE  pc'[c] = pc[c] /\ call'[c] = call[c]
  BY <1>0, <1>5 DEF Adopt, Arrive, HandlerTypes
<1>6. ASSUME NEW e \in Clients, Return(e)
      PROVE  pc'[c] = pc[c] /\ call'[c] = call[c]
  BY <1>0, <1>6 DEF Return, HandlerTypes
<1>7. ASSUME NEW e \in Clients, NEW s \in Statements \ {"publish"}, Goto(e, s)
      PROVE  pc'[c] = pc[c] /\ call'[c] = call[c]
  BY <1>0, <1>7 DEF Goto, HandlerTypes
<1>8. ASSUME NEW e \in Clients, e # c, ReadOwner(e) \/ ReadInvites(e)
      PROVE  pc'[c] = pc[c] /\ call'[c] = call[c]
  BY <1>0, <1>8 DEF ReadOwner, ReadInvites, GotoIf, Goto, Return, HandlerTypes
<1>9. ASSUME NEW e \in Clients,
             Fail(e) \/ Control(e) \/ Leave(e) \/ Invite(e) \/ Answer(e)
      PROVE  \/ ReadOwner(c) \/ ReadInvites(c)
             \/ pc'[c] = pc[c] /\ call'[c] = call[c]
  BY <1>6, <1>7, <1>8, <1>9
     DEF Statements, Fail, Control, Publish, Leave, ReadOwned, Disown, ClearDevice,
         ClearUser, Erase, Invite, CheckSender, FindReceiver, CheckPending, Insert,
         Answer, Accept, Reject, Cancel, Update, GotoIf
<1> QED
  BY <1>1, <1>2, <1>3, <1>4, <1>5, <1>9
     DEF Next, Register, Expire, Pair, SendHeartbeat, LoseHeartbeat, HandleHeartbeat,
         handlers, vars

LEMMA LInvInit == Init => LInv
<1> SUFFICES ASSUME Init PROVE LInv
  OBVIOUS
<1>1. TypeOK
  BY TypeInit
<1> QED
  BY <1>1, NamesAssumption
     DEF Init, LInv, OwnersRecorded, InvitesHaveOwners, AcceptedIsConsented,
         CreatorsOwned, Creating, CommandsHaveLineage

LEMMA LInvStep == LInv /\ [Next]_vars => LInv'
<1>1. LInv => TypeOK
  BY DEF LInv
<1> QED
  BY <1>1, TypeStep, OwnersRecordedStep, InvitesStep, CreatorsStep, CommandsStep DEF LInv

(* CommandsHaveLineage: whatever the heartbeats, the failures and the      *)
(* interleavings of handlers, whoever commands a device owned it at some   *)
(* time or accepted an invite from somebody who had.                       *)
THEOREM CommandsDescend == Spec => []CommandsHaveLineage
<1>1. LInv => CommandsHaveLineage
  BY DEF LInv
<1> QED
  BY <1>1, LInvInit, LInvStep, PTL DEF Spec

-----------------------------------------------------------------------------
(***************************************************************************)
(* Unpairing.  A device that is released has no owner, so no handler finds *)
(* its sender to be the owner, and none was past that point when it was    *)
(* released: no invite to it can appear.                                   *)
(***************************************************************************)
NoneCreating ==
    \A d \in Devices : released[d] => \A c \in Clients : ~Creating(c, d)

UInv == TypeOK /\ UnpairClears /\ NoneCreating

LEMMA NoneCreatingStep == UInv /\ [Next]_vars => NoneCreating'
<1> SUFFICES ASSUME UInv, [Next]_vars, NEW d \in Devices, released'[d],
                    NEW c \in Clients, Creating(c, d)'
             PROVE  FALSE
  BY DEF NoneCreating
<1>0. HandlerTypes /\ TableTypes /\ PastTypes /\ UnpairClears /\ NoneCreating
  BY TypeParts DEF UInv
<1>1. CASE Creating(c, d) /\ released[d]
  BY <1>0, <1>1 DEF NoneCreating
<1>2. CASE pc'[c] = pc[c] /\ call'[c] = call[c] /\ released[d]
  BY <1>1, <1>2 DEF Creating, Device
<1>3. ASSUME NEW e \in Clients, CheckSender(e)
      PROVE  FALSE
  <2>1. released[d]
    BY <1>3 DEF CheckSender, past
  <2>2. CASE e = c
    <3>1. owner[d] = User(c) /\ User(c) \in Users
      BY <1>0, <1>3, <2>2, CallTypes
         DEF CheckSender, GotoIf, Goto, Return, Creating, HandlerTypes, Device
    <3> QED
      BY <1>0, <2>1, <3>1, NamesAssumption DEF UnpairClears
  <2>3. CASE e # c
    BY <1>0, <1>2, <1>3, <2>1, <2>3 DEF CheckSender, GotoIf, Goto, Return, HandlerTypes
  <2> QED
    BY <2>2, <2>3
<1>4. ASSUME NEW e \in Clients, NEW r \in Requests, Begin(e, r)
      PROVE  FALSE
  <2>1. First[r.op] \in {"owner_or_guest", "guest", "owned", "sender", "change", "disown"}
    BY DEF First, Requests, OnDevice, Creation, OnInvite, Deletion
  <2>2. pc'[c] = pc[c] /\ call'[c] = call[c]
    BY <1>0, <1>4, <2>1 DEF Begin, Arrive, Creating, HandlerTypes
  <2> QED
    BY <1>2, <1>4, <2>2 DEF Begin, past
<1>5. ASSUME NEW e \in Clients, NEW r \in Registration, Adopt(e, r)
      PROVE  FALSE
  <2>1. pc'[c] = pc[c] /\ call'[c] = call[c]
    BY <1>0, <1>5 DEF Adopt, Arrive, Creating, HandlerTypes
  <2>2. released[d]
    BY <1>0, <1>5 DEF Adopt, PastTypes
  <2> QED
    BY <1>2, <2>1, <2>2
<1>6. ASSUME NEW e \in Clients, FindReceiver(e) \/ CheckPending(e)
      PROVE  FALSE
  <2>1. released[d] /\ Creating(c, d)
    BY <1>0, <1>6 DEF FindReceiver, CheckPending, GotoIf, Goto, Return, Creating,
                      HandlerTypes, Device, past
  <2> QED
    BY <1>1, <2>1
<1>7. ASSUME NEW e \in Clients, Return(e)
      PROVE  pc'[c] = pc[c] /\ call'[c] = call[c] /\ Creating(c, d)
  BY <1>0, <1>7 DEF Return, Creating, HandlerTypes, Device
<1>8. ASSUME NEW e \in Clients, ClearDevice(e)
      PROVE  FALSE
  <2>1. CASE Device(e) = d
    <3>1. ~Creating(c, d)
      BY <1>0, <1>8, <2>1 DEF ClearDevice, PastTypes
    <3> QED
      BY <1>7, <1>8, <3>1 DEF ClearDevice
  <2>2. CASE Device(e) # d
    BY <1>0, <1>1, <1>7, <1>8, <2>2 DEF ClearDevice, PastTypes
  <2> QED
    BY <2>1, <2>2
<1>9. ASSUME NEW e \in Clients, NEW s \in {"guest", "publish", "disown", "clear", "erase"}, Goto(e, s)
      PROVE  pc'[c] = pc[c] /\ call'[c] = call[c]
  BY <1>0, <1>9 DEF Goto, Creating, HandlerTypes
<1>10. ASSUME NEW e \in Clients,
              \/ Fail(e) \/ ReadOwner(e) \/ ReadInvites(e) \/ Publish(e) \/ ReadOwned(e)
              \/ Disown(e) \/ ClearUser(e) \/ Erase(e) \/ Insert(e)
              \/ Accept(e) \/ Reject(e) \/ Cancel(e) \/ Update(e)
       PROVE  FALSE
  <2>1. released' = released
    BY <1>10 DEF Fail, ReadOwner, ReadInvites, Publish, ReadOwned, Disown, ClearUser,
                 Erase, Insert, Accept, Reject, Cancel, Update, past
  <2>2. \/ Return(e)
        \/ \E s \in {"guest", "publish", "disown", "clear", "erase"} : Goto(e, s)
    BY <1>10 DEF Fail, ReadOwner, ReadInvites, Publish, ReadOwned, Disown, ClearUser,
                 Erase, Insert, Accept, Reject, Cancel, Update, GotoIf
  <2> QED
    BY <1>2, <1>7, <1>9, <2>1, <2>2
<1>11. ASSUME NEW e \in Devices, HandleHeartbeat(e)
       PROVE  FALSE
  BY <1>0, <1>2, <1>11 DEF HandleHeartbeat, handlers, PastTypes
<1>12. CASE UNCHANGED <<handlers, released>>
  BY <1>2, <1>12 DEF handlers
<1> QED
  BY <1>3, <1>4, <1>5, <1>6, <1>8, <1>10, <1>11, <1>12
     DEF Next, Register, Control, Leave, Invite, Answer, Expire, Pair, SendHeartbeat,
         LoseHeartbeat, past, vars

LEMMA UnpairClearsStep == UInv /\ [Next]_vars => UnpairClears'
<1> SUFFICES ASSUME UInv, [Next]_vars, NEW d \in Devices, released'[d]
             PROVE  owner'[d] = Null /\ \A j \in invites' : j.device # d
  BY DEF UnpairClears
<1>0. HandlerTypes /\ TableTypes /\ PastTypes /\ UnpairClears /\ NoneCreating /\ TypeOK
  BY TypeParts DEF UInv
<1>1. CASE released[d]
  <2>1. owner[d] = Null /\ (\A i \in invites : i.device # d)
        /\ \A c \in Clients : ~Creating(c, d)
    BY <1>0, <1>1 DEF UnpairClears, NoneCreating
  <2>2. \A j \in invites' : j.device # d
    <3>1. CASE Next
      BY <1>0, <2>1, <3>1, RowsStep DEF Creating
    <3> QED
      BY <2>1, <3>1 DEF vars, tables
  <2>3. owner'[d] = Null
    <3>1. ASSUME NEW c \in Clients, NEW r \in Registration, Adopt(c, r)
          PROVE  owner'[d] = owner[d]
      BY <1>0, <3>1 DEF Adopt, PastTypes, TableTypes
    <3>2. ASSUME NEW e \in Devices, HandleHeartbeat(e)
          PROVE  owner'[d] = owner[d]
      BY <1>0, <3>2 DEF HandleHeartbeat, PastTypes, TableTypes
    <3>3. ASSUME NEW c \in Clients, Disown(c)
          PROVE  owner'[d] = Null
      BY <2>1, <3>3 DEF Disown
    <3> QED
      BY <2>1, <3>1, <3>2, <3>3
         DEF Next, Register, Begin, Fail, Control, ReadOwner, ReadInvites, Publish, Leave,
             ReadOwned, ClearDevice, ClearUser, Erase, Invite, CheckSender, FindReceiver,
             CheckPending, Insert, Answer, Accept, Reject, Cancel, Update, Expire, Pair,
             SendHeartbeat, LoseHeartbeat, tables, vars
  <2> QED
    BY <2>2, <2>3
<1>2. CASE ~released[d]
  <2>1. PICK c \in Clients : ClearDevice(c) /\ Device(c) = d
    <3>1. ASSUME NEW c \in Clients, ClearDevice(c)
          PROVE  Device(c) = d
      BY <1>0, <1>2, <3>1 DEF ClearDevice, PastTypes
    <3>2. ASSUME NEW c \in Clients, NEW r \in Registration, Adopt(c, r)
          PROVE  FALSE
      BY <1>0, <1>2, <3>2 DEF Adopt, PastTypes
    <3>3. ASSUME NEW e \in Devices, HandleHeartbeat(e)
          PROVE  FALSE
      BY <1>0, <1>2, <3>3 DEF HandleHeartbeat, PastTypes
    <3> QED
      BY <1>2, <3>1, <3>2, <3>3
         DEF Next, Register, Begin, Fail, Control, ReadOwner, ReadInvites, Publish, Leave,
             ReadOwned, Disown, ClearUser, Erase, Invite, CheckSender, FindReceiver,
             CheckPending, Insert, Answer, Accept, Reject, Cancel, Update, Expire, Pair,
             SendHeartbeat, LoseHeartbeat, past, vars
  <2> QED
    BY <1>0, <2>1 DEF ClearDevice, PastTypes
<1> QED
  BY <1>1, <1>2

(* UnpairClears: a device whose unpairing no heartbeat and no new invite   *)
(* overtook has neither owner nor guests until it is heard of again.       *)
THEOREM UnpairingClears == Spec => []UnpairClears
<1>1. Init => UInv
  <2>1. Init => TypeOK
    BY TypeInit
  <2> QED
    BY <2>1 DEF Init, UInv, UnpairClears, NoneCreating
<1>2. UInv /\ [Next]_vars => UInv'
  <2>1. UInv => TypeOK
    BY DEF UInv
  <2> QED
    BY <2>1, TypeStep, NoneCreatingStep, UnpairClearsStep DEF UInv
<1>3. UInv => UnpairClears
  BY DEF UInv
<1> QED
  BY <1>1, <1>2, <1>3, PTL DEF Spec

-----------------------------------------------------------------------------
(* The account of one user: Accounts. *)

(* A phone that waits for its backend has one call there. *)
CallsFit ==
    /\ \A c \in calls : c.awaited => WaitsFor(c.phone, c.operation)
    /\ \A c, d \in calls : c.awaited /\ d.awaited /\ c.phone = d.phone => c = d
    /\ \A p \in Phones :
         at[p] = "changing" => \E c \in calls : c.awaited /\ c.phone = p

(* What is registered or changed to is a password. *)
PasswordsGiven ==
    \A c \in calls :
        /\ c.operation = "register" => c.password = 1 /\ c.checked
        /\ c.operation = "update" => c.password # 0

(* Before anybody has signed up there is nothing. *)
NothingYet ==
    passwords = 0 =>
        /\ firebase = 0 /\ hashed = 0 /\ token = 0 /\ calls = {}
        /\ \A p \in Phones : at[p] = "idle" /\ stored[p] = 0

Profiling == \E p \in Phones : at[p] = "profiling"
Sent(operation) == \E c \in calls : c.operation = operation

(* While somebody signs up, others may at most have asked to log in. *)
SigningUp ==
    Profiling \/ Sent("register") =>
        /\ firebase # 0 /\ hashed = 0
        /\ \A p \in Phones :
               /\ stored[p] = 0
               /\ at[p] \in {"idle", "profiling", "registering", "logging_in"}
        /\ \A c \in calls :
               c.operation = "register" \/ (c.operation = "login" /\ ~c.checked)

(* There is one registration. *)
OneRegistration ==
    /\ \A p, q \in Phones : at[p] = "profiling" /\ at[q] = "profiling" => p = q
    /\ \A c, d \in calls : c.operation = "register" /\ d.operation = "register" => c = d
    /\ ~(Profiling /\ Sent("register"))

(* Whoever has got so far found an account in the backend; it goes after    *)
(* that of Firebase, which does not come back.                              *)
AccountKnown ==
    firebase # 0 /\ hashed = 0 =>
        /\ \A p \in Phones :
               /\ stored[p] = 0
               /\ at[p] \notin {"changing", "verifying", "erasing", "unlinking"}
        /\ \A c \in calls :
               /\ c.operation \notin {"update", "verify"}
               /\ c.operation = "login" => ~c.checked
        /\ firebase = 1 \/ doubt
DeletedFirst == Sent("delete") => firebase = 0

(* A token that was kept is one that was issued. *)
TokensIssued == \A p \in Phones : stored[p] <= issued

(* A change that nobody waits for is in doubt; one that has met no other is *)
(* the only one.                                                            *)
LeftInDoubt == ~doubt => \A c \in calls : c.operation = "update" => c.awaited
AloneIsAlone ==
    \A p \in Phones : at[p] = "changing" /\ alone[p] =>
        /\ \A q \in Phones : at[q] = "changing" => q = p
        /\ \A c \in calls : c.operation = "update" =>
               c.awaited /\ c.phone = p /\ (firebase # 0 => c.password = firebase)

(* PasswordsAgree, without its sets. *)
NoneChanging ==
    /\ \A p \in Phones : at[p] # "changing"
    /\ \A c \in calls : c.operation # "update"
Agree == firebase # 0 /\ hashed # 0 /\ ~doubt /\ NoneChanging => firebase = hashed

(* The profile goes before the user of Firebase. *)
ProfileGone ==
    /\ firebase = 0 => ~profile
    /\ \A p \in Phones : at[p] = "unlinking" => ~profile

(* What one service has and another has not is somebody's to finish. *)
Unfinished ==
    ~broken =>
        /\ \A c \in calls : c.operation \in {"register", "delete"} => c.awaited
        /\ firebase # 0 /\ hashed = 0 => Profiling \/ Sent("register")
        /\ firebase # 0 /\ ~profile =>
               \E p \in Phones : at[p] \in {"profiling", "unlinking"}
        /\ firebase = 0 /\ hashed # 0 => Sent("delete")

(* The types, in four parts that few actions disturb together. *)
CallsKnown == calls \subseteq Calls
PhonesKnown ==
    /\ at \in [Phones -> Steps]
    /\ stored \in [Phones -> 0..MaxTokens]
    /\ signed \in [Phones -> BOOLEAN]
    /\ alone \in [Phones -> BOOLEAN]
NumbersKnown ==
    /\ firebase \in 0..MaxPasswords /\ hashed \in 0..MaxPasswords
    /\ token \in 0..MaxTokens /\ issued \in 0..MaxTokens
    /\ passwords \in 0..MaxPasswords
FlagsKnown == profile \in BOOLEAN /\ broken \in BOOLEAN /\ doubt \in BOOLEAN

(* The inductive invariant. *)
AccountsInv ==
    /\ CallsKnown /\ PhonesKnown /\ NumbersKnown /\ FlagsKnown
    /\ CallsFit /\ PasswordsGiven
    /\ NothingYet /\ SigningUp /\ OneRegistration
    /\ AccountKnown /\ DeletedFirst /\ ProfileGone /\ Unfinished
    /\ LeftInDoubt /\ AloneIsAlone /\ Agree
    /\ TokensIssued /\ SessionsAreSuperseded

-----------------------------------------------------------------------------
(* A call that is checked takes the place of the one that was not. *)
LEMMA CheckTurns ==
    ASSUME CallsKnown, NEW c \in calls, Check(c)
    PROVE  \E n \in Calls :
             /\ calls' = (calls \ {c}) \cup {n}
             /\ n.phone = c.phone /\ n.operation = c.operation /\ n.token = c.token
             /\ n.password = c.password /\ n.awaited = c.awaited /\ n.checked = TRUE
<1> DEFINE n == [c EXCEPT !.checked = TRUE]
<1>1. c \in Calls
  BY DEF CallsKnown
<1>2. /\ n \in Calls /\ n.phone = c.phone /\ n.operation = c.operation
      /\ n.token = c.token /\ n.password = c.password /\ n.awaited = c.awaited
      /\ n.checked = TRUE
  BY <1>1 DEF Calls
<1>3. calls' = (calls \ {c}) \cup {n}
  BY DEF Check
<1>4. QED
  BY <1>2, <1>3

(* Of the calls of a phone that is cut short, what stays differs only in  *)
(* that nobody awaits it; the calls of others stay as they are.            *)
LEMMA InterruptLeaves ==
    ASSUME CallsKnown, NEW p \in Phones, Interrupt(p)
    PROVE  /\ \A d \in calls' :
                \/ d \in calls \ Awaited(p)
                \/ /\ d \in Calls /\ d.awaited = FALSE
                   /\ \E c \in Awaited(p) :
                        /\ d.phone = c.phone /\ d.operation = c.operation
                        /\ d.token = c.token /\ d.password = c.password
                        /\ d.checked = c.checked
           /\ calls \ Awaited(p) \subseteq calls'
<1> DEFINE left == {[c EXCEPT !.awaited = FALSE] : c \in Awaited(p)}
<1>1. \A c \in Awaited(p) : c \in Calls
  BY DEF CallsKnown, Awaited
<1>2. ASSUME NEW d \in left
      PROVE  /\ d \in Calls /\ d.awaited = FALSE
             /\ \E c \in Awaited(p) :
                  /\ d.phone = c.phone /\ d.operation = c.operation
                  /\ d.token = c.token /\ d.password = c.password
                  /\ d.checked = c.checked
  <2>1. PICK c \in Awaited(p) : d = [c EXCEPT !.awaited = FALSE]
    OBVIOUS
  <2>2. c \in Calls
    BY <1>1
  <2>3. /\ d \in Calls /\ d.awaited = FALSE
        /\ d.phone = c.phone /\ d.operation = c.operation
        /\ d.token = c.token /\ d.password = c.password
        /\ d.checked = c.checked
    BY <2>1, <2>2 DEF Calls
  <2>4. QED
    BY <2>3
<1>3. calls' = (calls \ Awaited(p)) \cup left \/ calls' = calls \ Awaited(p)
  BY DEF Interrupt
<1>4. QED
  BY <1>2, <1>3

-----------------------------------------------------------------------------
(* The account of Firebase is the first of three. *)
LEMMA SignUpStep ==
    ASSUME NEW p \in Phones, AccountsInv, SignUp(p)
    PROVE  AccountsInv'
<1> USE AccountsAssumption DEF services, row, phones, history
<1> USE DEF AccountsInv, CallsKnown, PhonesKnown, NumbersKnown, FlagsKnown, Calls,
            Steps
<1>1. CallsFit' /\ PasswordsGiven'
  BY DEF SignUp, MoveTo, CallsFit, PasswordsGiven, WaitsFor
<1>2. NothingYet' /\ SigningUp' /\ OneRegistration'
  BY DEF SignUp, MoveTo, NothingYet, SigningUp, OneRegistration, Sent
<1>3. AccountKnown' /\ DeletedFirst' /\ ProfileGone' /\ Unfinished'
  BY DEF SignUp, MoveTo, AccountKnown, DeletedFirst, ProfileGone, Unfinished,
         Profiling, Sent, NothingYet
<1>4. LeftInDoubt' /\ AloneIsAlone' /\ Agree'
  BY DEF SignUp, MoveTo, LeftInDoubt, AloneIsAlone, Agree, NothingYet
<1>5. TokensIssued' /\ SessionsAreSuperseded'
  BY DEF SignUp, TokensIssued, SessionsAreSuperseded
<1>6. CallsKnown' /\ PhonesKnown' /\ NumbersKnown' /\ FlagsKnown'
  BY DEF SignUp, MoveTo
<1> QED
  BY <1>1, <1>2, <1>3, <1>4, <1>5, <1>6

(* The profile is the second; the third is on its way. *)
LEMMA SaveProfileStep ==
    ASSUME NEW p \in Phones, AccountsInv, SaveProfile(p)
    PROVE  AccountsInv'
<1> USE AccountsAssumption DEF services, row, phones, history
<1> DEFINE n == [phone |-> p, operation |-> "register", token |-> stored[p],
                 password |-> 1, awaited |-> TRUE,
                 checked |-> "register" \in {"register", "logout"}]
<1>1. /\ n \in Calls /\ n.phone = p /\ n.operation = "register" /\ n.token = stored[p]
      /\ n.password = 1 /\ n.awaited = TRUE /\ n.checked = TRUE
  <2>1. ("register" \in {"register", "logout"}) = TRUE
    OBVIOUS
  <2>2. /\ stored[p] \in 0..MaxTokens /\ 1 \in 0..MaxPasswords
        /\ "register" \in Operations
    BY DEF AccountsInv, PhonesKnown, Operations
  <2>3. QED
    BY <2>1, <2>2 DEF Calls
<1>2. calls' = calls \cup {n}
  BY DEF SaveProfile, Call
<1> HIDE DEF n
<1> USE DEF AccountsInv, CallsKnown, PhonesKnown, NumbersKnown, FlagsKnown, Calls,
            Steps
<1>3. CallsFit' /\ PasswordsGiven'
  BY <1>1, <1>2 DEF SaveProfile, MoveTo, CallsFit, PasswordsGiven, WaitsFor
<1>4. NothingYet' /\ SigningUp' /\ OneRegistration'
  BY <1>1, <1>2 DEF SaveProfile, MoveTo, NothingYet, SigningUp, OneRegistration,
                    Profiling, Sent
<1>5. AccountKnown' /\ DeletedFirst' /\ ProfileGone' /\ Unfinished'
  BY <1>1, <1>2 DEF SaveProfile, MoveTo, AccountKnown, DeletedFirst,
                    ProfileGone, Unfinished, Profiling, Sent, SigningUp
<1>6. LeftInDoubt' /\ AloneIsAlone' /\ Agree'
  BY <1>1, <1>2 DEF SaveProfile, MoveTo, LeftInDoubt, AloneIsAlone, Agree,
                    NoneChanging
<1>7. TokensIssued' /\ SessionsAreSuperseded'
  BY <1>1, <1>2 DEF SaveProfile, TokensIssued, SessionsAreSuperseded
<1>8. CallsKnown' /\ PhonesKnown' /\ NumbersKnown' /\ FlagsKnown'
  BY <1>1, <1>2 DEF SaveProfile, MoveTo
<1> QED
  BY <1>3, <1>4, <1>5, <1>6, <1>7, <1>8

(* A login asks Firebase and the profile first. *)
LEMMA LogInStep ==
    ASSUME NEW p \in Phones, AccountsInv, LogIn(p), profile
    PROVE  AccountsInv'
<1> USE AccountsAssumption DEF services, row, phones, history
<1> DEFINE n == [phone |-> p, operation |-> "login", token |-> stored[p],
                 password |-> firebase, awaited |-> TRUE,
                 checked |-> "login" \in {"register", "logout"}]
<1>1. /\ n \in Calls /\ n.phone = p /\ n.operation = "login" /\ n.token = stored[p]
      /\ n.password = firebase /\ n.awaited = TRUE /\ n.checked = FALSE
  <2>1. ("login" \in {"register", "logout"}) = FALSE
    OBVIOUS
  <2>2. /\ stored[p] \in 0..MaxTokens /\ firebase \in 0..MaxPasswords
        /\ "login" \in Operations
    BY DEF AccountsInv, PhonesKnown, NumbersKnown, Operations
  <2>3. QED
    BY <2>1, <2>2 DEF Calls
<1>2. calls' = calls \cup {n}
  BY DEF LogIn, Call
<1> HIDE DEF n
<1> USE DEF AccountsInv, CallsKnown, PhonesKnown, NumbersKnown, FlagsKnown, Calls,
            Steps
<1>3. CallsFit' /\ PasswordsGiven'
  BY <1>1, <1>2 DEF LogIn, MoveTo, CallsFit, PasswordsGiven, WaitsFor
<1>4. NothingYet' /\ SigningUp' /\ OneRegistration'
  BY <1>1, <1>2 DEF LogIn, MoveTo, NothingYet, SigningUp, OneRegistration,
                    Profiling, Sent
<1>5. AccountKnown' /\ DeletedFirst' /\ ProfileGone' /\ Unfinished'
  BY <1>1, <1>2 DEF LogIn, MoveTo, AccountKnown, DeletedFirst, ProfileGone,
                    Unfinished, Profiling, Sent
<1>6. LeftInDoubt' /\ AloneIsAlone' /\ Agree'
  BY <1>1, <1>2 DEF LogIn, MoveTo, LeftInDoubt, AloneIsAlone, Agree,
                    NoneChanging
<1>7. TokensIssued' /\ SessionsAreSuperseded'
  BY <1>1, <1>2 DEF LogIn, TokensIssued, SessionsAreSuperseded
<1>8. CallsKnown' /\ PhonesKnown' /\ NumbersKnown' /\ FlagsKnown'
  BY <1>1, <1>2 DEF LogIn, MoveTo
<1> QED
  BY <1>3, <1>4, <1>5, <1>6, <1>7, <1>8

(* Without a profile the backend is not called. *)
LEMMA NoProfileStep ==
    ASSUME NEW p \in Phones, AccountsInv, LogIn(p), ~profile
    PROVE  AccountsInv'
<1> USE AccountsAssumption DEF services, row, phones, history
<1> USE DEF AccountsInv, CallsKnown, PhonesKnown, NumbersKnown, FlagsKnown, Calls,
            Steps
<1>1. CallsFit' /\ PasswordsGiven'
  BY DEF LogIn, CallsFit, PasswordsGiven, WaitsFor
<1>2. NothingYet' /\ SigningUp' /\ OneRegistration'
  BY DEF LogIn, NothingYet, SigningUp, OneRegistration, Profiling, Sent
<1>3. AccountKnown' /\ DeletedFirst' /\ ProfileGone' /\ Unfinished'
  BY DEF LogIn, AccountKnown, DeletedFirst, ProfileGone, Unfinished, Profiling,
         Sent
<1>4. LeftInDoubt' /\ AloneIsAlone' /\ Agree'
  BY DEF LogIn, LeftInDoubt, AloneIsAlone, Agree, NoneChanging
<1>5. TokensIssued' /\ SessionsAreSuperseded'
  BY DEF LogIn, TokensIssued, SessionsAreSuperseded
<1>6. CallsKnown' /\ PhonesKnown' /\ NumbersKnown' /\ FlagsKnown'
  BY DEF LogIn
<1> QED
  BY <1>1, <1>2, <1>3, <1>4, <1>5, <1>6

(* A logout is sent with the token that the phone keeps. *)
LEMMA LogOutStep ==
    ASSUME NEW p \in Phones, AccountsInv, LogOut(p)
    PROVE  AccountsInv'
<1> USE AccountsAssumption DEF services, row, phones, history
<1> DEFINE n == [phone |-> p, operation |-> "logout", token |-> stored[p],
                 password |-> 0, awaited |-> TRUE,
                 checked |-> "logout" \in {"register", "logout"}]
<1>1. /\ n \in Calls /\ n.phone = p /\ n.operation = "logout" /\ n.token = stored[p]
      /\ n.password = 0 /\ n.awaited = TRUE /\ n.checked = TRUE
  <2>1. ("logout" \in {"register", "logout"}) = TRUE
    OBVIOUS
  <2>2. /\ stored[p] \in 0..MaxTokens /\ 0 \in 0..MaxPasswords
        /\ "logout" \in Operations
    BY DEF AccountsInv, PhonesKnown, Operations
  <2>3. QED
    BY <2>1, <2>2 DEF Calls
<1>2. calls' = calls \cup {n}
  BY DEF LogOut, Call
<1> HIDE DEF n
<1> USE DEF AccountsInv, CallsKnown, PhonesKnown, NumbersKnown, FlagsKnown, Calls,
            Steps
<1>3. CallsFit' /\ PasswordsGiven'
  BY <1>1, <1>2 DEF LogOut, MoveTo, CallsFit, PasswordsGiven, WaitsFor
<1>4. NothingYet' /\ SigningUp' /\ OneRegistration'
  BY <1>1, <1>2 DEF LogOut, MoveTo, NothingYet, SigningUp, OneRegistration,
                    Profiling, Sent
<1>5. AccountKnown' /\ DeletedFirst' /\ ProfileGone' /\ Unfinished'
  BY <1>1, <1>2 DEF LogOut, MoveTo, AccountKnown, DeletedFirst, ProfileGone,
                    Unfinished, Sent
<1>6. LeftInDoubt' /\ AloneIsAlone' /\ Agree'
  BY <1>1, <1>2 DEF LogOut, MoveTo, LeftInDoubt, AloneIsAlone, Agree,
                    NoneChanging
<1>7. TokensIssued' /\ SessionsAreSuperseded'
  BY <1>1, <1>2 DEF LogOut, TokensIssued, SessionsAreSuperseded
<1>8. CallsKnown' /\ PhonesKnown' /\ NumbersKnown' /\ FlagsKnown'
  BY <1>1, <1>2 DEF LogOut, MoveTo
<1> QED
  BY <1>3, <1>4, <1>5, <1>6, <1>7, <1>8

(* Firebase has the new password before the backend. *)
LEMMA ChangePasswordStep ==
    ASSUME NEW p \in Phones, AccountsInv, ChangePassword(p)
    PROVE  AccountsInv'
<1> USE AccountsAssumption DEF services, row, phones, history
<1> DEFINE n == [phone |-> p, operation |-> "update", token |-> stored[p],
                 password |-> passwords + 1, awaited |-> TRUE,
                 checked |-> "update" \in {"register", "logout"}]
<1>1. /\ n \in Calls /\ n.phone = p /\ n.operation = "update" /\ n.token = stored[p]
      /\ n.password = passwords + 1 /\ n.awaited = TRUE /\ n.checked = FALSE
  <2>1. ("update" \in {"register", "logout"}) = FALSE
    OBVIOUS
  <2>2. /\ stored[p] \in 0..MaxTokens /\ passwords + 1 \in 0..MaxPasswords
        /\ "update" \in Operations
    BY DEF AccountsInv, PhonesKnown, NumbersKnown, Operations, ChangePassword
  <2>3. QED
    BY <2>1, <2>2 DEF Calls
<1>2. calls' = calls \cup {n}
  BY DEF ChangePassword, Call
<1> HIDE DEF n
<1> USE DEF AccountsInv, CallsKnown, PhonesKnown, NumbersKnown, FlagsKnown, Calls,
            Steps
<1>3. CallsFit' /\ PasswordsGiven'
  BY <1>1, <1>2 DEF ChangePassword, MoveTo, CallsFit, PasswordsGiven, WaitsFor
<1>4. NothingYet' /\ SigningUp' /\ OneRegistration'
  BY <1>1, <1>2 DEF ChangePassword, MoveTo, NothingYet, SigningUp,
                    OneRegistration, Profiling, Sent
<1>5. AccountKnown' /\ DeletedFirst' /\ ProfileGone' /\ Unfinished'
  BY <1>1, <1>2 DEF ChangePassword, MoveTo, AccountKnown, DeletedFirst,
                    ProfileGone, Unfinished, Sent
<1>6. LeftInDoubt' /\ AloneIsAlone' /\ Agree'
  BY <1>1, <1>2 DEF ChangePassword, MoveTo, LeftInDoubt, AloneIsAlone, Agree,
                    NoneChanging, CallsFit, WaitsFor, Updates
<1>7. TokensIssued' /\ SessionsAreSuperseded'
  BY <1>1, <1>2 DEF ChangePassword, TokensIssued, SessionsAreSuperseded
<1>8. CallsKnown' /\ PhonesKnown' /\ NumbersKnown' /\ FlagsKnown'
  BY <1>1, <1>2 DEF ChangePassword, MoveTo
<1> QED
  BY <1>3, <1>4, <1>5, <1>6, <1>7, <1>8

(* A reset leaves a doubt. *)
LEMMA ResetByMailStep ==
    ASSUME AccountsInv, ResetByMail
    PROVE  AccountsInv'
<1> USE AccountsAssumption DEF services, row, phones, history
<1> USE DEF AccountsInv, CallsKnown, PhonesKnown, NumbersKnown, FlagsKnown, Calls,
            Steps
<1>1. CallsFit' /\ PasswordsGiven'
  BY DEF ResetByMail, CallsFit, PasswordsGiven, WaitsFor
<1>2. NothingYet' /\ SigningUp' /\ OneRegistration'
  BY DEF ResetByMail, NothingYet, SigningUp, OneRegistration, Profiling, Sent
<1>3. AccountKnown' /\ DeletedFirst' /\ ProfileGone' /\ Unfinished'
  BY DEF ResetByMail, AccountKnown, DeletedFirst, ProfileGone, Unfinished,
         Profiling, Sent
<1>4. LeftInDoubt' /\ AloneIsAlone' /\ Agree'
  BY DEF ResetByMail, LeftInDoubt, AloneIsAlone, Agree
<1>5. TokensIssued' /\ SessionsAreSuperseded'
  BY DEF ResetByMail, TokensIssued, SessionsAreSuperseded
<1>6. CallsKnown' /\ PhonesKnown' /\ NumbersKnown' /\ FlagsKnown'
  BY DEF ResetByMail
<1> QED
  BY <1>1, <1>2, <1>3, <1>4, <1>5, <1>6

(* A deletion begins with a password, which need not be the right one. *)
LEMMA DeleteAccountStep ==
    ASSUME NEW p \in Phones, AccountsInv, DeleteAccount(p)
    PROVE  AccountsInv'
<1> USE AccountsAssumption DEF services, row, phones, history
<1>1. PICK password \in 1..passwords : Call(p, "verify", password)
  BY DEF DeleteAccount
<1> DEFINE n == [phone |-> p, operation |-> "verify", token |-> stored[p],
                 password |-> password, awaited |-> TRUE,
                 checked |-> "verify" \in {"register", "logout"}]
<1>2. /\ n \in Calls /\ n.phone = p /\ n.operation = "verify" /\ n.token = stored[p]
      /\ n.password = password /\ n.awaited = TRUE /\ n.checked = FALSE
  <2>1. ("verify" \in {"register", "logout"}) = FALSE
    OBVIOUS
  <2>2. /\ stored[p] \in 0..MaxTokens /\ password \in 0..MaxPasswords
        /\ "verify" \in Operations
    BY DEF AccountsInv, PhonesKnown, NumbersKnown, Operations
  <2>3. QED
    BY <2>1, <2>2 DEF Calls
<1>3. calls' = calls \cup {n}
  BY <1>1 DEF Call
<1> HIDE DEF n
<1> USE DEF AccountsInv, CallsKnown, PhonesKnown, NumbersKnown, FlagsKnown, Calls,
            Steps
<1>4. CallsFit' /\ PasswordsGiven'
  BY <1>1, <1>2, <1>3 DEF DeleteAccount, MoveTo, CallsFit, PasswordsGiven,
                          WaitsFor
<1>5. NothingYet' /\ SigningUp' /\ OneRegistration'
  BY <1>1, <1>2, <1>3 DEF DeleteAccount, MoveTo, NothingYet, SigningUp,
                          OneRegistration, Profiling, Sent
<1>6. AccountKnown' /\ DeletedFirst' /\ ProfileGone' /\ Unfinished'
  BY <1>1, <1>2, <1>3 DEF DeleteAccount, MoveTo, AccountKnown, DeletedFirst,
                          ProfileGone, Unfinished, Sent
<1>7. LeftInDoubt' /\ AloneIsAlone' /\ Agree'
  BY <1>1, <1>2, <1>3 DEF DeleteAccount, MoveTo, LeftInDoubt, AloneIsAlone,
                          Agree, NoneChanging
<1>8. TokensIssued' /\ SessionsAreSuperseded'
  BY <1>1, <1>2, <1>3 DEF DeleteAccount, TokensIssued, SessionsAreSuperseded
<1>9. CallsKnown' /\ PhonesKnown' /\ NumbersKnown' /\ FlagsKnown'
  BY <1>1, <1>2, <1>3 DEF DeleteAccount, MoveTo
<1> QED
  BY <1>4, <1>5, <1>6, <1>7, <1>8, <1>9

(* The profile is the first to go. *)
LEMMA EraseProfileStep ==
    ASSUME NEW p \in Phones, AccountsInv, EraseProfile(p)
    PROVE  AccountsInv'
<1> USE AccountsAssumption DEF services, row, phones, history
<1> USE DEF AccountsInv, CallsKnown, PhonesKnown, NumbersKnown, FlagsKnown, Calls,
            Steps
<1>1. CallsFit' /\ PasswordsGiven'
  BY DEF EraseProfile, MoveTo, CallsFit, PasswordsGiven, WaitsFor
<1>2. NothingYet' /\ SigningUp' /\ OneRegistration'
  BY DEF EraseProfile, MoveTo, NothingYet, SigningUp, OneRegistration,
         Profiling, Sent
<1>3. AccountKnown' /\ DeletedFirst' /\ ProfileGone' /\ Unfinished'
  BY DEF EraseProfile, MoveTo, AccountKnown, DeletedFirst, ProfileGone,
         Unfinished, Sent
<1>4. LeftInDoubt' /\ AloneIsAlone' /\ Agree'
  BY DEF EraseProfile, MoveTo, LeftInDoubt, AloneIsAlone, Agree, NoneChanging
<1>5. TokensIssued' /\ SessionsAreSuperseded'
  BY DEF EraseProfile, TokensIssued, SessionsAreSuperseded
<1>6. CallsKnown' /\ PhonesKnown' /\ NumbersKnown' /\ FlagsKnown'
  <2>1. CallsKnown' /\ NumbersKnown'
    BY DEF EraseProfile
  <2>2. PhonesKnown'
    BY DEF EraseProfile, MoveTo
  <2>3. FlagsKnown'
    BY DEF EraseProfile
  <2> QED
    BY <2>1, <2>2, <2>3
<1> QED
  BY <1>1, <1>2, <1>3, <1>4, <1>5, <1>6

(* The account of Firebase is the second; the third is on its way. *)
LEMMA DeleteUserStep ==
    ASSUME NEW p \in Phones, AccountsInv, DeleteUser(p)
    PROVE  AccountsInv'
<1> USE AccountsAssumption DEF services, row, phones, history
<1> DEFINE n == [phone |-> p, operation |-> "delete", token |-> stored[p],
                 password |-> 0, awaited |-> TRUE,
                 checked |-> "delete" \in {"register", "logout"}]
<1>1. /\ n \in Calls /\ n.phone = p /\ n.operation = "delete" /\ n.token = stored[p]
      /\ n.password = 0 /\ n.awaited = TRUE /\ n.checked = FALSE
  <2>1. ("delete" \in {"register", "logout"}) = FALSE
    OBVIOUS
  <2>2. /\ stored[p] \in 0..MaxTokens /\ 0 \in 0..MaxPasswords
        /\ "delete" \in Operations
    BY DEF AccountsInv, PhonesKnown, Operations
  <2>3. QED
    BY <2>1, <2>2 DEF Calls
<1>2. calls' = calls \cup {n}
  BY DEF DeleteUser, Call
<1> HIDE DEF n
<1> USE DEF AccountsInv, CallsKnown, PhonesKnown, NumbersKnown, FlagsKnown, Calls,
            Steps
<1>3. CallsFit' /\ PasswordsGiven'
  BY <1>1, <1>2 DEF DeleteUser, MoveTo, CallsFit, PasswordsGiven, WaitsFor
<1>4. NothingYet' /\ SigningUp' /\ OneRegistration'
  BY <1>1, <1>2 DEF DeleteUser, MoveTo, NothingYet, SigningUp, OneRegistration,
                    Profiling, Sent
<1>5. AccountKnown' /\ DeletedFirst' /\ ProfileGone' /\ Unfinished'
  BY <1>1, <1>2 DEF DeleteUser, AccountKnown, DeletedFirst, ProfileGone,
                    Unfinished, Sent
<1>6. LeftInDoubt' /\ AloneIsAlone' /\ Agree'
  BY <1>1, <1>2 DEF DeleteUser, MoveTo, LeftInDoubt, AloneIsAlone, Agree
<1>7. TokensIssued' /\ SessionsAreSuperseded'
  BY <1>1, <1>2 DEF DeleteUser, TokensIssued, SessionsAreSuperseded
<1>8. CallsKnown' /\ PhonesKnown' /\ NumbersKnown' /\ FlagsKnown'
  BY <1>1, <1>2 DEF DeleteUser, MoveTo
<1> QED
  BY <1>3, <1>4, <1>5, <1>6, <1>7, <1>8

(* Whatever a phone was half-way through is remembered as broken or in doubt. *)
LEMMA InterruptStep ==
    ASSUME NEW p \in Phones, AccountsInv, Interrupt(p)
    PROVE  AccountsInv'
<1> USE AccountsAssumption DEF services, row, phones, history
<1>1. /\ \A d \in calls' :
           \/ d \in calls \ Awaited(p)
           \/ /\ d \in Calls /\ d.awaited = FALSE
              /\ \E c \in Awaited(p) :
                   /\ d.phone = c.phone /\ d.operation = c.operation
                   /\ d.token = c.token /\ d.password = c.password
                   /\ d.checked = c.checked
      /\ calls \ Awaited(p) \subseteq calls'
  BY InterruptLeaves DEF AccountsInv
<1>2. /\ at[p] # "idle" /\ Stop(p)
      /\ UNCHANGED <<services, row, passwords, stored, signed, alone>>
  BY DEF Interrupt
<1> USE DEF AccountsInv, CallsKnown, PhonesKnown, NumbersKnown, FlagsKnown, Calls,
            Steps
<1>3. CallsFit' /\ PasswordsGiven'
  BY <1>1, <1>2 DEF Stop, MoveTo, Awaited, CallsFit, PasswordsGiven, WaitsFor
<1>4. NothingYet' /\ SigningUp' /\ OneRegistration'
  BY <1>1, <1>2 DEF Stop, MoveTo, Awaited, NothingYet, SigningUp,
                    OneRegistration, Profiling, Sent
<1>5. AccountKnown' /\ DeletedFirst' /\ ProfileGone' /\ Unfinished'
  <2>1. AccountKnown' /\ DeletedFirst' /\ ProfileGone'
    BY <1>1, <1>2 DEF Stop, MoveTo, Awaited, AccountKnown, DeletedFirst,
                      ProfileGone, Sent
  <2>2. ASSUME ~broken'
        PROVE  /\ at' = [at EXCEPT ![p] = "idle"]
               /\ at[p] \notin {"profiling", "registering", "unlinking", "deleting"}
               /\ ~broken
    BY <1>2, <2>2 DEF Stop, MoveTo, Halfway
  <2>3. ASSUME ~broken', NEW c \in calls, c.operation \in {"register", "delete"}
        PROVE  c \in calls'
    BY <1>1, <2>2, <2>3 DEF Awaited, CallsFit, WaitsFor
  <2>4. ASSUME ~broken', NEW c \in calls', c.operation \in {"register", "delete"}
        PROVE  c \in calls
    BY <1>1, <2>2, <2>4 DEF Awaited, CallsFit, WaitsFor
  <2>5. ~broken' => (Sent("register") <=> Sent("register")')
                    /\ (Sent("delete") <=> Sent("delete")')
    BY <2>3, <2>4 DEF Sent
  <2>6. ~broken' => (Profiling <=> Profiling')
    BY <2>2 DEF Profiling
  <2>7. Unfinished'
    BY <1>2, <2>2, <2>4, <2>5, <2>6 DEF Unfinished
  <2> QED
    BY <2>1, <2>7
<1>6. LeftInDoubt' /\ AloneIsAlone' /\ Agree'
  BY <1>1, <1>2 DEF Stop, MoveTo, Awaited, LeftInDoubt, AloneIsAlone, Agree,
                    NoneChanging, CallsFit, WaitsFor
<1>7. TokensIssued' /\ SessionsAreSuperseded'
  BY <1>1, <1>2 DEF TokensIssued, SessionsAreSuperseded
<1>8. CallsKnown' /\ PhonesKnown' /\ NumbersKnown' /\ FlagsKnown'
  BY <1>1, <1>2 DEF Stop, MoveTo
<1> QED
  BY <1>3, <1>4, <1>5, <1>6, <1>7, <1>8

(* A login that passes has found an account. *)
LEMMA CheckStep ==
    ASSUME NEW c \in calls, AccountsInv, Check(c)
    PROVE  AccountsInv'
<1> USE AccountsAssumption DEF services, row, phones, history
<1>1. PICK n \in Calls :
             /\ calls' = (calls \ {c}) \cup {n}
             /\ n.phone = c.phone /\ n.operation = c.operation /\ n.token = c.token
             /\ n.password = c.password /\ n.awaited = c.awaited /\ n.checked = TRUE
  BY CheckTurns DEF AccountsInv
<1>2. /\ ~c.checked /\ Passes(c)
      /\ UNCHANGED <<services, row, passwords, phones, history>>
  BY DEF Check
<1> USE DEF AccountsInv, CallsKnown, PhonesKnown, NumbersKnown, FlagsKnown, Calls,
            Steps
<1>3. CallsFit' /\ PasswordsGiven'
  BY <1>1, <1>2 DEF CallsFit, PasswordsGiven, WaitsFor
<1>4. NothingYet' /\ SigningUp' /\ OneRegistration'
  BY <1>1, <1>2 DEF Passes, NothingYet, SigningUp, OneRegistration, Profiling,
                    Sent
<1>5. AccountKnown' /\ DeletedFirst' /\ ProfileGone' /\ Unfinished'
  BY <1>1, <1>2 DEF Passes, Valid, AccountKnown, DeletedFirst, ProfileGone,
                    Unfinished, Sent
<1>6. LeftInDoubt' /\ AloneIsAlone' /\ Agree'
  BY <1>1, <1>2 DEF LeftInDoubt, AloneIsAlone, Agree, NoneChanging
<1>7. TokensIssued' /\ SessionsAreSuperseded'
  BY <1>1, <1>2 DEF TokensIssued, SessionsAreSuperseded
<1>8. CallsKnown' /\ PhonesKnown' /\ NumbersKnown' /\ FlagsKnown'
  BY <1>1, <1>2
<1> QED
  BY <1>3, <1>4, <1>5, <1>6, <1>7, <1>8

(* A call that is refused half-way is one that was cut short. *)
LEMMA RefuseStep ==
    ASSUME NEW c \in calls, AccountsInv, Refuse(c)
    PROVE  AccountsInv'
<1> USE AccountsAssumption DEF services, row, phones, history
<1> USE DEF AccountsInv, CallsKnown, PhonesKnown, NumbersKnown, FlagsKnown, Calls,
            Steps
<1>1. CallsFit' /\ PasswordsGiven'
  BY DEF Refuse, Stop, Conclude, MoveTo, CallsFit, PasswordsGiven, WaitsFor
<1>2. NothingYet' /\ SigningUp' /\ OneRegistration'
  BY DEF Refuse, Stop, Conclude, MoveTo, NothingYet, SigningUp, OneRegistration,
         Profiling, Sent
<1>3. AccountKnown' /\ DeletedFirst' /\ ProfileGone' /\ Unfinished'
  BY DEF Refuse, Stop, Halfway, Conclude, MoveTo, AccountKnown, DeletedFirst,
         ProfileGone, Unfinished, Profiling, Sent, CallsFit, WaitsFor
<1>4. LeftInDoubt' /\ AloneIsAlone' /\ Agree'
  BY DEF Refuse, Stop, Conclude, MoveTo, LeftInDoubt, AloneIsAlone, Agree,
         NoneChanging, CallsFit, WaitsFor
<1>5. TokensIssued' /\ SessionsAreSuperseded'
  BY DEF Refuse, TokensIssued, SessionsAreSuperseded
<1>6. CallsKnown' /\ PhonesKnown' /\ NumbersKnown' /\ FlagsKnown'
  BY DEF Refuse, Stop, Conclude, MoveTo
<1> QED
  BY <1>1, <1>2, <1>3, <1>4, <1>5, <1>6

(* The registration of the account in hand is the only one. *)
LEMMA RegisterUserStep ==
    ASSUME NEW c \in calls, AccountsInv, RegisterUser(c)
    PROVE  AccountsInv'
<1> USE AccountsAssumption DEF services, row, phones, history
<1>1. c.phone \in Phones /\ c.password \in 0..MaxPasswords
  BY DEF AccountsInv, CallsKnown, Calls
<1> USE DEF AccountsInv, CallsKnown, PhonesKnown, NumbersKnown, FlagsKnown, Calls,
            Steps
<1>2. CallsFit' /\ PasswordsGiven'
  BY <1>1 DEF RegisterUser, Done, Conclude, MoveTo, CallsFit, PasswordsGiven,
              WaitsFor
<1>3. NothingYet' /\ SigningUp' /\ OneRegistration'
  BY <1>1 DEF RegisterUser, Done, Conclude, MoveTo, NothingYet, SigningUp,
              OneRegistration, Profiling, Sent
<1>4. AccountKnown' /\ DeletedFirst' /\ ProfileGone' /\ Unfinished'
  BY <1>1 DEF RegisterUser, Done, Conclude, MoveTo, AccountKnown, DeletedFirst,
              ProfileGone, Unfinished, Sent, CallsFit, WaitsFor, PasswordsGiven,
              SigningUp
<1>5. LeftInDoubt' /\ AloneIsAlone' /\ Agree'
  BY <1>1 DEF RegisterUser, Done, Conclude, MoveTo, LeftInDoubt, AloneIsAlone,
              Agree, PasswordsGiven, AccountKnown
<1>6. TokensIssued' /\ SessionsAreSuperseded'
  BY <1>1 DEF RegisterUser, TokensIssued, SessionsAreSuperseded, SigningUp, Sent
<1>7. CallsKnown' /\ PhonesKnown' /\ NumbersKnown' /\ FlagsKnown'
  BY <1>1 DEF RegisterUser, Done, Conclude, MoveTo
<1> QED
  BY <1>2, <1>3, <1>4, <1>5, <1>6, <1>7

(* A token that is kept is the latest. *)
LEMMA LoginUserStep ==
    ASSUME NEW c \in calls, AccountsInv, LoginUser(c)
    PROVE  AccountsInv'
<1> USE AccountsAssumption DEF services, row, phones, history
<1>1. c.phone \in Phones /\ c.password \in 0..MaxPasswords
  BY DEF AccountsInv, CallsKnown, Calls
<1> USE DEF AccountsInv, CallsKnown, PhonesKnown, NumbersKnown, FlagsKnown, Calls,
            Steps
<1>2. CallsFit' /\ PasswordsGiven'
  BY <1>1 DEF LoginUser, Done, Conclude, MoveTo, CallsFit, PasswordsGiven,
              WaitsFor
<1>3. NothingYet' /\ SigningUp' /\ OneRegistration'
  BY <1>1 DEF LoginUser, Done, Conclude, MoveTo, NothingYet, SigningUp,
              OneRegistration, Profiling, Sent
<1>4. AccountKnown' /\ DeletedFirst' /\ ProfileGone' /\ Unfinished'
  BY <1>1 DEF LoginUser, Done, Conclude, MoveTo, AccountKnown, DeletedFirst,
              ProfileGone, Unfinished, Sent, CallsFit, WaitsFor
<1>5. LeftInDoubt' /\ AloneIsAlone' /\ Agree'
  BY <1>1 DEF LoginUser, Done, Conclude, MoveTo, LeftInDoubt, AloneIsAlone,
              Agree, NoneChanging, CallsFit, WaitsFor
<1>6. TokensIssued' /\ SessionsAreSuperseded'
  BY <1>1 DEF LoginUser, TokensIssued, SessionsAreSuperseded
<1>7. CallsKnown' /\ PhonesKnown' /\ NumbersKnown' /\ FlagsKnown'
  <2>1. CallsKnown' /\ NumbersKnown'
    BY <1>1 DEF LoginUser, Done, Conclude
  <2>2. at' \in [Phones -> Steps]
    BY <1>1 DEF LoginUser, Done, MoveTo
  <2>3. stored' \in [Phones -> 0..MaxTokens]
    <3>1. stored' \in {stored, [stored EXCEPT ![c.phone] = issued']}
      BY DEF LoginUser
    <3>2. QED
      BY <1>1, <2>1, <3>1
  <2>4. signed' \in [Phones -> BOOLEAN]
    <3>1. signed' \in {signed, [signed EXCEPT ![c.phone] = FALSE]}
      BY DEF LoginUser
    <3>2. QED
      BY <1>1, <3>1
  <2>5. alone' \in [Phones -> BOOLEAN] /\ FlagsKnown'
    BY DEF LoginUser
  <2> QED
    BY <2>1, <2>2, <2>3, <2>4, <2>5
<1> QED
  BY <1>2, <1>3, <1>4, <1>5, <1>6, <1>7

(* A logout ends nothing in the backend. *)
LEMMA LogoutUserStep ==
    ASSUME NEW c \in calls, AccountsInv, LogoutUser(c)
    PROVE  AccountsInv'
<1> USE AccountsAssumption DEF services, row, phones, history
<1>1. c.phone \in Phones /\ c.password \in 0..MaxPasswords
  BY DEF AccountsInv, CallsKnown, Calls
<1> USE DEF AccountsInv, CallsKnown, PhonesKnown, NumbersKnown, FlagsKnown, Calls,
            Steps
<1>2. CallsFit' /\ PasswordsGiven'
  BY <1>1 DEF LogoutUser, Done, Conclude, MoveTo, CallsFit, PasswordsGiven,
              WaitsFor
<1>3. NothingYet' /\ SigningUp' /\ OneRegistration'
  BY <1>1 DEF LogoutUser, Done, Conclude, MoveTo, NothingYet, SigningUp,
              OneRegistration, Profiling, Sent
<1>4. AccountKnown' /\ DeletedFirst' /\ ProfileGone' /\ Unfinished'
  BY <1>1 DEF LogoutUser, Done, Conclude, MoveTo, AccountKnown, DeletedFirst,
              ProfileGone, Unfinished, Profiling, Sent, CallsFit, WaitsFor
<1>5. LeftInDoubt' /\ AloneIsAlone' /\ Agree'
  BY <1>1 DEF LogoutUser, Done, Conclude, MoveTo, LeftInDoubt, AloneIsAlone,
              Agree, NoneChanging, CallsFit, WaitsFor
<1>6. TokensIssued' /\ SessionsAreSuperseded'
  BY <1>1 DEF LogoutUser, TokensIssued, SessionsAreSuperseded
<1>7. CallsKnown' /\ PhonesKnown' /\ NumbersKnown' /\ FlagsKnown'
  <2>1. CallsKnown' /\ NumbersKnown' /\ FlagsKnown'
    BY DEF LogoutUser, Done, Conclude
  <2>2. at' \in [Phones -> Steps]
    BY <1>1 DEF LogoutUser, Done, MoveTo
  <2>3. /\ stored' \in {stored, [stored EXCEPT ![c.phone] = 0]}
        /\ signed' \in {signed, [signed EXCEPT ![c.phone] = FALSE]}
    BY DEF LogoutUser
  <2>4. stored' \in [Phones -> 0..MaxTokens]
    BY <1>1, <2>3
  <2>5. signed' \in [Phones -> BOOLEAN]
    BY <1>1, <2>3
  <2>6. alone' \in [Phones -> BOOLEAN]
    BY DEF LogoutUser
  <2> QED
    BY <2>1, <2>2, <2>4, <2>5, <2>6
<1> QED
  BY <1>2, <1>3, <1>4, <1>5, <1>6, <1>7

(* The change that has met no other sets what Firebase has. *)
LEMMA UpdatePasswordStep ==
    ASSUME NEW c \in calls, AccountsInv, UpdatePassword(c)
    PROVE  AccountsInv'
<1> USE AccountsAssumption DEF services, row, phones, history
<1>1. c.phone \in Phones /\ c.password \in 0..MaxPasswords
  BY DEF AccountsInv, CallsKnown, Calls
<1> USE DEF AccountsInv, CallsKnown, PhonesKnown, NumbersKnown, FlagsKnown, Calls,
            Steps
<1>2. CallsFit' /\ PasswordsGiven'
  BY <1>1 DEF UpdatePassword, Done, Conclude, MoveTo, CallsFit, PasswordsGiven,
              WaitsFor
<1>3. NothingYet' /\ SigningUp' /\ OneRegistration'
  BY <1>1 DEF UpdatePassword, Done, Conclude, MoveTo, NothingYet, SigningUp,
              OneRegistration, Profiling, Sent
<1>4. AccountKnown' /\ DeletedFirst' /\ ProfileGone' /\ Unfinished'
  BY <1>1 DEF UpdatePassword, Done, Conclude, MoveTo, AccountKnown,
              DeletedFirst, ProfileGone, Unfinished, Sent, CallsFit, WaitsFor,
              PasswordsGiven
<1>5. LeftInDoubt' /\ AloneIsAlone' /\ Agree'
  BY <1>1 DEF UpdatePassword, Done, Conclude, MoveTo, LeftInDoubt, AloneIsAlone,
              Agree, CallsFit, WaitsFor
<1>6. TokensIssued' /\ SessionsAreSuperseded'
  BY <1>1 DEF UpdatePassword, TokensIssued, SessionsAreSuperseded
<1>7. CallsKnown' /\ PhonesKnown' /\ NumbersKnown' /\ FlagsKnown'
  <2>1. CallsKnown' /\ PhonesKnown' /\ NumbersKnown'
    BY <1>1 DEF UpdatePassword, Done, Conclude, MoveTo
  <2>2. doubt' \in BOOLEAN
    BY <1>1 DEF UpdatePassword
  <2>3. FlagsKnown'
    BY <2>2 DEF UpdatePassword
  <2> QED
    BY <2>1, <2>3
<1> QED
  BY <1>2, <1>3, <1>4, <1>5, <1>6, <1>7

(* A deletion goes on with the profile. *)
LEMMA VerifyPasswordStep ==
    ASSUME NEW c \in calls, AccountsInv, VerifyPassword(c)
    PROVE  AccountsInv'
<1> USE AccountsAssumption DEF services, row, phones, history
<1>1. c.phone \in Phones /\ c.password \in 0..MaxPasswords
  BY DEF AccountsInv, CallsKnown, Calls
<1> USE DEF AccountsInv, CallsKnown, PhonesKnown, NumbersKnown, FlagsKnown, Calls,
            Steps
<1>2. CallsFit' /\ PasswordsGiven'
  BY <1>1 DEF VerifyPassword, Done, Conclude, MoveTo, CallsFit, PasswordsGiven,
              WaitsFor
<1>3. NothingYet' /\ SigningUp' /\ OneRegistration'
  BY <1>1 DEF VerifyPassword, Done, Conclude, MoveTo, NothingYet, SigningUp,
              OneRegistration, Profiling, Sent
<1>4. AccountKnown' /\ DeletedFirst' /\ ProfileGone' /\ Unfinished'
  BY <1>1 DEF VerifyPassword, Done, Conclude, MoveTo, AccountKnown,
              DeletedFirst, ProfileGone, Unfinished, Sent, CallsFit, WaitsFor
<1>5. LeftInDoubt' /\ AloneIsAlone' /\ Agree'
  BY <1>1 DEF VerifyPassword, Done, Conclude, MoveTo, LeftInDoubt, AloneIsAlone,
              Agree, NoneChanging, CallsFit, WaitsFor
<1>6. TokensIssued' /\ SessionsAreSuperseded'
  BY <1>1 DEF VerifyPassword, TokensIssued, SessionsAreSuperseded
<1>7. CallsKnown' /\ PhonesKnown' /\ NumbersKnown' /\ FlagsKnown'
  BY <1>1 DEF VerifyPassword, Done, Conclude, MoveTo
<1> QED
  BY <1>2, <1>3, <1>4, <1>5, <1>6, <1>7

(* The account of the backend is the last to go. *)
LEMMA DeleteRowStep ==
    ASSUME NEW c \in calls, AccountsInv, DeleteRow(c)
    PROVE  AccountsInv'
<1> USE AccountsAssumption DEF services, row, phones, history
<1>1. c.phone \in Phones /\ c.password \in 0..MaxPasswords
  BY DEF AccountsInv, CallsKnown, Calls
<1> USE DEF AccountsInv, CallsKnown, PhonesKnown, NumbersKnown, FlagsKnown, Calls,
            Steps
<1>2. CallsFit' /\ PasswordsGiven'
  BY <1>1 DEF DeleteRow, Done, Conclude, MoveTo, CallsFit, PasswordsGiven,
              WaitsFor
<1>3. NothingYet' /\ SigningUp' /\ OneRegistration'
  BY <1>1 DEF DeleteRow, Done, Conclude, MoveTo, NothingYet, SigningUp,
              OneRegistration, Profiling, Sent
<1>4. AccountKnown' /\ DeletedFirst' /\ ProfileGone' /\ Unfinished'
  BY <1>1 DEF DeleteRow, Done, Conclude, AccountKnown, DeletedFirst,
              ProfileGone, Unfinished, Sent
<1>5. LeftInDoubt' /\ AloneIsAlone' /\ Agree'
  BY <1>1 DEF DeleteRow, Done, Conclude, MoveTo, LeftInDoubt, AloneIsAlone,
              Agree
<1>6. TokensIssued' /\ SessionsAreSuperseded'
  BY <1>1 DEF DeleteRow, TokensIssued, SessionsAreSuperseded
<1>7. CallsKnown' /\ PhonesKnown' /\ NumbersKnown' /\ FlagsKnown'
  BY <1>1 DEF DeleteRow, Done, Conclude, MoveTo
<1> QED
  BY <1>2, <1>3, <1>4, <1>5, <1>6, <1>7

-----------------------------------------------------------------------------
(* What a step of the account can be. *)
LEMMA AccountsCases ==
    ASSUME [AccountsNext]_accountsVars
    PROVE  \/ \E p \in Phones :
                \/ SignUp(p) \/ SaveProfile(p) \/ LogIn(p) \/ LogOut(p)
                \/ ChangePassword(p) \/ DeleteAccount(p) \/ EraseProfile(p)
                \/ DeleteUser(p) \/ Interrupt(p)
           \/ \E c \in calls :
                \/ Check(c) \/ Refuse(c) \/ RegisterUser(c) \/ LoginUser(c)
                \/ LogoutUser(c) \/ UpdatePassword(c) \/ VerifyPassword(c)
                \/ DeleteRow(c)
           \/ ResetByMail
           \/ UNCHANGED accountsVars
  BY DEF AccountsNext, Application, Backend

(* AccountsInv is inductive. *)
LEMMA AccountsInvStep == AccountsInv /\ [AccountsNext]_accountsVars => AccountsInv'
<1> SUFFICES ASSUME AccountsInv, [AccountsNext]_accountsVars
             PROVE  AccountsInv'
  OBVIOUS
<1>1. ASSUME NEW p \in Phones,
             \/ SignUp(p) \/ SaveProfile(p) \/ LogIn(p) \/ LogOut(p)
             \/ ChangePassword(p) \/ DeleteAccount(p) \/ EraseProfile(p)
             \/ DeleteUser(p) \/ Interrupt(p)
      PROVE  AccountsInv'
  BY <1>1, SignUpStep, SaveProfileStep, LogInStep, NoProfileStep, LogOutStep,
     ChangePasswordStep, DeleteAccountStep, EraseProfileStep, DeleteUserStep,
     InterruptStep
<1>2. ASSUME NEW c \in calls,
             \/ Check(c) \/ Refuse(c) \/ RegisterUser(c) \/ LoginUser(c)
             \/ LogoutUser(c) \/ UpdatePassword(c) \/ VerifyPassword(c)
             \/ DeleteRow(c)
      PROVE  AccountsInv'
  BY <1>2, CheckStep, RefuseStep, RegisterUserStep, LoginUserStep, LogoutUserStep,
     UpdatePasswordStep, VerifyPasswordStep, DeleteRowStep
<1>3. CASE UNCHANGED accountsVars
  BY <1>3 DEF accountsVars, services, row, phones, history, AccountsInv, CallsKnown,
     PhonesKnown, NumbersKnown, FlagsKnown, CallsFit, WaitsFor, PasswordsGiven,
     NothingYet, SigningUp, OneRegistration, AccountKnown, DeletedFirst, ProfileGone,
     Unfinished, LeftInDoubt, AloneIsAlone, Agree, NoneChanging, TokensIssued,
     SessionsAreSuperseded, Profiling, Sent
<1>4. QED
  BY <1>1, <1>2, <1>3, ResetByMailStep, AccountsCases

(* Nothing is in any of the services at first. *)
LEMMA AccountsInvInit == AccountsInit => AccountsInv
<1> SUFFICES ASSUME AccountsInit
             PROVE  AccountsInv
  OBVIOUS
<1> USE AccountsAssumption DEF AccountsInit
<1>1. CallsKnown /\ PhonesKnown /\ NumbersKnown /\ FlagsKnown
  <2>1. CallsKnown /\ PhonesKnown
    BY DEF CallsKnown, PhonesKnown, Steps
  <2>2. NumbersKnown
    BY DEF NumbersKnown
  <2>3. FlagsKnown
    BY DEF FlagsKnown
  <2> QED
    BY <2>1, <2>2, <2>3
<1>2. CallsFit /\ PasswordsGiven /\ NothingYet /\ SigningUp /\ OneRegistration
  BY DEF CallsFit, PasswordsGiven, NothingYet, SigningUp, OneRegistration, Profiling,
     Sent
<1>3. AccountKnown /\ DeletedFirst /\ ProfileGone /\ Unfinished
  BY DEF AccountKnown, DeletedFirst, ProfileGone, Unfinished, Sent
<1>4. LeftInDoubt /\ AloneIsAlone /\ Agree /\ TokensIssued /\ SessionsAreSuperseded
  BY DEF LeftInDoubt, AloneIsAlone, Agree, TokensIssued, SessionsAreSuperseded
<1>5. QED
  BY <1>1, <1>2, <1>3, <1>4 DEF AccountsInv

(* AccountsInv is an invariant of the three services and the phones. *)
LEMMA AccountsInvariance == AccountsSpec => []AccountsInv
<1>1. QED
  BY AccountsInvInit, AccountsInvStep, PTL DEF AccountsSpec

-----------------------------------------------------------------------------
(* Every variable keeps its type, and an awaited call that of its phone's   *)
(* step, for any set of phones and any bounds.                              *)
THEOREM AccountsTypeCorrect == AccountsSpec => []AccountsTypeOK
<1>1. AccountsInv => AccountsTypeOK
  BY DEF AccountsInv, CallsKnown, CallsFit, PhonesKnown, NumbersKnown, FlagsKnown,
     AccountsTypeOK
<1>2. QED
  BY <1>1, AccountsInvariance, PTL

(* While nobody is changing it, the password is the same in Firebase and in *)
(* the backend, unless it is in doubt: however many phones change it, log   *)
(* in, delete or are interrupted.                                           *)
THEOREM PasswordsAlwaysAgree == AccountsSpec => []PasswordsAgree
<1>1. AccountsInv => PasswordsAgree
  BY DEF AccountsInv, Agree, NoneChanging, PasswordsAgree, Changing, Updates
<1>2. QED
  BY <1>1, AccountsInvariance, PTL

(* The account is in all three services or in none, once nothing is under   *)
(* way, unless a flow was cut short half-way.                               *)
THEOREM AccountsAlwaysAgree == AccountsSpec => []AccountsAgree
<1>1. ASSUME AccountsInv, ~broken, calls = {}, \A p \in Phones : at[p] = "idle"
      PROVE  (firebase # 0) = profile /\ (hashed # 0) = profile
  <2>1. ~Profiling /\ ~Sent("register") /\ ~Sent("delete")
    BY <1>1 DEF Profiling, Sent
  <2>2. firebase # 0 <=> profile
    BY <1>1 DEF AccountsInv, Unfinished, ProfileGone
  <2>3. hashed # 0 <=> firebase # 0
    BY <1>1, <2>1 DEF AccountsInv, Unfinished
  <2>4. profile \in BOOLEAN
    BY <1>1 DEF AccountsInv, FlagsKnown
  <2>5. QED
    BY <2>2, <2>3, <2>4
<1>2. AccountsInv => AccountsAgree
  BY <1>1 DEF AccountsAgree
<1>3. QED
  BY <1>2, AccountsInvariance, PTL

(* The token that a phone keeps is valid until a later login replaces it or *)
(* the account is deleted.                                                  *)
THEOREM SessionsEndByLater == AccountsSpec => []SessionsAreSuperseded
<1>1. AccountsInv => SessionsAreSuperseded
  BY DEF AccountsInv
<1>2. QED
  BY <1>1, AccountsInvariance, PTL

=============================================================================
