-------------------------- MODULE DeviceStatusProofs --------------------------
(***************************************************************************)
(* Proofs about DeviceStatus, for every delay below the 10 s and every     *)
(* number of moves, of lockdowns and of places in the channel.             *)
(***************************************************************************)
EXTENDS DeviceStatus, TLAPS

-----------------------------------------------------------------------------
(* The inductive invariant. *)

(* No message and no row is of a lockdown to come. *)
HaltsArePast ==
    /\ recorded <= halts
    /\ \A i \in 1..Len(status) : status[i].halt <= halts

Down == power # "on" /\ synced /\ halts > 0

(* While the last lockdown is not recorded: its message is not younger than *)
(* the heartbeats that are under way, ...                                   *)
HeartbeatsAreOlder ==
    Down => \A i \in 1..Len(status) :
        status[i].kind = "locking_down" /\ status[i].halt = halts =>
            /\ status[i].dated
            /\ power # "off" => status[i].age = 0
            /\ \A j \in 1..Len(status) :
                 status[j].kind = "heartbeat" => status[i].age <= status[j].age

(* ... and when it is, neither is the row: a heartbeat of before the halt   *)
(* is still younger than MaxDelay, and so is the lockdown.                  *)
RecordIsYoung ==
    Down /\ recorded = halts =>
        /\ lockdown # Null
        /\ power # "off" => lockdown = 0
        /\ \A j \in 1..Len(status) :
             status[j].kind = "heartbeat" => lockdown <= status[j].age

(* The last update sent is the last one waiting, or what the card shows. *)
LastIsShown ==
    latest # Null =>
        /\ link = "open"
        /\ IF queue = <<>> THEN card = latest ELSE queue[Len(queue)] = latest

(* Unless it denies it or is not sent, an update says what the row says of *)
(* the lockdown.                                                           *)
UpdateIsTrue ==
    ~hidden => /\ update # Null => update.lockdown = (lockdown # Null)
               /\ update = Null /\ link = "open" /\ latest # Null
                    => latest.lockdown = (lockdown # Null)

IInv ==
    /\ TypeOK
    /\ HaltsArePast
    /\ HeartbeatsAreOlder
    /\ RecordIsYoung
    /\ LastIsShown
    /\ UpdateIsTrue

-----------------------------------------------------------------------------
(* Facts about sequences. *)

(* The first member of a sequence is one of its members, and so are those  *)
(* of its tail.                                                            *)
LEMMA TailFacts ==
    ASSUME NEW S, NEW s \in Seq(S), s # <<>>
    PROVE  /\ Head(s) \in S /\ Head(s) = s[1] /\ 1 \in 1..Len(s)
           /\ Tail(s) \in Seq(S) /\ Len(Tail(s)) = Len(s) - 1
           /\ \A i \in 1..Len(Tail(s)) : i + 1 \in 1..Len(s) /\ Tail(s)[i] = s[i + 1]
  OBVIOUS

LEMMA MemberFacts ==
    ASSUME NEW S, NEW s \in Seq(S)
    PROVE  \A i \in 1..Len(s) : s[i] \in S
  OBVIOUS

LEMMA AppendFacts ==
    ASSUME NEW S, NEW s \in Seq(S), NEW e \in S
    PROVE  /\ Append(s, e) \in Seq(S)
           /\ Len(Append(s, e)) = Len(s) + 1 /\ Append(s, e) # <<>>
           /\ \A i \in 1..Len(s) : Append(s, e)[i] = s[i]
           /\ Append(s, e)[Len(s) + 1] = e
  OBVIOUS

(* The members of a sequence that a message was taken from are among those  *)
(* it had.                                                                  *)
LEMMA TailMembers ==
    ASSUME NEW S, NEW s \in Seq(S), s # <<>>
    PROVE  \A i \in 1..Len(Tail(s)) : \E j \in 1..Len(s) : Tail(s)[i] = s[j]
  BY TailFacts

-----------------------------------------------------------------------------
(* Types. *)

LEMMA MessageType ==
    ASSUME NEW kind \in {"heartbeat", "event", "locking_down"}, NEW state \in Doors,
           synced \in BOOLEAN, halts' \in 0..MaxHalts
    PROVE  Message(kind, state) \in Messages
  BY DelayAssumption DEF Message, Messages

LEMMA ShowType ==
    ASSUME NEW state, NEW locked \in BOOLEAN
    PROVE  Show(state, locked) \in Shown
  BY DEF Show, Shown

LEMMA PublishType ==
    ASSUME NEW kind \in {"heartbeat", "event", "locking_down"}, NEW state \in Doors,
           TypeOK, halts' \in 0..MaxHalts, Publish(kind, state)
    PROVE  status' \in Seq(Messages)
<1>1. Message(kind, state) \in Messages
  BY MessageType DEF TypeOK
<1> QED
  BY <1>1, AppendFacts DEF TypeOK, Publish

LEMMA DeviceTypes == TypeOK /\ DeviceNext => TypeOK'
<1> SUFFICES ASSUME TypeOK, DeviceNext PROVE TypeOK'
  OBVIOUS
<1>1. CASE Move
  <2>1. /\ halts' \in 0..MaxHalts /\ door' \in Doors
        /\ moves' \in 0..MaxMoves
        /\ Publish("event", door')
        /\ UNCHANGED <<power, synced, halts, backend, socket, app>>
    BY <1>1, BoundsAssumption DEF Move, TypeOK
  <2>2. status' \in Seq(Messages)
    BY <2>1, PublishType
  <2> QED
    BY <2>1, <2>2 DEF TypeOK, backend, row, socket, app
<1>2. CASE Heartbeat
  <2>1. status' \in Seq(Messages)
    BY <1>2, PublishType DEF Heartbeat, TypeOK, device
  <2> QED
    BY <1>2, <2>1 DEF Heartbeat, TypeOK, device, backend, row, socket, app
<1>3. CASE LockDown
  <2>1. halts' \in 0..MaxHalts /\ "LOCKED" \in Doors
    BY <1>3, BoundsAssumption DEF LockDown, TypeOK, Doors
  <2>2. status' \in Seq(Messages)
    BY <1>3, <2>1, PublishType DEF LockDown
  <2> QED
    BY <1>3, <2>1, <2>2 DEF LockDown, TypeOK, backend, row, socket, app
<1>4. CASE LockForHalt
  <2>1. halts' \in 0..MaxHalts /\ door' \in Doors
    BY <1>4 DEF LockForHalt, TypeOK, Doors
  <2>2. status' \in Seq(Messages)
    BY <1>4, <2>1, PublishType DEF LockForHalt, TypeOK
  <2> QED
    BY <1>4, <2>1, <2>2 DEF LockForHalt, TypeOK, backend, row, socket, app
<1>5. CASE Halt
  BY <1>5 DEF Halt, TypeOK, backend, row, socket, app
<1>6. CASE PowerOn
  BY <1>6 DEF PowerOn, TypeOK, Doors, backend, row, socket, app
<1> QED
  BY <1>1, <1>2, <1>3, <1>4, <1>5, <1>6 DEF DeviceNext

(* What a message leaves of the row. *)
LEMMA HandleTypes ==
    ASSUME TypeOK, NEW m \in Messages,
           \/ HandleHeartbeat(m, BOOLEAN)
           \/ HandleLockingDown(m, BOOLEAN)
           \/ HandleEvent(m, BOOLEAN)
    PROVE  /\ lockdown' \in Ages \cup {Null} /\ lock' \in Doors
           /\ recorded' \in 0..MaxHalts
           /\ update' \in Shown \cup {Null} /\ hidden' \in BOOLEAN
<1>1. m.lock \in Doors /\ m.age \in Ages /\ m.halt \in 0..MaxHalts /\ Limit \in Ages
  BY DelayAssumption DEF Messages, Ages
<1>2. CASE HandleHeartbeat(m, BOOLEAN)
  BY <1>1, <1>2, ShowType DEF HandleHeartbeat, TypeOK
<1>3. CASE HandleLockingDown(m, BOOLEAN)
  BY <1>1, <1>3, ShowType DEF HandleLockingDown, TypeOK, row
<1>4. CASE HandleEvent(m, BOOLEAN)
  BY <1>1, <1>4, ShowType DEF HandleEvent, TypeOK, row
<1> QED
  BY <1>2, <1>3, <1>4

LEMMA OlderType ==
    ASSUME NEW m \in Messages, m.age < MaxDelay
    PROVE  /\ Older(m) \in Messages /\ Older(m).age = m.age + 1
           /\ Older(m).kind = m.kind /\ Older(m).halt = m.halt
           /\ Older(m).dated = m.dated
  BY DelayAssumption DEF Messages, Older

LEMMA TickTypes ==
    ASSUME TypeOK, Tick
    PROVE  /\ status' \in Seq(Messages) /\ Len(status') = Len(status)
           /\ lockdown' \in Ages \cup {Null}
           /\ \A i \in 1..Len(status) : status[i].age < MaxDelay /\ status'[i] = Older(status[i])
<1>1. /\ DOMAIN status = 1..Len(status) /\ Len(status) \in Nat
      /\ \A i \in 1..Len(status) : status[i] \in Messages
  BY MemberFacts DEF TypeOK
<1>2. \A i \in 1..Len(status) : status[i].age < MaxDelay /\ Older(status[i]) \in Messages
  BY <1>1, OlderType DEF Tick
<1>3. status' = [i \in 1..Len(status) |-> Older(status[i])]
  BY <1>1 DEF Tick
<1>4. status' \in Seq(Messages) /\ Len(status') = Len(status)
  BY <1>1, <1>2, <1>3
<1>5. lockdown' \in Ages \cup {Null}
  BY DelayAssumption DEF Tick, TypeOK, Ages
<1> QED
  BY <1>2, <1>3, <1>4, <1>5

LEMMA BackendTypes == TypeOK /\ BackendNext => TypeOK'
<1> SUFFICES ASSUME TypeOK, BackendNext PROVE TypeOK'
  OBVIOUS
<1>1. CASE Handle(BOOLEAN)
  <2>1. status' \in Seq(Messages) /\ Head(status) \in Messages
    BY <1>1, TailFacts DEF Handle, TypeOK
  <2>2. /\ lockdown' \in Ages \cup {Null} /\ lock' \in Doors
        /\ recorded' \in 0..MaxHalts
        /\ update' \in Shown \cup {Null} /\ hidden' \in BOOLEAN
    BY <1>1, <2>1, HandleTypes DEF Handle
  <2> QED
    BY <1>1, <2>1, <2>2 DEF Handle, TypeOK, device, socket, app
<1>2. CASE Broadcast(BOOLEAN)
  <2>0. /\ update \in Shown /\ update' = Null
        /\ hidden' \in BOOLEAN
        /\ Send \/ UNCHANGED <<queue, lagged, latest>>
    BY <1>2 DEF Broadcast, Send, TypeOK
  <2>1. queue' \in Seq(Shown) /\ Len(queue') <= Capacity
    <3>1. CASE queue' = queue
      BY <3>1 DEF TypeOK
    <3>2. CASE Len(queue) = Capacity /\ queue' = Append(Tail(queue), update)
      <4>1. queue # <<>> /\ queue \in Seq(Shown)
        BY <3>2, BoundsAssumption DEF TypeOK
      <4>2. Tail(queue) \in Seq(Shown) /\ Len(Tail(queue)) = Len(queue) - 1
        BY <4>1, TailFacts
      <4>3. queue' \in Seq(Shown) /\ Len(queue') = Len(queue) - 1 + 1
        BY <2>0, <3>2, <4>2, AppendFacts
      <4> QED
        BY <3>2, <4>3, BoundsAssumption
    <3>3. CASE Len(queue) # Capacity /\ queue' = Append(queue, update)
      <4>1. queue \in Seq(Shown) /\ Len(queue) \in Nat /\ Len(queue) < Capacity
        BY <3>3, BoundsAssumption DEF TypeOK
      <4> QED
        BY <2>0, <3>3, <4>1, AppendFacts, BoundsAssumption
    <3> QED
      BY <2>0, <3>1, <3>2, <3>3 DEF Send
  <2>2. lagged' \in BOOLEAN /\ latest' \in Shown \cup {Null}
    BY <2>0 DEF Send, TypeOK
  <2> QED
    BY <1>2, <2>0, <2>1, <2>2 DEF Broadcast, TypeOK, device, row, app
<1>3. CASE Lose
  <2>1. status' \in Seq(Messages)
    BY <1>3, TailFacts DEF Lose, TypeOK
  <2> QED
    BY <1>3, <2>1 DEF Lose, TypeOK, device, backend, row, socket, app
<1>4. CASE Serve
  BY <1>4, ShowType DEF Serve, TypeOK, device, backend, row, socket
<1>5. CASE Accept
  BY <1>5 DEF Accept, TypeOK, device, backend, row, app
<1>6. CASE Tick
  <2>1. status' \in Seq(Messages) /\ lockdown' \in Ages \cup {Null}
    BY <1>6, TickTypes
  <2> QED
    BY <1>6, <2>1 DEF Tick, TypeOK, device, socket, app
<1> QED
  BY <1>1, <1>2, <1>3, <1>4, <1>5, <1>6 DEF BackendNext

LEMMA AppTypes == TypeOK /\ AppNext => TypeOK'
<1> SUFFICES ASSUME TypeOK, AppNext PROVE TypeOK'
  OBVIOUS
<1> USE BoundsAssumption DEF device, backend, row
<1>0. <<>> \in Seq(Shown) /\ Len(<<>>) = 0 /\ Len(<<>>) <= Capacity
  OBVIOUS
<1>1. CASE Connect
  BY <1>1 DEF Connect, TypeOK
<1>2. CASE Drop
  BY <1>0, <1>2, Zenon DEF Drop, Close, TypeOK
<1>3. CASE Overrun
  BY <1>0, <1>3, Zenon DEF Overrun, Close, TypeOK, app
<1>4. CASE Deliver
  <2>1. card' \in Shown /\ queue' \in Seq(Shown) /\ Len(queue') <= Capacity
    BY <1>4, TailFacts DEF Deliver, TypeOK
  <2> QED
    BY <1>4, <2>1 DEF Deliver, TypeOK
<1>5. CASE Answer
  BY <1>5 DEF Answer, TypeOK
<1>6. CASE FailPoll
  BY <1>6 DEF FailPoll, TypeOK, socket
<1> QED
  BY <1>1, <1>2, <1>3, <1>4, <1>5, <1>6 DEF AppNext

LEMMA TypeStep == TypeOK /\ [Next]_vars => TypeOK'
<1>1. TypeOK /\ UNCHANGED vars => TypeOK'
  BY DEF TypeOK, vars, device, backend, row, socket, app
<1> QED
  BY <1>1, DeviceTypes, BackendTypes, AppTypes DEF Next

-----------------------------------------------------------------------------
(* Lockdowns. *)

Lockdowns == HaltsArePast /\ HeartbeatsAreOlder /\ RecordIsYoung

LEMMA StatusFacts ==
    ASSUME TypeOK
    PROVE  /\ Len(status) \in Nat
           /\ \A i \in 1..Len(status) :
                /\ status[i] \in Messages
                /\ status[i].age \in Nat /\ status[i].age <= MaxDelay
                /\ status[i].halt \in Nat
           /\ halts \in Nat /\ recorded \in Nat
           /\ lockdown # Null => lockdown \in Nat
<1>1. Len(status) \in Nat /\ \A i \in 1..Len(status) : status[i] \in Messages
  BY MemberFacts DEF TypeOK
<1>2. \A m \in Messages : m.age \in Nat /\ m.age <= MaxDelay /\ m.halt \in Nat
  BY DelayAssumption, BoundsAssumption DEF Messages
<1> QED
  BY <1>1, <1>2, BoundsAssumption DEF TypeOK, Ages

(* A message of the device is not older than the others, and it is of the   *)
(* current lockdown.                                                        *)
LEMMA PublishKeepsLockdowns ==
    ASSUME TypeOK, Lockdowns,
           NEW kind \in {"heartbeat", "event"}, NEW state \in Doors, Publish(kind, state),
           power' # "on" => power # "on" /\ power # "off",
           UNCHANGED <<synced, halts, row>>
    PROVE  Lockdowns'
<1> DEFINE m == Message(kind, state)
<1>1. /\ m.kind = kind /\ m.age = 0 /\ m.halt = halts
  BY DEF Message
<1>2. m \in Messages
  BY MessageType DEF TypeOK
<1>3. /\ Len(status') = Len(status) + 1
      /\ \A i \in 1..Len(status) : status'[i] = status[i]
      /\ status'[Len(status) + 1] = m
  BY <1>2, AppendFacts DEF Publish, TypeOK
<1>4. \A i \in 1..Len(status') : i \in 1..Len(status) \/ i = Len(status) + 1
  BY <1>3, StatusFacts
<1> HIDE DEF m
<1>5. HaltsArePast'
  BY <1>1, <1>3, <1>4, StatusFacts DEF Lockdowns, HaltsArePast, row
<1>6. HeartbeatsAreOlder'
  BY <1>1, <1>3, <1>4, StatusFacts DEF Lockdowns, HeartbeatsAreOlder, Down
<1>7. RecordIsYoung'
  BY <1>1, <1>3, <1>4, StatusFacts DEF Lockdowns, RecordIsYoung, Down, row
<1> QED
  BY <1>5, <1>6, <1>7 DEF Lockdowns

LEMMA LockDownKeepsLockdowns == TypeOK /\ Lockdowns /\ LockDown => Lockdowns'
<1> SUFFICES ASSUME TypeOK, Lockdowns, LockDown PROVE Lockdowns'
  OBVIOUS
<1> DEFINE m == Message("locking_down", "LOCKED")
<1>1. /\ m.kind = "locking_down" /\ m.age = 0 /\ m.halt = halts' /\ m.dated = synced
      /\ halts' = halts + 1 /\ synced' = synced /\ recorded' = recorded
      /\ lockdown' = lockdown
  BY DEF Message, LockDown, backend, row
<1>2. m \in Messages
  BY MessageType, BoundsAssumption DEF LockDown, TypeOK, Doors
<1>3. /\ Len(status') = Len(status) + 1
      /\ \A i \in 1..Len(status) : status'[i] = status[i]
      /\ status'[Len(status) + 1] = m
  BY <1>2, AppendFacts DEF LockDown, Publish, TypeOK
<1>4. \A i \in 1..Len(status') : i \in 1..Len(status) \/ i = Len(status) + 1
  BY <1>3, StatusFacts
<1> HIDE DEF m
<1>5. HaltsArePast'
  BY <1>1, <1>3, <1>4, StatusFacts DEF Lockdowns, HaltsArePast
<1>6. \A i \in 1..Len(status') : status'[i].halt = halts' => i = Len(status) + 1
  BY <1>1, <1>3, <1>4, StatusFacts DEF Lockdowns, HaltsArePast
<1>7. HeartbeatsAreOlder'
  <2> SUFFICES ASSUME Down', NEW i \in 1..Len(status'), status'[i].halt = halts'
               PROVE  /\ status'[i].dated
                      /\ status'[i].age = 0
                      /\ \A j \in 1..Len(status') :
                           status'[j].kind = "heartbeat" => status'[i].age <= status'[j].age
    BY DEF HeartbeatsAreOlder
  <2>1. status'[i] = m
    BY <1>3, <1>6
  <2>2. \A j \in 1..Len(status') : status'[j] \in Messages
    BY <1>2, <1>3, <1>4, StatusFacts
  <2>3. \A j \in 1..Len(status') : 0 <= status'[j].age
    BY <1>1, <1>3, <1>4, StatusFacts
  <2> QED
    BY <1>1, <2>1, <2>3 DEF Down
<1>8. RecordIsYoung'
  BY <1>1, StatusFacts DEF Lockdowns, HaltsArePast, RecordIsYoung
<1> QED
  BY <1>5, <1>7, <1>8 DEF Lockdowns

LEMMA DeviceKeepsLockdowns == TypeOK /\ Lockdowns /\ DeviceNext => Lockdowns'
<1> SUFFICES ASSUME TypeOK, Lockdowns, DeviceNext PROVE Lockdowns'
  OBVIOUS
<1>1. CASE Move
  <2>1. /\ Publish("event", door') /\ door' \in Doors
        /\ UNCHANGED <<power, synced, halts, row>> /\ power # "off"
    BY <1>1 DEF Move, backend
  <2> QED
    BY <2>1, PublishKeepsLockdowns
<1>2. CASE Heartbeat
  <2>1. /\ Publish("heartbeat", door) /\ door \in Doors
        /\ UNCHANGED <<power, synced, halts, row>> /\ power # "off"
    BY <1>2 DEF Heartbeat, device, backend, TypeOK
  <2> QED
    BY <2>1, PublishKeepsLockdowns
<1>3. CASE LockDown
  BY <1>3, LockDownKeepsLockdowns
<1>4. CASE LockForHalt
  <2>1. /\ door' \in Doors /\ UNCHANGED <<synced, halts, row>>
        /\ power = "locking" /\ power' = "stopping"
    BY <1>4 DEF LockForHalt, backend, Doors
  <2>2. CASE Publish("event", door')
    BY <2>1, <2>2, PublishKeepsLockdowns
  <2>3. CASE UNCHANGED status
    BY <2>1, <2>3
       DEF Lockdowns, HaltsArePast, HeartbeatsAreOlder, RecordIsYoung, Down, row
  <2> QED
    BY <1>4, <2>2, <2>3 DEF LockForHalt
<1>5. CASE Halt
  BY <1>5
     DEF Halt, Lockdowns, HaltsArePast, HeartbeatsAreOlder, RecordIsYoung, Down, backend, row
<1>6. CASE PowerOn
  BY <1>6
     DEF PowerOn, Lockdowns, HaltsArePast, HeartbeatsAreOlder, RecordIsYoung, Down, backend, row
<1> QED
  BY <1>1, <1>2, <1>3, <1>4, <1>5, <1>6 DEF DeviceNext

(* What holds of all messages holds of those left when one is taken. *)
LEMMA TakeKeepsLockdowns ==
    ASSUME TypeOK, Lockdowns, status # <<>>, status' = Tail(status),
           UNCHANGED <<power, synced, halts>>,
           UNCHANGED <<lockdown, recorded>>
    PROVE  Lockdowns'
<1>1. \A i \in 1..Len(status') : \E j \in 1..Len(status) : status'[i] = status[j]
  BY TailMembers DEF TypeOK
<1>2. HaltsArePast'
  BY <1>1 DEF Lockdowns, HaltsArePast
<1>3. HeartbeatsAreOlder'
  <2> SUFFICES ASSUME Down, NEW i \in 1..Len(status'),
                      status'[i].kind = "locking_down", status'[i].halt = halts
               PROVE  /\ status'[i].dated
                      /\ power # "off" => status'[i].age = 0
                      /\ \A j \in 1..Len(status') :
                           status'[j].kind = "heartbeat" => status'[i].age <= status'[j].age
    BY DEF HeartbeatsAreOlder, Down
  <2>1. PICK k \in 1..Len(status) : status'[i] = status[k]
    BY <1>1
  <2> QED
    BY <1>1, <2>1 DEF Lockdowns, HeartbeatsAreOlder
<1>4. RecordIsYoung'
  BY <1>1 DEF Lockdowns, RecordIsYoung, Down
<1> QED
  BY <1>2, <1>3, <1>4 DEF Lockdowns

LEMMA HandleKeepsLockdowns == TypeOK /\ Lockdowns /\ Handle(BOOLEAN) => Lockdowns'
<1> SUFFICES ASSUME TypeOK, Lockdowns, Handle(BOOLEAN) PROVE Lockdowns'
  OBVIOUS
<1> DEFINE m == Head(status)
<1>1. m = status[1] /\ 1 \in 1..Len(status) /\ m \in Messages /\ status # <<>>
  BY TailFacts DEF Handle, TypeOK
<1>2. m.age \in Nat /\ m.age < Limit /\ m.halt \in Nat /\ m.halt <= halts
  BY <1>1, StatusFacts, DelayAssumption DEF Lockdowns, HaltsArePast
<1>3. UNCHANGED <<power, synced, halts>> /\ status' = Tail(status)
  BY DEF Handle, device
<1>4. \A i \in 1..Len(status') : \E j \in 1..Len(status) : status'[i] = status[j]
  BY <1>1, <1>3, TailMembers DEF TypeOK
<1>5. CASE HandleEvent(m, BOOLEAN)
  BY <1>1, <1>3, <1>5, TakeKeepsLockdowns DEF HandleEvent, row
<1>6. CASE HandleHeartbeat(m, BOOLEAN)
  <2>1. Down /\ recorded = halts => lockdown # Limit
    BY <1>1, <1>2, <1>6 , StatusFacts, DelayAssumption
       DEF Lockdowns, RecordIsYoung, HandleHeartbeat
  <2>2. recorded' = recorded /\ (lockdown # Limit => lockdown' = lockdown)
    BY <1>6 DEF HandleHeartbeat
  <2>3. CASE lockdown # Limit
    BY <1>1, <1>3, <2>2, <2>3, TakeKeepsLockdowns
  <2>4. CASE lockdown = Limit
    <3>1. ~(Down /\ recorded = halts)
      BY <2>1, <2>4
    <3>2. RecordIsYoung'
      BY <1>3, <2>2, <3>1 DEF RecordIsYoung, Down
    <3>3. HaltsArePast'
      BY <1>3, <1>4, <2>2 DEF Lockdowns, HaltsArePast
    <3>4. HeartbeatsAreOlder'
      BY <1>3, <1>4 DEF Lockdowns, HeartbeatsAreOlder, Down
    <3> QED
      BY <3>2, <3>3, <3>4 DEF Lockdowns
  <2> QED
    BY <2>3, <2>4
<1>7. CASE HandleLockingDown(m, BOOLEAN) /\ UNCHANGED row
  BY <1>1, <1>3, <1>7, TakeKeepsLockdowns DEF row
<1>8. CASE HandleLockingDown(m, BOOLEAN) /\ ~UNCHANGED row
  <2>1. recorded' = m.halt /\ lockdown' = IF m.dated THEN m.age ELSE Limit
    BY <1>8 DEF HandleLockingDown
  <2>2. HaltsArePast'
    BY <1>2, <1>3, <1>4, <2>1 DEF Lockdowns, HaltsArePast
  <2>3. HeartbeatsAreOlder'
    BY <1>3, <1>4 DEF Lockdowns, HeartbeatsAreOlder, Down
  <2>4. RecordIsYoung'
    <3> SUFFICES ASSUME Down, m.halt = halts
                 PROVE  /\ lockdown' # Null
                        /\ power # "off" => lockdown' = 0
                        /\ \A j \in 1..Len(status') :
                             status'[j].kind = "heartbeat" => lockdown' <= status'[j].age
      BY <1>3, <2>1 DEF RecordIsYoung, Down
    <3>1. /\ m.dated /\ (power # "off" => m.age = 0)
          /\ \A j \in 1..Len(status) : status[j].kind = "heartbeat" => m.age <= status[j].age
      BY <1>1, <1>8 DEF Lockdowns, HeartbeatsAreOlder, HandleLockingDown
    <3> QED
      BY <1>2, <1>4, <2>1, <3>1, NullAssumption
  <2> QED
    BY <2>2, <2>3, <2>4 DEF Lockdowns
<1> QED
  BY <1>5, <1>6, <1>7, <1>8 DEF Handle

LEMMA TickKeepsLockdowns == TypeOK /\ Lockdowns /\ Tick => Lockdowns'
<1> SUFFICES ASSUME TypeOK, Lockdowns, Tick PROVE Lockdowns'
  OBVIOUS
<1>1. /\ UNCHANGED <<power, synced, halts, recorded>> /\ power \in {"on", "off"}
      /\ lockdown' = IF lockdown \in {Null, Limit} THEN lockdown ELSE lockdown + 1
  BY DEF Tick, device
<1>2. Len(status') = Len(status) /\ Len(status) \in Nat
  BY TickTypes, StatusFacts
<1>3. \A i \in 1..Len(status) :
        /\ status'[i].age = status[i].age + 1 /\ status[i].age < MaxDelay
        /\ status'[i].kind = status[i].kind /\ status'[i].halt = status[i].halt
        /\ status'[i].dated = status[i].dated
  BY TickTypes, StatusFacts, OlderType
<1>4. HaltsArePast'
  BY <1>1, <1>2, <1>3 DEF Lockdowns, HaltsArePast
<1>5. HeartbeatsAreOlder'
  <2> SUFFICES ASSUME Down, NEW i \in 1..Len(status),
                      status[i].kind = "locking_down", status[i].halt = halts
               PROVE  /\ status'[i].dated
                      /\ power # "off" => status'[i].age = 0
                      /\ \A j \in 1..Len(status) :
                           status'[j].kind = "heartbeat" => status'[i].age <= status'[j].age
    BY <1>1, <1>2, <1>3 DEF HeartbeatsAreOlder, Down
  <2>1. /\ status[i].dated /\ power = "off"
        /\ \A j \in 1..Len(status) :
             status[j].kind = "heartbeat" => status[i].age <= status[j].age
    BY <1>1 DEF Lockdowns, HeartbeatsAreOlder, Down
  <2>2. ASSUME NEW j \in 1..Len(status), status'[j].kind = "heartbeat"
        PROVE  status'[i].age <= status'[j].age
    <3>1. /\ status[i].age \in Nat /\ status[j].age \in Nat
          /\ status[i].age <= status[j].age
      BY <1>3, <2>1, <2>2, StatusFacts
    <3>2. status'[i].age = status[i].age + 1 /\ status'[j].age = status[j].age + 1
      BY <1>3
    <3> QED
      BY <3>1, <3>2
  <2> QED
    BY <1>3, <2>1, <2>2
<1>6. RecordIsYoung'
  <2> SUFFICES ASSUME Down, recorded = halts
               PROVE  /\ lockdown' # Null
                      /\ \A j \in 1..Len(status') :
                           status'[j].kind = "heartbeat" => lockdown' <= status'[j].age
    BY <1>1 DEF RecordIsYoung, Down
  <2>1. lockdown # Null /\ lockdown \in Nat
    BY StatusFacts DEF Lockdowns, RecordIsYoung
  <2>2. \A j \in 1..Len(status) : status[j].kind = "heartbeat" => lockdown <= status[j].age
    BY DEF Lockdowns, RecordIsYoung
  <2>3. CASE lockdown = Limit
    BY <1>1, <1>2, <1>3, <2>1, <2>2, <2>3, StatusFacts, DelayAssumption
  <2>4. CASE lockdown # Limit
    <3>1. lockdown' = lockdown + 1 /\ lockdown' # Null
      BY <1>1, <2>1, <2>4, NullAssumption
    <3>2. ASSUME NEW j \in 1..Len(status), status'[j].kind = "heartbeat"
          PROVE  lockdown' <= status'[j].age
      <4>1. status[j].age \in Nat /\ lockdown <= status[j].age
        BY <1>3, <2>2, <3>2, StatusFacts
      <4>2. status'[j].age = status[j].age + 1
        BY <1>3
      <4> QED
        BY <2>1, <3>1, <4>1, <4>2
    <3> QED
      BY <1>2, <3>1, <3>2
  <2> QED
    BY <2>3, <2>4
<1> QED
  BY <1>4, <1>5, <1>6 DEF Lockdowns

LEMMA LockdownStep == TypeOK /\ Lockdowns /\ [Next]_vars => Lockdowns'
<1> SUFFICES ASSUME TypeOK, Lockdowns, [Next]_vars PROVE Lockdowns'
  OBVIOUS
<1>1. CASE DeviceNext
  BY <1>1, DeviceKeepsLockdowns
<1>2. CASE Handle(BOOLEAN)
  BY <1>2, HandleKeepsLockdowns
<1>3. CASE Lose
  BY <1>3, TakeKeepsLockdowns DEF Lose, device, backend, row
<1>4. CASE Tick
  BY <1>4, TickKeepsLockdowns
<1>5. CASE UNCHANGED <<device, status, row>>
  BY <1>5
     DEF Lockdowns, HaltsArePast, HeartbeatsAreOlder, RecordIsYoung, Down, device, row
<1>6. CASE Broadcast(BOOLEAN) \/ Serve \/ Accept
  BY <1>5, <1>6 DEF Broadcast, Serve, Accept, backend
<1>7. CASE AppNext
  BY <1>5, <1>7
     DEF AppNext, Connect, Drop, Overrun, Deliver, Answer, FailPoll, backend
<1>8. CASE UNCHANGED vars
  BY <1>5, <1>8 DEF vars, backend
<1> QED
  BY <1>1, <1>2, <1>3, <1>4, <1>6, <1>7, <1>8 DEF Next, BackendNext

-----------------------------------------------------------------------------
(* The card. *)

Cards == LastIsShown /\ UpdateIsTrue

LEMMA HandleKeepsCards == TypeOK /\ Cards /\ Handle(BOOLEAN) => Cards'
<1> SUFFICES ASSUME TypeOK, Cards, Handle(BOOLEAN) PROVE Cards'
  OBVIOUS
<1> DEFINE m == Head(status)
<1>1. UNCHANGED <<link, queue, latest, card>>
  BY DEF Handle, socket, app
<1>2. LastIsShown'
  BY <1>1 DEF Cards, LastIsShown
<1>3. m \in Messages
  BY TailFacts DEF Handle, TypeOK
<1>4. UpdateIsTrue'
  <2>1. CASE HandleHeartbeat(m, BOOLEAN)
    <3>1. hidden' = (lockdown' # Null) /\ update'.lockdown = FALSE
      BY <2>1, Zenon DEF HandleHeartbeat, Show
    <3>2. update' \in Shown
      BY <2>1, ShowType, <1>3 DEF HandleHeartbeat
    <3>3. update' # Null
      BY <3>2, NullAssumption
    <3> QED
      BY <3>1, <3>3, Zenon DEF UpdateIsTrue
  <2>2. CASE HandleLockingDown(m, BOOLEAN) /\ UNCHANGED <<row, update, hidden>>
    BY <1>1, <2>2, Zenon DEF Cards, UpdateIsTrue, row
  <2>3. CASE HandleLockingDown(m, BOOLEAN) /\ ~UNCHANGED <<row, update, hidden>>
    <3>1. update' = Show("LOCKED", TRUE) /\ lockdown' = IF m.dated THEN m.age ELSE Limit
      BY <2>3 DEF HandleLockingDown
    <3>2. update'.lockdown = TRUE
      BY <3>1 DEF Show
    <3>3. update' \in Shown
      BY <3>1, ShowType
    <3>4. lockdown' \in Nat
      BY <1>3, <3>1, DelayAssumption DEF Messages
    <3>5. lockdown' # Null /\ update' # Null
      BY <3>3, <3>4, NullAssumption
    <3> QED
      BY <3>2, <3>5, Zenon DEF UpdateIsTrue
  <2>4. CASE HandleEvent(m, BOOLEAN)
    <3>1. PICK read \in BOOLEAN :
            /\ hidden' = (~read /\ lockdown # Null)
            /\ update' = Show(m.lock, read /\ lockdown # Null)
      BY <2>4 DEF HandleEvent
    <3>2. lockdown' = lockdown
      BY <2>4 DEF HandleEvent, row
    <3>3. update'.lockdown = (read /\ lockdown # Null)
      BY <3>1, Zenon DEF Show
    <3>4. ~hidden' => update'.lockdown = (lockdown' # Null)
      BY <3>1, <3>2, <3>3, Zenon
    <3>5. update' \in Shown
      BY <3>1, ShowType
    <3>6. update' # Null
      BY <3>5, NullAssumption
    <3> QED
      BY <3>4, <3>6, Zenon DEF UpdateIsTrue
  <2> QED
    BY <2>1, <2>2, <2>3, <2>4 DEF Handle
<1> QED
  BY <1>2, <1>4, Zenon DEF Cards

LEMMA BroadcastKeepsCards == TypeOK /\ Cards /\ Broadcast(BOOLEAN) => Cards'
<1> SUFFICES ASSUME TypeOK, Cards, Broadcast(BOOLEAN) PROVE Cards'
  OBVIOUS
<1>1. UNCHANGED <<link, card, lockdown>> /\ update' = Null /\ update # Null
  BY DEF Broadcast, row, app
<1>2. CASE hidden' = TRUE /\ UNCHANGED <<queue, lagged, latest>>
  BY <1>1, <1>2, Zenon DEF Cards, LastIsShown, UpdateIsTrue
<1>3. CASE Send /\ link # "open"
  BY <1>1, <1>3, Zenon DEF Send, Cards, LastIsShown, UpdateIsTrue
<1>4. CASE Send /\ link = "open"
  <2>1. /\ latest' = update /\ update \in Shown /\ queue \in Seq(Shown)
        /\ hidden' = hidden
    BY <1>1, <1>4 DEF Send, TypeOK
  <2>2. UpdateIsTrue'
    BY <1>1, <2>1, Zenon DEF Cards, UpdateIsTrue
  <2>3. ASSUME NEW q \in Seq(Shown), queue' = Append(q, update) PROVE LastIsShown'
    BY <1>1, <1>4, <2>1, <2>3, AppendFacts DEF LastIsShown
  <2>4. Tail(queue) \in Seq(Shown) \/ queue = <<>>
    BY <2>1, TailFacts
  <2>5. Len(queue) = Capacity => queue # <<>>
    BY BoundsAssumption
  <2>6. LastIsShown'
    BY <1>4, <2>1, <2>3, <2>4, <2>5 DEF Send
  <2> QED
    BY <2>2, <2>6 DEF Cards
<1> QED
  BY <1>2, <1>3, <1>4 DEF Broadcast

LEMMA AppKeepsCards == TypeOK /\ Cards /\ AppNext => Cards'
<1> SUFFICES ASSUME TypeOK, Cards, AppNext PROVE Cards'
  OBVIOUS
<1>0. UNCHANGED <<lockdown, update, hidden>>
  BY DEF AppNext, Connect, Drop, Overrun, Deliver, Answer, FailPoll, backend, row
<1>1. CASE Connect
  BY <1>0, <1>1, Zenon DEF Connect, Cards, LastIsShown, UpdateIsTrue
<1>2. CASE Drop \/ Overrun
  BY <1>0, <1>2, Zenon DEF Drop, Overrun, Close, Cards, LastIsShown, UpdateIsTrue
<1>3. CASE Deliver
  <2>1. UNCHANGED <<link, latest>>
    BY <1>3 DEF Deliver
  <2>2. UpdateIsTrue'
    BY <1>0, <2>1, Zenon DEF Cards, UpdateIsTrue
  <2>3. /\ queue \in Seq(Shown) /\ queue # <<>> /\ card' = queue[1]
        /\ queue' = Tail(queue) /\ link = "open"
    BY <1>3, TailFacts DEF Deliver, TypeOK
  <2>4. LastIsShown'
    <3>1. CASE Len(queue) = 1
      BY <2>1, <2>3, <3>1 DEF Cards, LastIsShown
    <3>2. CASE Len(queue) # 1
      <4>1. queue' # <<>> /\ queue'[Len(queue')] = queue[Len(queue)]
        <5>1. Len(queue) \in Nat /\ Len(queue) > 1
          <6>1. 1 \in 1..Len(queue) /\ Len(queue) \in Nat
            BY <2>3, TailFacts
          <6>2. \A n \in Nat : 1 \in 1..n /\ n # 1 => n > 1
            OBVIOUS
          <6> QED
            BY <3>2, <6>1, <6>2, Zenon
        <5>2. Len(queue') = Len(queue) - 1 /\ Len(queue') \in 1..Len(queue')
          BY <2>3, <5>1, TailFacts
        <5>3. queue'[Len(queue')] = queue[Len(queue') + 1]
          BY <2>3, <5>2, TailFacts
        <5>4. queue' # <<>>
          BY <5>1, <5>2
        <5> QED
          BY <5>1, <5>2, <5>3, <5>4
      <4> QED
        BY <2>1, <2>3, <4>1 DEF Cards, LastIsShown
    <3> QED
      BY <3>1, <3>2
  <2> QED
    BY <2>2, <2>4 DEF Cards
<1>4. CASE Answer
  BY <1>0, <1>4, Zenon DEF Answer, Cards, LastIsShown, UpdateIsTrue
<1>5. CASE FailPoll
  BY <1>0, <1>5, Zenon DEF FailPoll, socket, Cards, LastIsShown, UpdateIsTrue
<1> QED
  BY <1>1, <1>2, <1>3, <1>4, <1>5 DEF AppNext

LEMMA TickKeepsCards == TypeOK /\ Cards /\ Tick => Cards'
<1> SUFFICES ASSUME TypeOK, Cards, Tick PROVE Cards'
  OBVIOUS
<1>1. UNCHANGED <<link, queue, latest, card, update, hidden>>
  BY DEF Tick, socket, app
<1>2. lockdown' = Null <=> lockdown = Null
  <2>1. lockdown # Null => lockdown \in Nat
    BY StatusFacts
  <2> QED
    BY <2>1, NullAssumption DEF Tick
<1> QED
  BY <1>1, <1>2, Zenon DEF Cards, LastIsShown, UpdateIsTrue

LEMMA CardStep == TypeOK /\ Cards /\ [Next]_vars => Cards'
<1> SUFFICES ASSUME TypeOK, Cards, [Next]_vars PROVE Cards'
  OBVIOUS
<1>1. CASE Handle(BOOLEAN)
  BY <1>1, HandleKeepsCards
<1>2. CASE Broadcast(BOOLEAN)
  BY <1>2, BroadcastKeepsCards
<1>3. CASE Tick
  BY <1>3, TickKeepsCards
<1>4. CASE AppNext
  BY <1>4, AppKeepsCards
<1>5. CASE UNCHANGED <<link, queue, latest, card, lockdown, update, hidden>>
  BY <1>5, Zenon DEF Cards, LastIsShown, UpdateIsTrue
<1>6. CASE DeviceNext
  BY <1>5, <1>6
     DEF DeviceNext, Move, Heartbeat, LockDown, LockForHalt, Halt, PowerOn,
         backend, row, socket, app
<1>7. CASE Lose \/ Serve
  BY <1>5, <1>7 DEF Lose, Serve, backend, row, socket, app
<1>8. CASE Accept
  <2>1. link' = "open" /\ link = "connecting"
        /\ UNCHANGED <<queue, latest, card, lockdown, update, hidden>>
    BY <1>8 DEF Accept, backend, row, app
  <2> QED
    BY <2>1, Zenon DEF Cards, LastIsShown, UpdateIsTrue
<1>9. CASE UNCHANGED vars
  BY <1>5, <1>9 DEF vars, backend, row, socket, app
<1> QED
  BY <1>1, <1>2, <1>3, <1>4, <1>6, <1>7, <1>8, <1>9 DEF Next, BackendNext

-----------------------------------------------------------------------------
(* The invariant and the theorems. *)

LEMMA InitInvariant == Init => IInv
<1> SUFFICES ASSUME Init PROVE IInv
  OBVIOUS
<1>1. TypeOK
  <2>1. status \in Seq(Messages) /\ queue \in Seq(Shown) /\ Len(queue) <= Capacity
    BY BoundsAssumption DEF Init
  <2>2. halts \in 0..MaxHalts /\ moves \in 0..MaxMoves /\ recorded \in 0..MaxHalts
    BY BoundsAssumption DEF Init
  <2> QED
    BY <2>1, <2>2, ShowType DEF Init, TypeOK, Doors
<1>2. Lockdowns
  BY DEF Init, Lockdowns, HaltsArePast, HeartbeatsAreOlder, RecordIsYoung, Down
<1>3. Cards
  BY DEF Init, Cards, LastIsShown, UpdateIsTrue
<1> QED
  BY <1>1, <1>2, <1>3 DEF IInv, Lockdowns, Cards

LEMMA Invariant == Spec => []IInv
<1>1. IInv /\ [Next]_vars => IInv'
  BY TypeStep, LockdownStep, CardStep DEF IInv, Lockdowns, Cards
<1> QED
  BY InitInvariant, <1>1, PTL DEF Spec

(* Every variable keeps to its values; the queue keeps to its capacity. *)
THEOREM TypeCorrect == Spec => []TypeOK
<1>1. IInv => TypeOK
  BY DEF IInv
<1> QED
  BY Invariant, <1>1, PTL

(* No heartbeat sent before a lockdown clears it: a row that has recorded   *)
(* the lockdown of a device whose clock was set says so until the device is *)
(* started again.                                                           *)
THEOREM LockdownAlwaysHolds == Spec => []LockdownHolds
<1>1. IInv => LockdownHolds
  BY DEF IInv, RecordIsYoung, Down, LockdownHolds
<1> QED
  BY Invariant, <1>1, PTL

(* With nothing waiting, an open socket has left the card with the last     *)
(* update, and the card agrees with the row about the lockdown unless that  *)
(* update was a heartbeat within the 10 s or came of statements that failed.*)
THEOREM CardIsAlwaysCurrent == Spec => []CardIsCurrent
<1>1. IInv => CardIsCurrent
  <2> SUFFICES ASSUME IInv, link = "open", queue = <<>>, latest # Null
               PROVE  /\ card = latest
                      /\ update = Null /\ ~hidden => card.lockdown = (lockdown # Null)
    BY Zenon DEF CardIsCurrent
  <2>1. card = latest
    BY Zenon DEF IInv, LastIsShown
  <2>2. update = Null /\ ~hidden => latest.lockdown = (lockdown # Null)
    BY Zenon DEF IInv, UpdateIsTrue
  <2> QED
    BY <2>1, <2>2, Zenon
<1> QED
  BY Invariant, <1>1, PTL
=============================================================================
