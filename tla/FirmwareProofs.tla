--------------------------- MODULE FirmwareProofs ---------------------------
(***************************************************************************)
(* Proofs about AudioStream, for every length of the command queue, and    *)
(* about DeviceLife, for every bound.  The two have nothing in common but  *)
(* the device: their names are disjoint, and so are the two halves here.   *)
(*                                                                         *)
(* In AudioStream NeverStuck is inductive once the types are known.        *)
(* StreamIsOwned is not: that a recording under way finds streaming        *)
(* enabled depends on no second trigger having been given meanwhile, and   *)
(* that one on the first trigger having been the only one.  OneTrigger     *)
(* says so: without a race the gate given, the two tasks about to give it  *)
(* and the recording that consumed it exclude one another, and each        *)
(* implies streaming_enabled.                                              *)
(*                                                                         *)
(* In DeviceLife AnsweredIsStored needs what is stored of the request that *)
(* is not answered yet, up to where the server has come (RequestIsStored); *)
(* StoppedIsLocked needs what was last said of a locked door, and who has  *)
(* yet to say it (ReportIsTrue).  What becomes of the client is decided by *)
(* the order of a shutdown: one that met no other is alone, whatever it    *)
(* has destroyed it is itself about to clear, and it has waited for the    *)
(* command that the MQTT task had in hand.                                 *)
(***************************************************************************)
EXTENDS AudioStream, DeviceLife, TLAPS

-----------------------------------------------------------------------------
(* The audio tasks. *)

(* Without a race there is one trigger at a time. *)
OneTrigger ==
    ~raced =>
        /\ Busy \/ Due => streaming
        /\ ~(Busy /\ Due)
        /\ ~(gate /\ control = "give")
        /\ ~(gate /\ vad = "give")
        /\ ~(control = "give" /\ vad = "give")

(* The lights, wherever http_stream_task is. *)
LightsFollow ==
    ~starved /\ ~unsent =>
        /\ ~leaked
        /\ fast => http \in {"send", "await"}
        /\ idle = "suspended" => http \in {"allocate", "record", "send", "await"}

IInv == TypeOK /\ NeverStuck /\ OneTrigger /\ LightsFollow

-----------------------------------------------------------------------------
(* The inductive invariant holds of the state audio_stream_init leaves.    *)
LEMMA InvariantInit == Init => IInv
<1> SUFFICES ASSUME Init PROVE IInv
  OBVIOUS
<1> USE DEF Init
<1>1. QueueType
  BY QueueAssumption DEF QueueType
<1>2. FlagTypes
  BY DEF FlagTypes
<1>3. PlaceTypes
  BY DEF PlaceTypes, HttpLabels
<1>4. NeverStuck /\ OneTrigger /\ LightsFollow
  BY DEF NeverStuck, OneTrigger, LightsFollow, Busy, Due
<1> QED
  BY <1>1, <1>2, <1>3, <1>4 DEF IInv, TypeOK

(* The queue is appended to only when there is room. *)
LEMMA QueueStep == QueueType /\ [Next]_vars => QueueType'
<1> SUFFICES ASSUME QueueType, [Next]_vars PROVE QueueType'
  OBVIOUS
<1> USE QueueAssumption DEF QueueType
<1>1. ASSUME NEW command \in {"START", "STOP"}, Send(command) PROVE QueueType'
  BY <1>1 DEF Send
<1>2. CASE ReceiveStart \/ ReceiveStop
  BY <1>2 DEF ReceiveStart, ReceiveStop
<1>3. CASE Connected \/ Enable \/ Give \/ Vads \/ Https \/ UNCHANGED vars
  <2>1. UNCHANGED queue
    BY <1>3 DEF Connected, Enable, Give, Vads, VadListens, VadHearsNothing,
                VadTriggers, VadGives, Https, TakeGate, NoClientOrBuffer,
                StartRecording, NoSmallBuffer, Allocated, FillBuffer,
                EndRecording, OpenFails, Sent, NotSent, Answered, Finish, vars
  <2> QED
    BY <2>1
<1> QED
  BY <1>1, <1>2, <1>3 DEF Next, Controls

(* The flags stay Boolean. *)
LEMMA FlagsStep == FlagTypes /\ [Next]_vars => FlagTypes'
<1> SUFFICES ASSUME FlagTypes, [Next]_vars PROVE FlagTypes'
  OBVIOUS
<1> USE DEF FlagTypes, lights, past
<1>1. CASE (\E command \in {"START", "STOP"} : Send(command)) \/ Connected
  BY <1>1 DEF Send, Connected
<1>2. CASE Controls
  BY <1>2 DEF Controls, ReceiveStart, ReceiveStop, Enable, Give
<1>3. CASE Vads
  BY <1>3 DEF Vads, VadListens, VadHearsNothing, VadTriggers, VadGives
<1>4. CASE TakeGate \/ NoClientOrBuffer \/ StartRecording \/ NoSmallBuffer
  BY <1>4 DEF TakeGate, NoClientOrBuffer, StartRecording, NoSmallBuffer, Back, Due
<1>5. CASE Allocated \/ FillBuffer \/ EndRecording \/ OpenFails
  BY <1>5 DEF Allocated, FillBuffer, EndRecording, OpenFails, Back, Due
<1>6. CASE Sent \/ NotSent \/ Answered \/ Finish
  BY <1>6 DEF Sent, NotSent, Answered, Finish, Back, Due
<1>7. CASE UNCHANGED vars
  BY <1>7 DEF vars
<1> QED
  BY <1>1, <1>2, <1>3, <1>4, <1>5, <1>6, <1>7 DEF Next, Https

(* The tasks stay at their labels. *)
LEMMA PlacesStep == PlaceTypes /\ [Next]_vars => PlaceTypes'
<1> SUFFICES ASSUME PlaceTypes, [Next]_vars PROVE PlaceTypes'
  OBVIOUS
<1> USE DEF PlaceTypes, HttpLabels, lights, past
<1>1. CASE (\E command \in {"START", "STOP"} : Send(command)) \/ Connected
  BY <1>1 DEF Send, Connected
<1>2. CASE Controls
  BY <1>2 DEF Controls, ReceiveStart, ReceiveStop, Enable, Give
<1>3. CASE Vads
  BY <1>3 DEF Vads, VadListens, VadHearsNothing, VadTriggers, VadGives
<1>4. CASE TakeGate \/ NoClientOrBuffer \/ StartRecording \/ NoSmallBuffer
  BY <1>4 DEF TakeGate, NoClientOrBuffer, StartRecording, NoSmallBuffer, Back
<1>5. CASE Allocated \/ FillBuffer \/ EndRecording \/ OpenFails
  BY <1>5 DEF Allocated, FillBuffer, EndRecording, OpenFails, Back
<1>6. CASE Sent \/ NotSent \/ Answered \/ Finish
  BY <1>6 DEF Sent, NotSent, Answered, Finish, Back
<1>7. CASE UNCHANGED vars
  BY <1>7 DEF vars
<1> QED
  BY <1>1, <1>2, <1>3, <1>4, <1>5, <1>6, <1>7 DEF Next, Https

(* Every step keeps the three facts about triggers and lights. *)
LEMMA FactsStep ==
    IInv /\ [Next]_vars => (NeverStuck /\ OneTrigger /\ LightsFollow)'
<1> SUFFICES ASSUME IInv, [Next]_vars
             PROVE  (NeverStuck /\ OneTrigger /\ LightsFollow)'
  OBVIOUS
<1> USE DEF IInv, TypeOK, FlagTypes, NeverStuck, OneTrigger, LightsFollow,
            Busy, Due, lights, past
<1>1. ASSUME NEW command \in {"START", "STOP"}, Send(command)
      PROVE  (NeverStuck /\ OneTrigger /\ LightsFollow)'
  BY <1>1 DEF Send
<1>2. CASE Connected
  BY <1>2 DEF Connected
<1>3. CASE ReceiveStart \/ ReceiveStop
  BY <1>3 DEF ReceiveStart, ReceiveStop
<1>4. CASE Enable
  BY <1>4 DEF Enable
<1>5. CASE Give
  BY <1>5 DEF Give
<1>6. CASE VadListens \/ VadHearsNothing
  BY <1>6 DEF VadListens, VadHearsNothing
<1>7. CASE VadTriggers \/ VadGives
  BY <1>7 DEF VadTriggers, VadGives
<1>8. CASE TakeGate
  BY <1>8 DEF TakeGate
<1>9. CASE NoClientOrBuffer \/ NoSmallBuffer \/ OpenFails \/ Finish
  BY <1>9 DEF NoClientOrBuffer, NoSmallBuffer, OpenFails, Finish, Back
<1>10. CASE StartRecording \/ Allocated \/ FillBuffer
  BY <1>10 DEF StartRecording, Allocated, FillBuffer
<1>11. CASE EndRecording \/ Sent \/ NotSent
  BY <1>11 DEF EndRecording, Sent, NotSent
<1>12. CASE Answered
  BY <1>12 DEF Answered
<1>13. CASE UNCHANGED vars
  BY <1>13 DEF vars
<1> QED
  BY <1>1, <1>2, <1>3, <1>4, <1>5, <1>6, <1>7, <1>8, <1>9, <1>10, <1>11,
     <1>12, <1>13
     DEF Next, Controls, Vads, Https

(* IInv is an invariant of audio_stream.c. *)
LEMMA Invariance == Spec => []IInv
<1>1. IInv /\ [Next]_vars => IInv'
  BY QueueStep, FlagsStep, PlacesStep, FactsStep DEF IInv, TypeOK
<1> QED
  BY InvariantInit, <1>1, PTL DEF Spec

-----------------------------------------------------------------------------
(* The variables keep their types, and the command queue its length. *)
THEOREM TypeCorrect == Spec => []TypeOK
<1>1. IInv => TypeOK
  BY DEF IInv
<1> QED
  BY Invariance, <1>1, PTL

(* Whatever the commands, the voices and the failures, streaming_enabled   *)
(* is left set with nobody to clear it only by the failed allocation, and  *)
(* a recording has it set unless two triggers raced.                       *)
THEOREM StreamIsAlwaysOwned == Spec => []StreamHasOwner
<1>1. IInv => StreamHasOwner
  BY DEF IInv, OneTrigger, StreamIsOwned, StreamHasOwner
<1> QED
  BY Invariance, <1>1, PTL

(* Between recordings the lights are those of an idle device, unless a     *)
(* failure branch that skips them was taken.                               *)
THEOREM LightsAreRestored == Spec => []LightsRestored
<1>1. IInv => LightsRestored
  BY DEF IInv, LightsFollow, LightsRestored, Busy
<1> QED
  BY Invariance, <1>1, PTL

-----------------------------------------------------------------------------
(* The device from one start to the next. *)

(* What a shutdown has locked the door for, and who has yet to say so. *)
Owed == \E t \in Tasks : step[t] \in {"report", "locked"}

AnswerIsPast == answered <= requests

(* What is written is of a request. *)
WritesARequest == server \in Params => requests > 0

(* The request in hand is stored as far as handle_pairing_client has come. *)
RequestIsStored ==
    requests \notin failed =>
        /\ server \in {"wifi_pass", "user_id", "answer", "paired", "done"}
               => stored["wifi_ssid"] = requests
        /\ server \in {"user_id", "answer", "paired", "done"}
               => stored["wifi_pass"] = requests
        /\ server \in {"answer", "paired", "done"}
               => stored["user_id"] = requests

(* A locked door was said to be locked, if it was said to be anything:      *)
(* unless what was said is outdated, or a task has yet to say it.           *)
ReportIsTrue ==
    heard /\ door = "LOCKED" => reported = "LOCKED" \/ outdated \/ Owed

(* A task that holds the mutex to publish has opened the door, and a        *)
(* shutdown that is past the locking has closed it.                         *)
OpenWhileHeld == \A t \in Tasks : step[t] = "unlock" => door = "UNLOCKED"
LockedBehind ==
    ~reopened => \A t \in Tasks : step[t] \in Behind \cup {"locked"} => door = "LOCKED"

(* A shutdown that has met no other is alone, it has deleted the heartbeat, *)
(* and is itself about to clear the client that it has destroyed, for which *)
(* it has waited until the MQTT task had no command, if it is another.      *)
OneShutdown ==
    ~met => \A t, u \in Tasks : ShuttingDown(t) /\ ShuttingDown(u) => t = u
HeartbeatIsOver ==
    ~met /\ (\E t \in Tasks : step[t] \in Behind \ {"cleanup"})
        => heartbeat \in {"none", "killed"}
FreedIsCleared ==
    ~met /\ client = "freed" => \E t \in Tasks : step[t] = "clear"
CommandIsOver == client = "freed" => step["mqtt"] \in {"idle", "clear"}

(* Nothing runs in a device without power, nor before app_main. *)
NothingBefore == boot \in {"boot", "off"} => \A t \in Tasks : step[t] = "idle"

LifeInv ==
    /\ LifeTypeOK
    /\ WritesARequest /\ AnswerIsPast /\ RequestIsStored /\ AnsweredIsStored
    /\ ReportIsTrue /\ OpenWhileHeld /\ LockedBehind
    /\ OneShutdown /\ HeartbeatIsOver /\ FreedIsCleared /\ CommandIsOver /\ NothingBefore

(* LifeTypeOK in three parts: the Booleans, the numbers and the rest. *)
LifeFlags ==
    /\ pairing \in BOOLEAN /\ flag \in BOOLEAN
    /\ paired \in BOOLEAN /\ timed \in BOOLEAN
    /\ reopened \in BOOLEAN /\ met \in BOOLEAN
    /\ heard \in BOOLEAN /\ outdated \in BOOLEAN
LifeCounts ==
    /\ stored \in [Params -> 0..MaxRequests]
    /\ requests \in 0..MaxRequests /\ answered \in 0..MaxRequests
    /\ commands \in 0..MaxCommands
    /\ failures \in 0..MaxFailures /\ losses \in 0..MaxLosses
    /\ beats \in 0..MaxBeats
    /\ failed \subseteq 1..MaxRequests /\ cut \subseteq 1..MaxRequests
LifeStates ==
    /\ boot \in {"boot", "pairing", "station", "starting", "online", "returned",
                "asleep", "off"}
    /\ server \in {"idle", "open", "accept", "recv", "answer", "paired", "done"} \cup Params
    /\ client \in {"none", "up", "freed"}
    /\ heartbeat \in {"none", "idle", "sending", "killed"} \cup Doors
    /\ door \in Doors /\ reported \in Doors
    /\ step \in [Tasks -> Steps]
    /\ goal \in [Tasks -> {"restart", "halt"}]

(* What a step of the device can be. *)
LEMMA LifeCases ==
    ASSUME [LifeNext]_lifeVars
    PROVE  \/ Load
           \/ EnterPairing
           \/ Connect
           \/ ConnectFails
           \/ StartHeartbeat
           \/ ReadState
           \/ SendState
           \/ EndSending
           \/ OpenServer
           \/ Accept
           \/ Reject
           \/ Configure
           \/ \E p \in Params : Write(p)
           \/ Answer
           \/ SetPaired
           \/ EndPairing
           \/ Timeout
           \/ Enter
           \/ \E t \in Tasks : Unlock(t)
           \/ \E t \in Tasks : Relock(t)
           \/ \E t \in Tasks : Speak(t)
           \/ \E t \in Tasks : Say(t)
           \/ \E t \in Tasks : ShutDown(t)
           \/ \E t \in Tasks : Pair(t)
           \/ \E t \in Tasks : Announce(t)
           \/ \E t \in Tasks : LockUp(t)
           \/ \E t \in Tasks : DeleteHeartbeat(t)
           \/ \E t \in Tasks : Test(t)
           \/ \E t \in Tasks : Destroy(t)
           \/ \E t \in Tasks : Clear(t)
           \/ \E t \in Tasks : Stop(t)
           \/ Crash
           \/ LosePower
           \/ PowerOn
           \/ UNCHANGED lifeVars
<1>1. CASE LifeNext
  <2>1. CASE Main
    BY <2>1 DEF Main
  <2>2. CASE Commands
    BY <2>2 DEF Commands, Tasks
  <2>3. CASE Power
    BY <2>3 DEF Power
  <2>4. CASE \E t \in Tasks : Say(t) \/ ShutdownStep(t)
    BY <2>4 DEF ShutdownStep
  <2>5. CASE Heartbeat
    BY <2>5 DEF Heartbeat
  <2>6. QED
    BY <1>1, <2>1, <2>2, <2>3, <2>4, <2>5 DEF LifeNext
<1>2. QED
  BY <1>1

(* Failures are counted up to their bound. *)
LEMMA FailureCounts ==
    ASSUME failures \in 0..MaxFailures, Fail
    PROVE  failures' \in 0..MaxFailures
  BY BoundsAssumption DEF Fail

(* The Booleans of the device stay Boolean. *)
LEMMA LifeFlagsStep == LifeTypeOK /\ [LifeNext]_lifeVars => LifeFlags'
<1> SUFFICES ASSUME LifeFlags, LifeCounts, LifeStates,
                    [LifeNext]_lifeVars
             PROVE  LifeFlags'
  BY DEF LifeTypeOK, LifeFlags, LifeCounts, LifeStates
<1> USE DEF LifeFlags, config, pair, network, lock, shutdown, bounds, said, history
<1>1. ASSUME Load PROVE LifeFlags'
  BY <1>1 DEF Load
<1>2. ASSUME EnterPairing PROVE LifeFlags'
  BY <1>2 DEF EnterPairing, Fail
<1>3. ASSUME Connect PROVE LifeFlags'
  BY <1>3 DEF Connect, Torn, Free, Running, Fail
<1>4. ASSUME ConnectFails PROVE LifeFlags'
  BY <1>4 DEF ConnectFails, Free, Running, Begin, Goto
<1>5. ASSUME StartHeartbeat PROVE LifeFlags'
  BY <1>5 DEF StartHeartbeat
<1>6. ASSUME ReadState PROVE LifeFlags'
  BY <1>6 DEF ReadState, Running
<1>7. ASSUME SendState PROVE LifeFlags'
  BY <1>7 DEF SendState, Running, Publish
<1>8. ASSUME EndSending PROVE LifeFlags'
  BY <1>8 DEF EndSending, Running
<1>9. ASSUME OpenServer PROVE LifeFlags'
  BY <1>9 DEF OpenServer, InPairing, Serve, Fail
<1>10. ASSUME Accept PROVE LifeFlags'
  BY <1>10 DEF Accept, InPairing, Serve
<1>11. ASSUME Reject PROVE LifeFlags'
  BY <1>11 DEF Reject, InPairing, Serve
<1>12. ASSUME Configure PROVE LifeFlags'
  BY <1>12 DEF Configure, Receive, InPairing, Serve, Fail
<1>13. ASSUME NEW p \in Params, Write(p) PROVE LifeFlags'
  BY <1>13 DEF Write, InPairing, Serve, Fail, After
<1>14. ASSUME Answer PROVE LifeFlags'
  BY <1>14 DEF Answer, InPairing, Serve
<1>15. ASSUME SetPaired PROVE LifeFlags'
  BY <1>15 DEF SetPaired, InPairing, Serve
<1>16. ASSUME EndPairing PROVE LifeFlags'
  BY <1>16 DEF EndPairing, InPairing, Free, Running, Begin, Goto
<1>17. ASSUME Timeout PROVE LifeFlags'
  BY <1>17 DEF Timeout, Free, Running, Begin, Goto
<1>18. ASSUME Enter PROVE LifeFlags'
  BY <1>18 DEF Enter, Commanded, Free, Running, Command, Goto
<1>19. ASSUME NEW t \in Tasks, Unlock(t) PROVE LifeFlags'
  BY <1>19 DEF Unlock, Commanded, Free, Running, Command, Goto
<1>20. ASSUME NEW t \in Tasks, Relock(t) PROVE LifeFlags'
  BY <1>20 DEF Relock, Running, LockDoor, Goto
<1>21. ASSUME NEW t \in Tasks, Speak(t) PROVE LifeFlags'
  BY <1>21 DEF Speak, Commanded, Free, Running, Command, Goto
<1>22. ASSUME NEW t \in Tasks, Say(t) PROVE LifeFlags'
  BY <1>22 DEF Say, Running, Publish, Goto
<1>23. ASSUME NEW t \in Tasks, ShutDown(t) PROVE LifeFlags'
  BY <1>23 DEF ShutDown, Commanded, Free, Running, Command, Begin, Goto
<1>24. ASSUME NEW t \in Tasks, Pair(t) PROVE LifeFlags'
  BY <1>24 DEF Pair, Commanded, Free, Running, Command, SetPairingMode, Fail, Begin,
     Goto
<1>25. ASSUME NEW t \in Tasks, Announce(t) PROVE LifeFlags'
  BY <1>25 DEF Announce, At, Running, Goto
<1>26. ASSUME NEW t \in Tasks, LockUp(t) PROVE LifeFlags'
  BY <1>26 DEF LockUp, At, Running, LockDoor, Goto
<1>27. ASSUME NEW t \in Tasks, DeleteHeartbeat(t) PROVE LifeFlags'
  BY <1>27 DEF DeleteHeartbeat, At, Running, Goto
<1>28. ASSUME NEW t \in Tasks, Test(t) PROVE LifeFlags'
  BY <1>28 DEF Test, At, Running, Goto
<1>29. ASSUME NEW t \in Tasks, Destroy(t) PROVE LifeFlags'
  BY <1>29 DEF Destroy, At, Running, Goto
<1>30. ASSUME NEW t \in Tasks, Clear(t) PROVE LifeFlags'
  BY <1>30 DEF Clear, At, Running, Goto
<1>31. ASSUME NEW t \in Tasks, Stop(t) PROVE LifeFlags'
  BY <1>31 DEF Stop, At, Running, Fresh
<1>32. ASSUME Crash PROVE LifeFlags'
  BY <1>32 DEF Crash, Running, Fresh
<1>33. ASSUME LosePower PROVE LifeFlags'
  BY <1>33 DEF LosePower, Fresh
<1>34. ASSUME PowerOn PROVE LifeFlags'
  BY <1>34 DEF PowerOn
<1>35. CASE UNCHANGED lifeVars
  BY <1>35 DEF lifeVars
<1> QED
  BY <1>1, <1>2, <1>3, <1>4, <1>5, <1>6, <1>7, <1>8, <1>9, <1>10, <1>11, <1>12,
     <1>13, <1>14, <1>15, <1>16, <1>17, <1>18, <1>19, <1>20, <1>21, <1>22, <1>23,
     <1>24, <1>25, <1>26, <1>27, <1>28, <1>29, <1>30, <1>31, <1>32, <1>33, <1>34,
     <1>35, LifeCases

(* Its counters stay within their bounds, and its requests are numbered. *)
LEMMA LifeCountsStep ==
    LifeTypeOK /\ WritesARequest /\ [LifeNext]_lifeVars => LifeCounts'
<1> SUFFICES ASSUME WritesARequest, LifeFlags, LifeCounts, LifeStates,
                    [LifeNext]_lifeVars
             PROVE  LifeCounts'
  BY DEF LifeTypeOK, LifeFlags, LifeCounts, LifeStates
<1> USE BoundsAssumption DEF LifeCounts, Params, config, pair, network, lock,
                             shutdown, bounds, said, history
<1>1. ASSUME Load PROVE LifeCounts'
  BY <1>1 DEF Load
<1>2. ASSUME EnterPairing PROVE LifeCounts'
  <2>1. failures' \in 0..MaxFailures
    BY <1>2, FailureCounts DEF EnterPairing
  <2>2. QED
    BY <1>2, <2>1 DEF EnterPairing
<1>3. ASSUME Connect PROVE LifeCounts'
  <2>1. failures' \in 0..MaxFailures
    BY <1>3, FailureCounts DEF Connect
  <2>2. QED
    BY <1>3, <2>1 DEF Connect
<1>4. ASSUME ConnectFails PROVE LifeCounts'
  BY <1>4 DEF ConnectFails, Free, Running, Begin, Goto
<1>5. ASSUME StartHeartbeat PROVE LifeCounts'
  BY <1>5 DEF StartHeartbeat
<1>6. ASSUME ReadState PROVE LifeCounts'
  BY <1>6 DEF ReadState, Running
<1>7. ASSUME SendState PROVE LifeCounts'
  BY <1>7 DEF SendState, Running, Publish
<1>8. ASSUME EndSending PROVE LifeCounts'
  BY <1>8 DEF EndSending, Running
<1>9. ASSUME OpenServer PROVE LifeCounts'
  <2>1. failures' \in 0..MaxFailures
    BY <1>9, FailureCounts DEF OpenServer
  <2>2. QED
    BY <1>9, <2>1 DEF OpenServer, Serve
<1>10. ASSUME Accept PROVE LifeCounts'
  BY <1>10 DEF Accept, InPairing, Serve
<1>11. ASSUME Reject PROVE LifeCounts'
  BY <1>11 DEF Reject, InPairing, Serve
<1>12. ASSUME Configure PROVE LifeCounts'
  <2>1. failures' \in 0..MaxFailures
    BY <1>12, FailureCounts DEF Configure, Receive
  <2>2. requests' \in 1..MaxRequests
    BY <1>12 DEF Configure, Receive
  <2>3. cut' \subseteq 1..MaxRequests
    BY <1>12, <2>2 DEF Configure, Receive
  <2>4. QED
    BY <1>12, <2>1, <2>2, <2>3 DEF Configure, Receive, Serve
<1>13. ASSUME NEW p \in Params, Write(p) PROVE LifeCounts'
  <2>1. failures' \in 0..MaxFailures
    BY <1>13, FailureCounts DEF Write
  <2>2. requests \in 1..MaxRequests
    BY <1>13 DEF WritesARequest, Write, InPairing
  <2>3. stored' \in [Params -> 0..MaxRequests]
    BY <1>13 DEF Write
  <2>4. failed' \subseteq 1..MaxRequests
    BY <1>13, <2>2 DEF Write, InPairing
  <2>5. QED
    BY <1>13, <2>1, <2>3, <2>4 DEF Write, Serve
<1>14. ASSUME Answer PROVE LifeCounts'
  BY <1>14 DEF Answer, InPairing, Serve
<1>15. ASSUME SetPaired PROVE LifeCounts'
  BY <1>15 DEF SetPaired, InPairing, Serve
<1>16. ASSUME EndPairing PROVE LifeCounts'
  BY <1>16 DEF EndPairing, InPairing, Free, Running, Begin, Goto
<1>17. ASSUME Timeout PROVE LifeCounts'
  BY <1>17 DEF Timeout, Free, Running, Begin, Goto
<1>18. ASSUME Enter PROVE LifeCounts'
  BY <1>18 DEF Enter, Commanded, Free, Running, Command, Goto
<1>19. ASSUME NEW t \in Tasks, Unlock(t) PROVE LifeCounts'
  BY <1>19 DEF Unlock, Commanded, Free, Running, Command, Goto
<1>20. ASSUME NEW t \in Tasks, Relock(t) PROVE LifeCounts'
  BY <1>20 DEF Relock, Running, LockDoor, Goto
<1>21. ASSUME NEW t \in Tasks, Speak(t) PROVE LifeCounts'
  BY <1>21 DEF Speak, Commanded, Free, Running, Command, Goto
<1>22. ASSUME NEW t \in Tasks, Say(t) PROVE LifeCounts'
  BY <1>22 DEF Say, Running, Publish, Goto
<1>23. ASSUME NEW t \in Tasks, ShutDown(t) PROVE LifeCounts'
  BY <1>23 DEF ShutDown, Commanded, Free, Running, Command, Begin, Goto
<1>24. ASSUME NEW t \in Tasks, Pair(t) PROVE LifeCounts'
  <2>1. failures' \in 0..MaxFailures
    BY <1>24, FailureCounts DEF Pair, SetPairingMode
  <2>2. commands' \in 0..MaxCommands
    BY <1>24 DEF Pair, Commanded, Command
  <2>3. QED
    BY <1>24, <2>1, <2>2 DEF Pair
<1>25. ASSUME NEW t \in Tasks, Announce(t) PROVE LifeCounts'
  BY <1>25 DEF Announce, At, Running, Goto
<1>26. ASSUME NEW t \in Tasks, LockUp(t) PROVE LifeCounts'
  BY <1>26 DEF LockUp, At, Running, LockDoor, Goto
<1>27. ASSUME NEW t \in Tasks, DeleteHeartbeat(t) PROVE LifeCounts'
  BY <1>27 DEF DeleteHeartbeat, At, Running, Goto
<1>28. ASSUME NEW t \in Tasks, Test(t) PROVE LifeCounts'
  BY <1>28 DEF Test, At, Running, Goto
<1>29. ASSUME NEW t \in Tasks, Destroy(t) PROVE LifeCounts'
  BY <1>29 DEF Destroy, At, Running, Goto
<1>30. ASSUME NEW t \in Tasks, Clear(t) PROVE LifeCounts'
  BY <1>30 DEF Clear, At, Running, Goto
<1>31. ASSUME NEW t \in Tasks, Stop(t) PROVE LifeCounts'
  BY <1>31 DEF Stop, At, Running, Fresh
<1>32. ASSUME Crash PROVE LifeCounts'
  BY <1>32 DEF Crash, Running, Fresh
<1>33. ASSUME LosePower PROVE LifeCounts'
  BY <1>33 DEF LosePower, Fresh
<1>34. ASSUME PowerOn PROVE LifeCounts'
  BY <1>34 DEF PowerOn
<1>35. CASE UNCHANGED lifeVars
  BY <1>35 DEF lifeVars
<1> QED
  BY <1>1, <1>2, <1>3, <1>4, <1>5, <1>6, <1>7, <1>8, <1>9, <1>10, <1>11, <1>12,
     <1>13, <1>14, <1>15, <1>16, <1>17, <1>18, <1>19, <1>20, <1>21, <1>22, <1>23,
     <1>24, <1>25, <1>26, <1>27, <1>28, <1>29, <1>30, <1>31, <1>32, <1>33, <1>34,
     <1>35, LifeCases

(* Its tasks, its server and its door are in states that they have. *)
LEMMA LifeStatesStep == LifeTypeOK /\ [LifeNext]_lifeVars => LifeStates'
<1> SUFFICES ASSUME LifeFlags, LifeCounts, LifeStates,
                    [LifeNext]_lifeVars
             PROVE  LifeStates'
  BY DEF LifeTypeOK, LifeFlags, LifeCounts, LifeStates
<1> USE DEF LifeStates, Params, Tasks, Doors, Steps, Calls, Behind,
            config, pair, network, lock, shutdown, bounds, said, history
<1>1. ASSUME Load PROVE LifeStates'
  BY <1>1 DEF Load
<1>2. ASSUME EnterPairing PROVE LifeStates'
  BY <1>2 DEF EnterPairing, Fail
<1>3. ASSUME Connect PROVE LifeStates'
  BY <1>3 DEF Connect, Torn, Free, Running, Fail
<1>4. ASSUME ConnectFails PROVE LifeStates'
  BY <1>4 DEF ConnectFails, Free, Running, Begin, Goto
<1>5. ASSUME StartHeartbeat PROVE LifeStates'
  BY <1>5 DEF StartHeartbeat
<1>6. ASSUME ReadState PROVE LifeStates'
  BY <1>6 DEF ReadState, Running
<1>7. ASSUME SendState PROVE LifeStates'
  BY <1>7 DEF SendState, Running, Publish
<1>8. ASSUME EndSending PROVE LifeStates'
  BY <1>8 DEF EndSending, Running
<1>9. ASSUME OpenServer PROVE LifeStates'
  BY <1>9 DEF OpenServer, InPairing, Serve, Fail
<1>10. ASSUME Accept PROVE LifeStates'
  BY <1>10 DEF Accept, InPairing, Serve
<1>11. ASSUME Reject PROVE LifeStates'
  BY <1>11 DEF Reject, InPairing, Serve
<1>12. ASSUME Configure PROVE LifeStates'
  BY <1>12 DEF Configure, Receive, InPairing, Serve, Fail
<1>13. ASSUME NEW p \in Params, Write(p) PROVE LifeStates'
  BY <1>13 DEF Write, InPairing, Serve, Fail, After
<1>14. ASSUME Answer PROVE LifeStates'
  BY <1>14 DEF Answer, InPairing, Serve
<1>15. ASSUME SetPaired PROVE LifeStates'
  BY <1>15 DEF SetPaired, InPairing, Serve
<1>16. ASSUME EndPairing PROVE LifeStates'
  BY <1>16 DEF EndPairing, InPairing, Free, Running, Begin, Goto
<1>17. ASSUME Timeout PROVE LifeStates'
  BY <1>17 DEF Timeout, Free, Running, Begin, Goto
<1>18. ASSUME Enter PROVE LifeStates'
  BY <1>18 DEF Enter, Commanded, Free, Running, Command, Goto
<1>19. ASSUME NEW t \in Tasks, Unlock(t) PROVE LifeStates'
  BY <1>19 DEF Unlock, Commanded, Free, Running, Command, Goto
<1>20. ASSUME NEW t \in Tasks, Relock(t) PROVE LifeStates'
  BY <1>20 DEF Relock, Running, LockDoor, Goto
<1>21. ASSUME NEW t \in Tasks, Speak(t) PROVE LifeStates'
  BY <1>21 DEF Speak, Commanded, Free, Running, Command, Goto
<1>22. ASSUME NEW t \in Tasks, Say(t) PROVE LifeStates'
  BY <1>22 DEF Say, Running, Publish, Goto
<1>23. ASSUME NEW t \in Tasks, ShutDown(t) PROVE LifeStates'
  BY <1>23 DEF ShutDown, Commanded, Free, Running, Command, Begin, Goto
<1>24. ASSUME NEW t \in Tasks, Pair(t) PROVE LifeStates'
  BY <1>24 DEF Pair, Commanded, Free, Running, Command, SetPairingMode, Fail, Begin,
     Goto
<1>25. ASSUME NEW t \in Tasks, Announce(t) PROVE LifeStates'
  BY <1>25 DEF Announce, At, Running, Goto
<1>26. ASSUME NEW t \in Tasks, LockUp(t) PROVE LifeStates'
  BY <1>26 DEF LockUp, At, Running, LockDoor, Goto
<1>27. ASSUME NEW t \in Tasks, DeleteHeartbeat(t) PROVE LifeStates'
  BY <1>27 DEF DeleteHeartbeat, At, Running, Goto
<1>28. ASSUME NEW t \in Tasks, Test(t) PROVE LifeStates'
  BY <1>28 DEF Test, At, Running, Goto
<1>29. ASSUME NEW t \in Tasks, Destroy(t) PROVE LifeStates'
  BY <1>29 DEF Destroy, At, Running, Goto
<1>30. ASSUME NEW t \in Tasks, Clear(t) PROVE LifeStates'
  BY <1>30 DEF Clear, At, Running, Goto
<1>31. ASSUME NEW t \in Tasks, Stop(t) PROVE LifeStates'
  BY <1>31 DEF Stop, At, Running, Fresh
<1>32. ASSUME Crash PROVE LifeStates'
  BY <1>32 DEF Crash, Running, Fresh
<1>33. ASSUME LosePower PROVE LifeStates'
  BY <1>33 DEF LosePower, Fresh
<1>34. ASSUME PowerOn PROVE LifeStates'
  BY <1>34 DEF PowerOn
<1>35. CASE UNCHANGED lifeVars
  BY <1>35 DEF lifeVars
<1> QED
  BY <1>1, <1>2, <1>3, <1>4, <1>5, <1>6, <1>7, <1>8, <1>9, <1>10, <1>11, <1>12,
     <1>13, <1>14, <1>15, <1>16, <1>17, <1>18, <1>19, <1>20, <1>21, <1>22, <1>23,
     <1>24, <1>25, <1>26, <1>27, <1>28, <1>29, <1>30, <1>31, <1>32, <1>33, <1>34,
     <1>35, LifeCases

-----------------------------------------------------------------------------
(* The requests of a pairing. *)

PairingInv == WritesARequest /\ AnswerIsPast /\ RequestIsStored /\ AnsweredIsStored

Kept == <<requests, answered, stored, failed, cut>>

(* Few steps are of a request; the others leave the server where it is, or *)
(* take it back to before the first write.                                 *)
LEMMA RequestCases ==
    ASSUME [LifeNext]_lifeVars
    PROVE  \/ Configure \/ (\E p \in Params : Write(p)) \/ Answer
           \/ UNCHANGED Kept /\ UNCHANGED server
           \/ UNCHANGED Kept /\ server' \in {"idle", "open", "accept", "recv"}
           \/ UNCHANGED Kept /\ server = "paired" /\ server' = "done"
<1> USE DEF Kept, config, pair, network, lock, shutdown, bounds, history
<1>1. CASE \/ Load \/ Connect \/ ConnectFails \/ StartHeartbeat
           \/ ReadState \/ SendState \/ EndSending
           \/ EndPairing \/ Timeout \/ Enter \/ PowerOn \/ UNCHANGED lifeVars
  BY <1>1 DEF Load, Connect, ConnectFails, StartHeartbeat, ReadState, SendState,
              EndSending, EndPairing, Timeout, Enter, PowerOn, lifeVars
<1>2. CASE EnterPairing \/ OpenServer \/ Accept \/ Reject \/ SetPaired
  BY <1>2 DEF EnterPairing, OpenServer, Accept, Reject, SetPaired, Serve, InPairing
<1>3. ASSUME NEW t \in Tasks,
             Unlock(t) \/ Relock(t) \/ Speak(t) \/ Say(t) \/ ShutDown(t) \/ Pair(t)
      PROVE  UNCHANGED Kept /\ UNCHANGED server
  BY <1>3 DEF Unlock, Relock, LockDoor, Speak, Say, ShutDown, Pair
<1>4. ASSUME NEW t \in Tasks,
             \/ Announce(t) \/ LockUp(t) \/ DeleteHeartbeat(t) \/ Test(t)
             \/ Destroy(t) \/ Clear(t)
      PROVE  UNCHANGED Kept /\ UNCHANGED server
  BY <1>4 DEF Announce, LockUp, LockDoor, DeleteHeartbeat, Test, Destroy, Clear
<1>5. ASSUME NEW t \in Tasks, Stop(t)
      PROVE  UNCHANGED Kept /\ (UNCHANGED server \/ server' = "idle")
  BY <1>5 DEF Stop, Fresh
<1>6. CASE Crash \/ LosePower
  BY <1>6 DEF Crash, LosePower, Fresh
<1>7. QED
  BY <1>1, <1>2, <1>3, <1>4, <1>5, <1>6, LifeCases

(* Every step keeps what a pairing has stored and answered: a write is of   *)
(* the last request, and the answer comes when all three are stored.        *)
LEMMA PairingStep ==
    ASSUME LifeCounts, PairingInv, [LifeNext]_lifeVars
    PROVE  PairingInv'
<1> USE DEF PairingInv, WritesARequest, AnswerIsPast, RequestIsStored,
            AnsweredIsStored, Params, history
<1>0. requests \in Nat /\ answered \in Nat
  BY BoundsAssumption DEF LifeCounts
<1>1. CASE Configure
  <2>1. /\ requests' = requests + 1 /\ server' = "wifi_ssid"
        /\ UNCHANGED <<answered, stored, failed>> /\ cut \subseteq cut'
    BY <1>1 DEF Configure, Receive, Serve
  <2>2. QED
    BY <1>0, <2>1
<1>2. ASSUME NEW p \in Params, Write(p)
      PROVE  PairingInv'
  <2>1. /\ server = p /\ server' = After[p] /\ requests > 0
        /\ requests' = requests /\ answered' = answered /\ cut' = cut
    BY <1>2 DEF Write, Serve, InPairing
  <2>2. stored' \in {stored, [stored EXCEPT ![p] = requests]} /\ failed \subseteq failed'
    BY <1>2 DEF Write
  <2>3. requests' \notin failed' => stored' = [stored EXCEPT ![p] = requests]
    BY <1>2, <2>1 DEF Write
  <2>4. \A q \in Params : stored'[q] >= stored[q] \/ stored'[q] = requests
    BY <2>2 DEF LifeCounts
  <2>5. WritesARequest' /\ AnswerIsPast'
    BY <2>1
  <2>6. RequestIsStored'
    BY <2>1, <2>2, <2>3 DEF After, LifeCounts
  <2>7. AnsweredIsStored'
    BY <2>1, <2>2, <2>4 DEF LifeCounts
  <2>8. QED
    BY <2>5, <2>6, <2>7
<1>3. CASE Answer
  <2>1. /\ server = "answer" /\ server' = "paired" /\ answered' = requests
        /\ UNCHANGED <<requests, stored, failed, cut>>
    BY <1>3 DEF Answer, Serve, InPairing
  <2>2. requests \notin failed => \A p \in Params : stored[p] = requests
    BY <2>1
  <2>3. QED
    BY <1>0, <2>1, <2>2
<1>4. CASE UNCHANGED Kept /\ UNCHANGED server
  BY <1>4 DEF Kept
<1>5. CASE UNCHANGED Kept /\ server' \in {"idle", "open", "accept", "recv"}
  BY <1>5 DEF Kept
<1>6. CASE UNCHANGED Kept /\ server = "paired" /\ server' = "done"
  BY <1>6 DEF Kept
<1>7. QED
  BY <1>1, <1>2, <1>3, <1>4, <1>5, <1>6, RequestCases

-----------------------------------------------------------------------------
(* What the device has said of the door. *)

ReportInv == ReportIsTrue /\ OpenWhileHeld /\ LockedBehind

Said == <<door, reported, heard, outdated, reopened>>

(* A task goes on, and neither to nor from a publication of the door, nor   *)
(* past the locking of a shutdown.                                          *)
GoesOn ==
    \E t \in Tasks, s \in Steps \ {"unlock", "report", "locked"} :
        /\ Goto(t, s) /\ step[t] \notin {"report", "locked"}
        /\ s \in Behind => step[t] \in Behind

(* The steps that move the door, or say something of it. *)
LEMMA ReportCases ==
    ASSUME LifeStates, [LifeNext]_lifeVars
    PROVE  \/ SendState
           \/ \E t \in Tasks : Unlock(t) \/ Relock(t) \/ LockUp(t) \/ Say(t)
           \/ UNCHANGED Said /\ (UNCHANGED step \/ GoesOn)
           \/ ~heard' /\ step' = [t \in Tasks |-> "idle"]
<1> USE DEF Said, config, pair, network, lock, shutdown, bounds, said, history
<1>1. CASE \/ Load \/ EnterPairing \/ Connect \/ StartHeartbeat \/ ReadState
           \/ EndSending \/ OpenServer \/ Accept \/ Reject \/ Configure \/ Answer
           \/ SetPaired \/ PowerOn \/ UNCHANGED lifeVars
  BY <1>1 DEF Load, EnterPairing, Connect, StartHeartbeat, ReadState, EndSending,
              OpenServer, Accept, Reject, Configure, Receive, Answer, SetPaired, PowerOn, Serve,
              lifeVars
<1>2. ASSUME NEW p \in Params, Write(p)
      PROVE  UNCHANGED Said /\ UNCHANGED step
  BY <1>2 DEF Write, Serve
<1>3. ASSUME NEW t \in Tasks, NEW g \in {"restart", "halt"}, Free(t), Begin(t, g)
      PROVE  GoesOn
  BY <1>3 DEF Free, Begin, Steps, Behind, GoesOn
<1>4. CASE ConnectFails \/ EndPairing \/ Timeout
  <2>1. UNCHANGED Said
    BY <1>4 DEF ConnectFails, EndPairing, Timeout
  <2>2. \E t \in Tasks : Free(t) /\ Begin(t, "restart")
    BY <1>4 DEF ConnectFails, EndPairing, Timeout, Tasks
  <2>3. QED
    BY <1>3, <2>1, <2>2
<1>5. ASSUME NEW t \in Tasks, ShutDown(t) \/ Pair(t)
      PROVE  UNCHANGED Said /\ GoesOn
  <2>1. UNCHANGED Said
    BY <1>5 DEF ShutDown, Pair
  <2>2. \E g \in {"restart", "halt"} : Free(t) /\ Begin(t, g)
    BY <1>5 DEF ShutDown, Pair, Commanded
  <2>3. QED
    BY <1>3, <2>1, <2>2
<1>6. ASSUME NEW t \in Tasks,
             Announce(t) \/ DeleteHeartbeat(t) \/ Test(t) \/ Destroy(t) \/ Clear(t)
      PROVE  UNCHANGED Said /\ GoesOn
  <2>1. UNCHANGED Said
    BY <1>6 DEF Announce, DeleteHeartbeat, Test, Destroy, Clear
  <2>2. \/ step[t] = "announce" /\ Goto(t, "lock")
        \/ step[t] \in Behind /\ \E s \in Behind : Goto(t, s)
    BY <1>6 DEF Announce, DeleteHeartbeat, Test, Destroy, Clear, At, Behind
  <2>3. QED
    BY <2>1, <2>2 DEF GoesOn, Steps, Behind
<1>7. CASE Enter
  BY <1>7 DEF Enter, Commanded, Free, GoesOn, Tasks, Steps, Calls, Behind
<1>8. ASSUME NEW t \in Tasks, Speak(t)
      PROVE  UNCHANGED Said /\ GoesOn
  BY <1>8 DEF Speak, Commanded, Free, GoesOn, Steps, Calls, Behind
<1>9. ASSUME NEW t \in Tasks, Stop(t)
      PROVE  \/ UNCHANGED Said /\ UNCHANGED step
             \/ ~heard' /\ step' = [u \in Tasks |-> "idle"]
  BY <1>9 DEF Stop, Fresh
<1>10. CASE Crash \/ LosePower
  BY <1>10 DEF Crash, LosePower, Fresh
<1>11. QED
  BY <1>1, <1>2, <1>4, <1>5, <1>6, <1>7, <1>8, <1>9, <1>10, LifeCases

(* Every step keeps what the device has said of the door: who locks it owes *)
(* the report until it is published, or has found no client.                *)
LEMMA ReportStep ==
    ASSUME LifeTypeOK, ReportInv, [LifeNext]_lifeVars
    PROVE  ReportInv'
<1>0. LifeStates /\ heard \in BOOLEAN
  BY DEF LifeTypeOK, LifeStates
<1> USE <1>0 DEF ReportInv, ReportIsTrue, OpenWhileHeld, LockedBehind, Owed, Behind,
            LifeStates, Doors
<1>1. CASE SendState
  <2>1. UNCHANGED <<door, step, reopened>>
    BY <1>1 DEF SendState, shutdown
  <2>2. door = "LOCKED" => reported' = "LOCKED" \/ outdated' \/ ~heard'
    BY <1>1 DEF SendState, Publish
  <2>3. QED
    BY <2>1, <2>2
<1>2. ASSUME NEW t \in Tasks, Unlock(t)
      PROVE  ReportInv'
  <2>1. /\ door' = "UNLOCKED"
        /\ reopened' = (reopened \/ \E u \in Tasks : step[u] \in Behind \cup {"locked"})
        /\ \E s \in {"unlock", "held", "idle"} : Goto(t, s)
    BY <1>2 DEF Unlock
  <2>2. QED
    BY <2>1 DEF Goto
<1>3. ASSUME NEW t \in Tasks, NEW r \in {"report", "locked"}, NEW d \in {"idle", "cleanup"},
             LockDoor(t, r, d), step[t] \notin {"report", "locked"}
      PROVE  ReportInv'
  <2>1. /\ MutexFree /\ door' = "LOCKED" /\ UNCHANGED <<heard, reported, outdated, reopened>>
        /\ Goto(t, IF door = "UNLOCKED" THEN r ELSE d)
    BY <1>3 DEF LockDoor, history, said
  <2>2. OpenWhileHeld' /\ LockedBehind'
    BY <2>1 DEF MutexFree, Goto
  <2>3. ReportIsTrue'
    <3>1. CASE door = "UNLOCKED"
      <4>1. step'[t] = r
        BY <2>1, <3>1 DEF Goto
      <4>2. QED
        BY <4>1
    <3>2. CASE door = "LOCKED"
      BY <1>3, <2>1, <3>2 DEF Goto
    <3>3. QED
      BY <3>1, <3>2
  <2>4. QED
    BY <2>2, <2>3
<1>4. ASSUME NEW t \in Tasks, Say(t)
      PROVE  ReportInv'
  <2>1. UNCHANGED <<door, reopened>>
    BY <1>4 DEF Say
  <2>2. CASE step[t] = "unlock"
    BY <1>4, <2>1, <2>2 DEF Say, Goto
  <2>3. CASE step[t] \in {"report", "locked"}
    <3>1. reported' = "LOCKED" \/ outdated' \/ ~heard'
      BY <1>4, <2>3 DEF Say, Publish
    <3>2. \E n \in {"idle", "cleanup"} :
              Goto(t, n) /\ (n = "cleanup" => step[t] = "locked")
      BY <1>4, <2>3 DEF Say
    <3>3. OpenWhileHeld' /\ LockedBehind'
      BY <2>1, <3>2 DEF Goto
    <3>4. QED
      BY <3>1, <3>3
  <2>4. CASE step[t] = "tell"
    BY <1>4, <2>1, <2>4 DEF Say, Goto, said
  <2>5. QED
    BY <1>4, <2>2, <2>3, <2>4 DEF Say
<1>5. CASE UNCHANGED Said /\ UNCHANGED step
  BY <1>5 DEF Said
<1>6. CASE UNCHANGED Said /\ GoesOn
  <2>1. PICK t \in Tasks, s \in Steps \ {"unlock", "report", "locked"} :
            /\ Goto(t, s) /\ step[t] \notin {"report", "locked"}
            /\ s \in Behind => step[t] \in Behind
    BY <1>6 DEF GoesOn
  <2>2. \A u \in Tasks : step'[u] = IF u = t THEN s ELSE step[u]
    BY <2>1 DEF Goto
  <2>3. QED
    BY <1>6, <2>1, <2>2 DEF Said
<1>7. CASE ~heard' /\ step' = [t \in Tasks |-> "idle"]
  BY <1>7
<1>8. QED
  BY <1>1, <1>2, <1>3, <1>4, <1>5, <1>6, <1>7, ReportCases DEF Relock, LockUp, At

-----------------------------------------------------------------------------
(* The shutdowns. *)

ShutdownInv ==
    OneShutdown /\ HeartbeatIsOver /\ FreedIsCleared /\ CommandIsOver /\ NothingBefore

Ended == <<step, met, heartbeat, client>>

(* The device is new, but for NVS. *)
Renewed ==
    /\ step' = [t \in Tasks |-> "idle"]
    /\ met' = FALSE /\ heartbeat' = "none" /\ client' = "none"

(* A task that is not in a shutdown goes on and does not begin one, the MQTT *)
(* task with a command that it has received from a client.                   *)
Works ==
    \E t \in Tasks, s \in Calls \cup {"idle"} :
        /\ Running /\ ~ShuttingDown(t) /\ Goto(t, s)
        /\ t = "mqtt" => client = "up" \/ step[t] # "idle"
        /\ UNCHANGED <<boot, met, heartbeat, client>>

(* The steps that a shutdown, the heartbeat or the client sees. *)
LEMMA ShutdownCases ==
    ASSUME LifeStates, [LifeNext]_lifeVars
    PROVE  \/ Connect \/ StartHeartbeat \/ Works
           \/ /\ heartbeat \notin {"none", "killed"}
              /\ UNCHANGED <<boot, step, met, client>>
           \/ \E t \in Tasks, g \in {"restart", "halt"} :
                  /\ Free(t) /\ Begin(t, g) /\ UNCHANGED <<boot, heartbeat, client>>
                  /\ t = "mqtt" => client = "up"
           \/ \E t \in Tasks :
                  \/ Announce(t) \/ LockUp(t) \/ (Say(t) /\ step[t] = "locked")
                  \/ DeleteHeartbeat(t) \/ Test(t) \/ Destroy(t) \/ Clear(t)
           \/ UNCHANGED Ended /\ (boot' \in {"boot", "off"} => boot \in {"boot", "off"})
           \/ Renewed
<1> USE DEF Ended, Renewed, config, pair, network, lock, shutdown, bounds, said, history
<1>1. CASE \/ Load \/ EnterPairing \/ OpenServer \/ Accept
           \/ Reject \/ Configure \/ Answer \/ SetPaired \/ PowerOn \/ UNCHANGED lifeVars
  BY <1>1 DEF Load, EnterPairing, OpenServer, Accept, Reject, Configure, Receive,
              Answer, SetPaired, PowerOn, Serve, lifeVars
<1>2. ASSUME NEW p \in Params, Write(p)
      PROVE  UNCHANGED Ended /\ UNCHANGED boot
  BY <1>2 DEF Write, Serve
<1>3. CASE ConnectFails \/ EndPairing \/ Timeout
  BY <1>3 DEF ConnectFails, EndPairing, Timeout, Tasks
<1>4. ASSUME NEW t \in Tasks, ShutDown(t) \/ Pair(t)
      PROVE  \E g \in {"restart", "halt"} :
                 /\ Free(t) /\ Begin(t, g) /\ UNCHANGED <<boot, heartbeat, client>>
                 /\ t = "mqtt" => client = "up"
  BY <1>4 DEF ShutDown, Pair, Commanded
<1>5. CASE ReadState \/ SendState \/ EndSending
  BY <1>5 DEF ReadState, SendState, EndSending, Doors
<1>6. CASE Enter
  BY <1>6 DEF Enter, Commanded, Free, Works, Tasks, Calls, ShuttingDown, Behind
<1>7. ASSUME NEW t \in Tasks, Speak(t)
      PROVE  Works
  BY <1>7 DEF Speak, Commanded, Free, Works, Calls, ShuttingDown, Behind
<1>8. ASSUME NEW t \in Tasks, Unlock(t)
      PROVE  Works
  <2>1. Running /\ step[t] \in {"idle", "enter"} /\ (t = "mqtt" => step[t] = "enter")
    BY <1>8 DEF Unlock, Commanded, Free
  <2>2. \E s \in {"unlock", "held", "idle"} : Goto(t, s)
    BY <1>8 DEF Unlock
  <2>3. UNCHANGED <<boot, met, heartbeat, client>>
    BY <1>8 DEF Unlock
  <2>4. QED
    BY <2>1, <2>2, <2>3 DEF Works, Calls, ShuttingDown, Behind
<1>9. ASSUME NEW t \in Tasks, Relock(t)
      PROVE  Works
  <2>1. Running /\ step[t] \in {"idle", "enter", "held"} /\ (t = "mqtt" => step[t] = "enter")
    BY <1>9 DEF Relock
  <2>2. \E s \in {"report", "idle"} : Goto(t, s)
    BY <1>9 DEF Relock, LockDoor
  <2>3. UNCHANGED <<boot, met, heartbeat, client>>
    BY <1>9 DEF Relock, LockDoor
  <2>4. QED
    BY <2>1, <2>2, <2>3 DEF Works, Calls, ShuttingDown, Behind
<1>10. ASSUME NEW t \in Tasks, Say(t), step[t] # "locked"
       PROVE  Works
  <2>1. Running /\ step[t] \in {"unlock", "report", "tell"}
    BY <1>10 DEF Say
  <2>2. \E s \in {"held", "idle"} : Goto(t, s)
    BY <1>10 DEF Say
  <2>3. UNCHANGED <<boot, met, heartbeat, client>>
    BY <1>10 DEF Say
  <2>4. QED
    BY <2>1, <2>2, <2>3 DEF Works, Calls, ShuttingDown, Behind
<1>11. ASSUME NEW t \in Tasks, Stop(t)
      PROVE  (UNCHANGED Ended /\ boot' = "asleep") \/ Renewed
  BY <1>11 DEF Stop, Fresh
<1>12. CASE Crash \/ LosePower
  BY <1>12 DEF Crash, LosePower, Fresh
<1>13. QED
  BY <1>1, <1>2, <1>3, <1>4, <1>5, <1>6, <1>7, <1>8, <1>9, <1>10, <1>11, <1>12, LifeCases

(* Every step keeps the order of a shutdown. *)
LEMMA ShutdownInvStep ==
    ASSUME LifeStates, ShutdownInv, [LifeNext]_lifeVars
    PROVE  ShutdownInv'
<1> USE DEF ShutdownInv, OneShutdown, HeartbeatIsOver, FreedIsCleared, CommandIsOver,
            NothingBefore, ShuttingDown, Behind, LifeStates, network, lock, shutdown,
            said, history
<1>1. CASE Connect
  BY <1>1 DEF Connect
<1>2. CASE StartHeartbeat
  BY <1>2 DEF StartHeartbeat
<1>3. ASSUME NEW t \in Tasks, NEW g \in {"restart", "halt"}, Free(t), Begin(t, g),
             UNCHANGED <<boot, heartbeat, client>>, t = "mqtt" => client = "up"
      PROVE  ShutdownInv'
  <2>1. \A u \in Tasks : step'[u] = IF u = t THEN "announce" ELSE step[u]
    BY <1>3 DEF Begin, Goto
  <2>2. step[t] = "idle" /\ boot' \notin {"boot", "off"}
    BY <1>3 DEF Free, Running
  <2>3. OneShutdown'
    BY <1>3, <2>1, <2>2 DEF Begin
  <2>4. ~met' => ~met
    BY <1>3 DEF Begin
  <2>5. HeartbeatIsOver' /\ NothingBefore'
    BY <1>3, <2>1, <2>2, <2>4
  <2>6. FreedIsCleared'
    BY <1>3, <2>1, <2>2, <2>4
  <2>7. CommandIsOver'
    BY <1>3, <2>1, <2>2 DEF Tasks
  <2>8. QED
    BY <2>3, <2>5, <2>6, <2>7
<1>4. CASE Works
  <2>1. PICK t \in Tasks, s \in Calls \cup {"idle"} :
            /\ Running /\ ~ShuttingDown(t) /\ Goto(t, s)
            /\ t = "mqtt" => client = "up" \/ step[t] # "idle"
            /\ UNCHANGED <<boot, met, heartbeat, client>>
    BY <1>4 DEF Works
  <2>2. QED
    BY <2>1 DEF Running, Goto, Calls
<1>5. ASSUME NEW t \in Tasks, Announce(t) \/ LockUp(t) \/ (Say(t) /\ step[t] = "locked")
      PROVE  ShutdownInv'
  <2>1. /\ Running /\ UNCHANGED <<boot, met, heartbeat, client>>
        /\ step[t] \in {"announce", "lock", "locked"}
        /\ \E s \in {"lock", "locked", "cleanup"} : Goto(t, s)
    BY <1>5 DEF Announce, LockUp, Say, LockDoor, At
  <2>2. QED
    BY <2>1 DEF Running, Goto
<1>6. ASSUME NEW t \in Tasks, DeleteHeartbeat(t) \/ Test(t)
      PROVE  ShutdownInv'
  <2>1. /\ boot' = boot /\ boot \notin {"boot", "off"} /\ met' = met /\ client' = client
        /\ \/ /\ step[t] = "cleanup" /\ heartbeat' \in {"none", "killed"}
              /\ \A u \in Tasks : step'[u] = IF u = t THEN "test" ELSE step[u]
           \/ /\ step[t] = "test" /\ heartbeat' = heartbeat
              /\ \E n \in {"stop", "destroy"} :
                     \A u \in Tasks : step'[u] = IF u = t THEN n ELSE step[u]
    BY <1>6 DEF DeleteHeartbeat, Test, At, Running, Goto
  <2>2. OneShutdown' /\ NothingBefore'
    BY <2>1
  <2>3. HeartbeatIsOver'
    BY <2>1
  <2>4. FreedIsCleared'
    BY <2>1
  <2>5. CommandIsOver'
    BY <2>1 DEF Tasks
  <2>6. QED
    BY <2>2, <2>3, <2>4, <2>5
<1>7. ASSUME NEW t \in Tasks, Destroy(t) \/ Clear(t)
      PROVE  ShutdownInv'
  <2>1. /\ boot' = boot /\ boot \notin {"boot", "off"} /\ met' = met
        /\ heartbeat' = heartbeat
    BY <1>7 DEF Destroy, Clear, At, Running
  <2>2. CASE Destroy(t)
    <3>1. /\ step[t] = "destroy"
          /\ \A u \in Tasks : step'[u] = IF u = t THEN "clear" ELSE step[u]
          /\ client' = IF client = "up" THEN "freed" ELSE client
      BY <2>2 DEF Destroy, At, Goto
    <3>2. CommandIsOver'
      BY <2>2, <3>1 DEF Destroy, CanPublish, ApiFree, Tasks
    <3>3. OneShutdown' /\ NothingBefore' /\ HeartbeatIsOver'
      BY <2>1, <3>1
    <3>4. FreedIsCleared'
      BY <3>1
    <3>5. QED
      BY <3>2, <3>3, <3>4
  <2>3. CASE Clear(t)
    <3>1. /\ step[t] = "clear" /\ client' = "none"
          /\ \A u \in Tasks : step'[u] = IF u = t THEN "stop" ELSE step[u]
      BY <2>3 DEF Clear, At, Goto
    <3>2. QED
      BY <2>1, <3>1
  <2>4. QED
    BY <1>7, <2>2, <2>3
<1>8. CASE UNCHANGED Ended /\ (boot' \in {"boot", "off"} => boot \in {"boot", "off"})
  BY <1>8 DEF Ended
<1>9. CASE Renewed
  BY <1>9 DEF Renewed
<1>10. CASE heartbeat \notin {"none", "killed"} /\ UNCHANGED <<boot, step, met, client>>
  BY <1>10
<1>11. QED
  BY <1>1, <1>2, <1>3, <1>4, <1>5, <1>6, <1>7, <1>8, <1>9, <1>10, ShutdownCases

-----------------------------------------------------------------------------
(* The device is delivered with nothing stored, nothing said and no task. *)
LEMMA LifeInvInit == LifeInit => LifeInv
<1> SUFFICES ASSUME LifeInit
             PROVE  LifeInv
  OBVIOUS
<1> USE DEF LifeInit
<1>1. LifeTypeOK
  <2>1. LifeFlags
    BY DEF LifeFlags
  <2>2. LifeCounts
    BY BoundsAssumption DEF LifeCounts
  <2>3. LifeStates
    BY DEF LifeStates, Tasks, Doors, Steps
  <2>4. QED
    BY <2>1, <2>2, <2>3 DEF LifeTypeOK, LifeFlags, LifeCounts, LifeStates
<1>2. PairingInv
  BY DEF PairingInv, WritesARequest, AnswerIsPast, RequestIsStored, AnsweredIsStored, Params
<1>3. ReportInv
  BY DEF ReportInv, ReportIsTrue, OpenWhileHeld, LockedBehind
<1>4. ShutdownInv
  BY DEF ShutdownInv, OneShutdown, HeartbeatIsOver, FreedIsCleared, CommandIsOver,
     NothingBefore, ShuttingDown, Behind
<1>5. QED
  BY <1>1, <1>2, <1>3, <1>4 DEF LifeInv, PairingInv, ReportInv, ShutdownInv

(* LifeInv is inductive. *)
LEMMA LifeInvStep == LifeInv /\ [LifeNext]_lifeVars => LifeInv'
<1> SUFFICES ASSUME LifeInv, [LifeNext]_lifeVars
             PROVE  LifeInv'
  OBVIOUS
<1>1. LifeTypeOK /\ WritesARequest /\ PairingInv /\ ReportInv /\ ShutdownInv
  BY DEF LifeInv, PairingInv, ReportInv, ShutdownInv
<1>2. LifeStates /\ LifeCounts
  BY <1>1 DEF LifeTypeOK, LifeStates, LifeCounts
<1>3. LifeTypeOK'
  BY <1>1, LifeFlagsStep, LifeCountsStep, LifeStatesStep
     DEF LifeTypeOK, LifeFlags, LifeCounts, LifeStates
<1>4. PairingInv' /\ ReportInv' /\ ShutdownInv'
  BY <1>1, <1>2, PairingStep, ReportStep, ShutdownInvStep
<1>5. QED
  BY <1>3, <1>4 DEF LifeInv, PairingInv, ReportInv, ShutdownInv

(* LifeInv is an invariant of the device, from one start to the next. *)
LEMMA LifeInvariance == LifeSpec => []LifeInv
<1>1. QED
  BY LifeInvInit, LifeInvStep, PTL DEF LifeSpec

(* Every variable keeps its type. *)
THEOREM LifeTypeCorrect == LifeSpec => []LifeTypeOK
<1>1. LifeInv => LifeTypeOK
  BY DEF LifeInv
<1>2. QED
  BY <1>1, LifeInvariance, PTL

(* Whatever interrupts a pairing, and however often: what was answered 200  *)
(* is stored whole, unless update_config failed or the request was cut.     *)
THEOREM AnsweredIsAlwaysStored == LifeSpec => []AnsweredIsStored
<1>1. LifeInv => AnsweredIsStored
  BY DEF LifeInv
<1>2. QED
  BY <1>1, LifeInvariance, PTL

(* However many tasks shut the device down at a time: behind the locking of *)
(* any of them the door is locked, unless somebody has unlocked it after    *)
(* that, and was said to be, unless another report is late or was lost.     *)
THEOREM StoppedIsAlwaysLocked == LifeSpec => []StoppedIsLocked
<1>1. LifeInv => StoppedIsLocked
  BY DEF LifeInv, StoppedIsLocked, ReportIsTrue, LockedBehind, Owed
<1>2. QED
  BY <1>1, LifeInvariance, PTL

(* A shutdown that met no other leaves only tasks in a call of lock.c or a  *)
(* command of the console to use what it destroyed.                         *)
LEMMA UnmetIsUnused == LifeInv => ClientIsUnused
<1> SUFFICES ASSUME LifeInv, ~met, Misused
             PROVE  Straggling
  BY DEF ClientIsUnused
<1>1. client = "freed"
  BY DEF Misused, Uses
<1>2. PICK t \in Tasks : step[t] = "clear"
  BY <1>1 DEF LifeInv, FreedIsCleared
<1>3. heartbeat \in {"none", "killed"}
  BY <1>2 DEF LifeInv, HeartbeatIsOver, Behind
<1>4. PICK u \in Tasks : Uses(u)
  BY <1>3 DEF Misused, Doors
<1>5. CASE step[u] \in {"announce", "locked", "destroy"}
  <2>1. ShuttingDown(t) /\ ShuttingDown(u) /\ t # u
    BY <1>2, <1>5 DEF ShuttingDown, Behind
  <2>2. QED
    BY <2>1 DEF LifeInv, OneShutdown
<1>6. CASE step[u] \in {"unlock", "report", "tell"}
  <2>1. u # "mqtt"
    BY <1>1, <1>6 DEF LifeInv, CommandIsOver
  <2>2. QED
    BY <1>6, <2>1 DEF Straggling
<1>7. QED
  BY <1>4, <1>5, <1>6 DEF Uses

(* The MQTT client is used after it was destroyed, in a shutdown that met   *)
(* no other, only by a task that was about to publish when it was.          *)
THEOREM ClientIsNeverMisused == LifeSpec => []ClientIsUnused
<1>1. QED
  BY UnmetIsUnused, LifeInvariance, PTL

(* No step of such a lockdown, nor of another task, ends in a restart.      *)
LEMMA LockdownStep ==
    ASSUME LifeInv, [LifeNext]_lifeVars, NEW t \in Tasks, goal[t] = "halt",
           ShuttingDown(t), boot # "asleep", ~met, ~Straggling
    PROVE  boot' # "boot"
<1>1. boot \notin {"boot", "off"}
  BY DEF LifeInv, NothingBefore, ShuttingDown, Behind
<1>2. \A u \in Tasks : ShuttingDown(u) => u = t
  BY DEF LifeInv, OneShutdown
<1>3. \A u \in Tasks : ~(Stop(u) /\ goal[u] = "restart")
  BY <1>2 DEF Stop, At, ShuttingDown, Behind
<1>4. ~DeletedTwice
  BY <1>2 DEF DeletedTwice, ShuttingDown, Behind
<1>5. ~Crash
  BY <1>4, UnmetIsUnused DEF Crash, ClientIsUnused
<1> USE <1>1 DEF config, pair, network, lock, shutdown, bounds, said, history
<1>6. CASE \/ Load \/ EnterPairing \/ Connect \/ ConnectFails \/ StartHeartbeat
           \/ ReadState \/ SendState \/ EndSending
           \/ OpenServer \/ Accept \/ Reject \/ Configure
           \/ (\E p \in Params : Write(p)) \/ Answer \/ SetPaired \/ EndPairing
           \/ Timeout \/ Enter \/ LosePower \/ PowerOn \/ UNCHANGED lifeVars
  BY <1>6 DEF Load, EnterPairing, Connect, ConnectFails, StartHeartbeat, ReadState,
     SendState, EndSending, OpenServer, Accept, Reject, Configure, Receive, Write,
     Answer, SetPaired, EndPairing, Serve, Timeout, Enter, LosePower, PowerOn, lifeVars
<1>7. ASSUME NEW u \in Tasks,
             \/ Unlock(u) \/ Relock(u) \/ Speak(u) \/ Say(u) \/ ShutDown(u) \/ Pair(u)
             \/ Announce(u) \/ LockUp(u) \/ DeleteHeartbeat(u) \/ Test(u) \/ Destroy(u)
             \/ Clear(u)
      PROVE  boot' # "boot"
  BY <1>7 DEF Unlock, Relock, Speak, Say, ShutDown, Pair, Announce, LockUp, LockDoor,
     DeleteHeartbeat, Test, Destroy, Clear
<1>8. ASSUME NEW u \in Tasks, Stop(u)
      PROVE  boot' # "boot"
  BY <1>3, <1>8 DEF Stop
<1>9. QED
  BY <1>5, <1>6, <1>7, <1>8, LifeCases

(* A lockdown that met no other shutdown and no call of another task is not *)
(* turned into a restart.                                                   *)
THEOREM LockdownIsAlwaysKept == LifeSpec => LockdownIsKept
<1> DEFINE Lasts ==
               (\E t \in Tasks : goal[t] = "halt" /\ ShuttingDown(t))
                   /\ boot # "asleep" /\ ~met /\ ~Straggling
                       => boot' # "boot"
<1>1. LifeInv /\ [LifeNext]_lifeVars => [Lasts]_lifeVars
  BY LockdownStep
<1>2. QED
  BY <1>1, LifeInvariance, PTL DEF LifeSpec, LockdownIsKept

=============================================================================
