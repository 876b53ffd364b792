--------------------------- MODULE LockDoorProofs ---------------------------
(***************************************************************************)
(* Proofs about LockDoor, for every set of tasks, every length of the      *)
(* daemon's queue and every number of calls.                               *)
(***************************************************************************)
EXTENDS LockDoor, TLAPS

-----------------------------------------------------------------------------
(* The inductive invariant. *)

UnlockLabels == {"open", "announce", "arm", "start", "give"}
Critical     == UnlockLabels \cup {"still", "release"}

(* The holder of the mutex is the one thread in a critical section. *)
MutexHeld == \A t \in Threads : pc[t] \in Critical <=> mutex = t

(* In a critical section the state is the one its thread found or wrote. *)
StateHeld ==
    \A t \in Threads :
        /\ pc[t] \in UnlockLabels => state = "UNLOCKED"
        /\ pc[t] \in {"still", "release"} => state = "LOCKED"

(* No thread has yet to reach a label of S in unlock_door. *)
Past(S) == \A t \in Threads : pc[t] \notin S

(* An intact unlock completes what it has got to, step by step. *)
IntactSteps ==
    intact /\ state = "UNLOCKED" =>
        /\ Past(TailLabels)
        /\ Past({"open"}) => actuator = 1
        /\ Past({"open", "announce"}) => reported \in {"UNLOCKED", "refused"}
        /\ Past({"open", "announce", "arm", "start"}) => Armed

IInv ==
    /\ TypeOK
    /\ MutexHeld
    /\ StateHeld
    /\ OpenIsExplained
    /\ LockedIsSettled
    /\ IntactSteps

-----------------------------------------------------------------------------
(* A posted command keeps the queue a queue of commands. *)
LEMMA PostType ==
    ASSUME TypeOK, NEW command \in {"start", "stop"}, Post(command)
    PROVE  commands' \in Seq({"start", "stop"}) /\ Len(commands') <= QueueLength
  BY BoundsAssumption DEF TypeOK, Post, Room

LEMMA TypeStep == TypeOK /\ [Next]_vars => TypeOK'
<1> SUFFICES ASSUME TypeOK, [Next]_vars PROVE TypeOK'
  OBVIOUS
<1> USE DEF TypeOK, Goto, Take, Labels
<1>1. ASSUME NEW t \in Threads, Command(t) PROVE TypeOK'
  BY <1>1 DEF Command
<1>2. ASSUME NEW t \in Threads, Recognised(t) PROVE TypeOK'
  BY <1>2 DEF Recognised
<1>3. ASSUME NEW t \in Threads, ToggleReads(t) PROVE TypeOK'
  BY <1>3 DEF ToggleReads
<1>4. ASSUME NEW t \in Threads, Touch(t) PROVE TypeOK'
  BY <1>4 DEF Touch
<1>5. ASSUME NEW t \in Threads, Untouch(t) PROVE TypeOK'
  BY <1>5 DEF Untouch
<1>6. ASSUME NEW t \in Threads, UnlockTakes(t) PROVE TypeOK'
  BY <1>6 DEF UnlockTakes
<1>7. ASSUME NEW t \in Threads, UnlockAgain(t) PROVE TypeOK'
  BY <1>7 DEF UnlockAgain
<1>8. ASSUME NEW t \in Threads, UnlockOpens(t) PROVE TypeOK'
  BY <1>8 DEF UnlockOpens
<1>9. ASSUME NEW t \in Threads, UnlockAnnounces(t) PROVE TypeOK'
  BY <1>9 DEF UnlockAnnounces, Publish
<1>10. ASSUME NEW t \in Threads, UnlockCreates(t) PROVE TypeOK'
  BY <1>10 DEF UnlockCreates
<1>11. ASSUME NEW t \in Threads, UnlockStops(t) PROVE TypeOK'
  BY PostType, <1>11 DEF UnlockStops
<1>12. ASSUME NEW t \in Threads, UnlockStarts(t) PROVE TypeOK'
  BY PostType, <1>12 DEF UnlockStarts
<1>13. ASSUME NEW t \in Threads, UnlockGives(t) PROVE TypeOK'
  BY <1>13 DEF UnlockGives, AfterUnlock
<1>14. ASSUME NEW t \in Threads, LockTakes(t) PROVE TypeOK'
  BY <1>14 DEF LockTakes
<1>15. ASSUME NEW t \in Threads, LockAgain(t) PROVE TypeOK'
  BY <1>15 DEF LockAgain
<1>16. ASSUME NEW t \in Threads, LockStands(t) PROVE TypeOK'
  BY PostType, <1>16 DEF LockStands, StopTimer
<1>17. ASSUME NEW t \in Threads, LockReleases(t) PROVE TypeOK'
  BY <1>17 DEF LockReleases
<1>18. ASSUME NEW t \in Threads, LockCloses(t) PROVE TypeOK'
  BY <1>18 DEF LockCloses
<1>19. ASSUME NEW t \in Threads, LockDisarms(t) PROVE TypeOK'
  BY PostType, <1>19 DEF LockDisarms, StopTimer
<1>20. ASSUME NEW t \in Threads, LockReports(t) PROVE TypeOK'
  BY <1>20 DEF LockReports, Publish
<1>21. CASE DaemonObeys
  <2>1. commands' \in Seq({"start", "stop"}) /\ Len(commands') = Len(commands) - 1
    BY <1>21 DEF DaemonObeys
  <2>2. Len(commands) \in Nat
    OBVIOUS
  <2>3. Len(commands') <= QueueLength
    BY <2>1, <2>2, BoundsAssumption
  <2> QED
    BY <1>21, <2>1, <2>3 DEF DaemonObeys
<1>22. CASE TimerExpires
  BY <1>22 DEF TimerExpires, Threads
<1>23. CASE UNCHANGED vars
  BY <1>23 DEF vars
<1> QED
  BY <1>1, <1>2, <1>3, <1>4, <1>5, <1>6, <1>7, <1>8, <1>9, <1>10, <1>11, <1>12, <1>13, <1>14, <1>15, <1>16, <1>17, <1>18, <1>19, <1>20, <1>21, <1>22, <1>23 DEF Next, Calls, Waits, Runs, Threads

(* Every variable keeps its type. *)
THEOREM TypeCorrect == Spec => []TypeOK
<1>1. Init => TypeOK
  BY BoundsAssumption DEF Init, TypeOK, Threads, Labels
<1> QED
  BY <1>1, TypeStep, PTL DEF Spec

-----------------------------------------------------------------------------
(* A start that finds room is the last command the daemon has to obey. *)
LEMMA StartArms ==
    ASSUME TypeOK, Room, Post("start")
    PROVE  Armed'
<1>1. commands' = Append(commands, "start")
  BY DEF Post
<1>2. Len(commands') = Len(commands) + 1 /\ commands'[Len(commands) + 1] = "start"
  BY <1>1 DEF TypeOK
<1>3. commands' # <<>>
  BY <1>1 DEF TypeOK
<1> QED
  BY <1>2, <1>3 DEF Armed

(* Obeying the oldest command leaves the last one, or carries it out. *)
LEMMA ObeyKeepsArmed ==
    ASSUME TypeOK, DaemonObeys, Armed
    PROVE  Armed'
<1>1. commands[Len(commands)] = "start"
  BY DEF DaemonObeys, Armed
<1>2. CASE Len(commands) = 1
  <2>1. commands' = <<>> /\ timer' = "running"
    BY <1>1, <1>2 DEF DaemonObeys, TypeOK
  <2> QED
    BY <2>1 DEF Armed
<1>3. CASE Len(commands) > 1
  <2>1. Len(commands') = Len(commands) - 1
    BY <1>3 DEF DaemonObeys, TypeOK
  <2>2. commands'[Len(commands')] = commands[Len(commands)]
    BY <1>3, <2>1 DEF DaemonObeys, TypeOK
  <2>3. commands' # <<>>
    BY <1>3, <2>1
  <2> QED
    BY <1>1, <2>2, <2>3 DEF Armed
<1>4. Len(commands) \in Nat /\ Len(commands) # 0
  BY DEF DaemonObeys, TypeOK
<1> QED
  BY <1>2, <1>3, <1>4

-----------------------------------------------------------------------------
(* The inductive step.  Every action preserves the type; the other         *)
(* conjuncts follow from the mutex, which names the one thread that is     *)
(* inside a critical section.                                              *)
LEMMA InvariantStep == IInv /\ [Next]_vars => IInv'
<1> SUFFICES ASSUME IInv, [Next]_vars PROVE IInv'
  OBVIOUS
<1>0. /\ TypeOK /\ MutexHeld /\ StateHeld
      /\ OpenIsExplained /\ LockedIsSettled /\ IntactSteps
      /\ TypeOK'
  BY TypeStep DEF IInv
<1> USE ThreadsAssumption DEF TypeOK, Goto, Take, Threads
<1>1. ASSUME NEW t \in Threads, Calls(t) PROVE IInv'
  <2>1. MutexHeld'
    BY <1>1, <1>0 DEF Calls, Command, Recognised, Touch, Untouch, MutexHeld, UnlockLabels, Critical
  <2>2. StateHeld'
    BY <1>1, <1>0 DEF Calls, Command, Recognised, Touch, Untouch, MutexHeld, StateHeld, UnlockLabels, Critical
  <2>3. OpenIsExplained'
    BY <1>1, <1>0 DEF Calls, Command, Recognised, Touch, Untouch, OpenIsExplained, StateHeld, UnlockLabels, Critical
  <2>4. LockedIsSettled'
    BY <1>1, <1>0 DEF Calls, Command, Recognised, Touch, Untouch, LockedIsSettled, OpenIsExplained, StateHeld, InTail, TailLabels, UnlockLabels, Critical
  <2>5. IntactSteps'
    BY <1>1, <1>0 DEF Calls, Command, Recognised, Touch, Untouch, IntactSteps, MutexHeld, StateHeld, Past, Armed, InTail, TailLabels, UnlockLabels, Critical
  <2> QED
    BY <1>0, <2>1, <2>2, <2>3, <2>4, <2>5 DEF IInv
<1>2. ASSUME NEW t \in Threads, ToggleReads(t) PROVE IInv'
  <2>1. MutexHeld'
    BY <1>2, <1>0 DEF ToggleReads, MutexHeld, UnlockLabels, Critical
  <2>2. StateHeld'
    BY <1>2, <1>0 DEF ToggleReads, MutexHeld, StateHeld, UnlockLabels, Critical
  <2>3. OpenIsExplained'
    BY <1>2, <1>0 DEF ToggleReads, OpenIsExplained, StateHeld, UnlockLabels, Critical
  <2>4. LockedIsSettled'
    BY <1>2, <1>0 DEF ToggleReads, LockedIsSettled, OpenIsExplained, StateHeld, InTail, TailLabels, UnlockLabels, Critical
  <2>5. IntactSteps'
    BY <1>2, <1>0 DEF ToggleReads, IntactSteps, MutexHeld, StateHeld, Past, Armed, InTail, TailLabels, UnlockLabels, Critical
  <2> QED
    BY <1>0, <2>1, <2>2, <2>3, <2>4, <2>5 DEF IInv
<1>3. ASSUME NEW t \in Threads, UnlockTakes(t) PROVE IInv'
  <2>1. MutexHeld'
    BY <1>3, <1>0 DEF UnlockTakes, MutexHeld, UnlockLabels, Critical
  <2>2. StateHeld'
    BY <1>3, <1>0 DEF UnlockTakes, MutexHeld, StateHeld, UnlockLabels, Critical
  <2>3. OpenIsExplained'
    BY <1>3, <1>0 DEF UnlockTakes, OpenIsExplained, StateHeld, UnlockLabels, Critical
  <2>4. LockedIsSettled'
    BY <1>3, <1>0 DEF UnlockTakes, LockedIsSettled, OpenIsExplained, StateHeld, InTail, TailLabels, UnlockLabels, Critical
  <2>5. IntactSteps'
    BY <1>3, <1>0 DEF UnlockTakes, IntactSteps, MutexHeld, StateHeld, Past, Armed, InTail, TailLabels, UnlockLabels, Critical
  <2> QED
    BY <1>0, <2>1, <2>2, <2>3, <2>4, <2>5 DEF IInv
<1>4. ASSUME NEW t \in Threads, UnlockAgain(t) PROVE IInv'
  <2>1. MutexHeld'
    BY <1>4, <1>0 DEF UnlockAgain, MutexHeld, UnlockLabels, Critical
  <2>2. StateHeld'
    BY <1>4, <1>0 DEF UnlockAgain, MutexHeld, StateHeld, UnlockLabels, Critical
  <2>3. OpenIsExplained'
    BY <1>4, <1>0 DEF UnlockAgain, OpenIsExplained, StateHeld, UnlockLabels, Critical
  <2>4. LockedIsSettled'
    BY <1>4, <1>0 DEF UnlockAgain, LockedIsSettled, OpenIsExplained, StateHeld, InTail, TailLabels, UnlockLabels, Critical
  <2>5. IntactSteps'
    BY <1>4, <1>0 DEF UnlockAgain, IntactSteps, MutexHeld, StateHeld, Past, Armed, InTail, TailLabels, UnlockLabels, Critical
  <2> QED
    BY <1>0, <2>1, <2>2, <2>3, <2>4, <2>5 DEF IInv
<1>5. ASSUME NEW t \in Threads, UnlockOpens(t) PROVE IInv'
  <2>1. MutexHeld'
    BY <1>5, <1>0 DEF UnlockOpens, MutexHeld, UnlockLabels, Critical
  <2>2. StateHeld'
    BY <1>5, <1>0 DEF UnlockOpens, MutexHeld, StateHeld, UnlockLabels, Critical
  <2>3. OpenIsExplained'
    BY <1>5, <1>0 DEF UnlockOpens, OpenIsExplained, StateHeld, UnlockLabels, Critical
  <2>4. LockedIsSettled'
    BY <1>5, <1>0 DEF UnlockOpens, LockedIsSettled, OpenIsExplained, StateHeld, InTail, TailLabels, UnlockLabels, Critical
  <2>5. IntactSteps'
    BY <1>5, <1>0 DEF UnlockOpens, IntactSteps, MutexHeld, StateHeld, Past, Armed, InTail, TailLabels, UnlockLabels, Critical
  <2> QED
    BY <1>0, <2>1, <2>2, <2>3, <2>4, <2>5 DEF IInv
<1>6. ASSUME NEW t \in Threads, UnlockAnnounces(t) PROVE IInv'
  <2>1. MutexHeld'
    BY <1>6, <1>0 DEF UnlockAnnounces, Publish, MutexHeld, UnlockLabels, Critical
  <2>2. StateHeld'
    BY <1>6, <1>0 DEF UnlockAnnounces, Publish, MutexHeld, StateHeld, UnlockLabels, Critical
  <2>3. OpenIsExplained'
    BY <1>6, <1>0 DEF UnlockAnnounces, Publish, OpenIsExplained, StateHeld, UnlockLabels, Critical
  <2>4. LockedIsSettled'
    BY <1>6, <1>0 DEF UnlockAnnounces, Publish, LockedIsSettled, OpenIsExplained, StateHeld, InTail, TailLabels, UnlockLabels, Critical
  <2>5. IntactSteps'
    BY <1>6, <1>0 DEF UnlockAnnounces, Publish, IntactSteps, MutexHeld, StateHeld, Past, Armed, InTail, TailLabels, UnlockLabels, Critical
  <2> QED
    BY <1>0, <2>1, <2>2, <2>3, <2>4, <2>5 DEF IInv
<1>7. ASSUME NEW t \in Threads, UnlockCreates(t) PROVE IInv'
  <2>1. MutexHeld'
    BY <1>7, <1>0 DEF UnlockCreates, MutexHeld, UnlockLabels, Critical
  <2>2. StateHeld'
    BY <1>7, <1>0 DEF UnlockCreates, MutexHeld, StateHeld, UnlockLabels, Critical
  <2>3. OpenIsExplained'
    BY <1>7, <1>0 DEF UnlockCreates, OpenIsExplained, StateHeld, UnlockLabels, Critical
  <2>4. LockedIsSettled'
    BY <1>7, <1>0 DEF UnlockCreates, LockedIsSettled, OpenIsExplained, StateHeld, InTail, TailLabels, UnlockLabels, Critical
  <2>5. IntactSteps'
    BY <1>7, <1>0 DEF UnlockCreates, IntactSteps, MutexHeld, StateHeld, Past, Armed, InTail, TailLabels, UnlockLabels, Critical
  <2> QED
    BY <1>0, <2>1, <2>2, <2>3, <2>4, <2>5 DEF IInv
<1>8. ASSUME NEW t \in Threads, UnlockStops(t) PROVE IInv'
  <2>1. MutexHeld'
    BY <1>8, <1>0 DEF UnlockStops, Post, MutexHeld, UnlockLabels, Critical
  <2>2. StateHeld'
    BY <1>8, <1>0 DEF UnlockStops, Post, MutexHeld, StateHeld, UnlockLabels, Critical
  <2>3. OpenIsExplained'
    BY <1>8, <1>0 DEF UnlockStops, Post, OpenIsExplained, StateHeld, UnlockLabels, Critical
  <2>4. LockedIsSettled'
    BY <1>8, <1>0 DEF UnlockStops, Post, LockedIsSettled, OpenIsExplained, StateHeld, InTail, TailLabels, UnlockLabels, Critical
  <2>5. IntactSteps'
    BY <1>8, <1>0 DEF UnlockStops, Post, IntactSteps, MutexHeld, StateHeld, Past, Armed, InTail, TailLabels, UnlockLabels, Critical
  <2> QED
    BY <1>0, <2>1, <2>2, <2>3, <2>4, <2>5 DEF IInv
<1>9. ASSUME NEW t \in Threads, UnlockStarts(t) PROVE IInv'
  <2>1. MutexHeld'
    BY <1>9, <1>0 DEF UnlockStarts, MutexHeld, UnlockLabels, Critical
  <2>2. StateHeld'
    BY <1>9, <1>0 DEF UnlockStarts, MutexHeld, StateHeld, UnlockLabels, Critical
  <2>3. OpenIsExplained'
    BY <1>9, <1>0 DEF UnlockStarts, OpenIsExplained, StateHeld, UnlockLabels, Critical
  <2>4. LockedIsSettled'
    BY <1>9, <1>0 DEF UnlockStarts, LockedIsSettled, OpenIsExplained, StateHeld, InTail, TailLabels, UnlockLabels, Critical
  <2>5. IntactSteps'
    <3>1. intact' => Armed'
      BY <1>9, <1>0, StartArms DEF UnlockStarts
    <3> QED
      BY <3>1, <1>9, <1>0 DEF UnlockStarts, IntactSteps, StateHeld, Past, TailLabels, UnlockLabels, Critical
  <2> QED
    BY <1>0, <2>1, <2>2, <2>3, <2>4, <2>5 DEF IInv
<1>10. ASSUME NEW t \in Threads, UnlockGives(t) PROVE IInv'
  <2>1. MutexHeld'
    BY <1>10, <1>0 DEF UnlockGives, AfterUnlock, MutexHeld, UnlockLabels, Critical
  <2>2. StateHeld'
    BY <1>10, <1>0 DEF UnlockGives, AfterUnlock, MutexHeld, StateHeld, UnlockLabels, Critical
  <2>3. OpenIsExplained'
    BY <1>10, <1>0 DEF UnlockGives, AfterUnlock, OpenIsExplained, StateHeld, UnlockLabels, Critical
  <2>4. LockedIsSettled'
    BY <1>10, <1>0 DEF UnlockGives, AfterUnlock, LockedIsSettled, OpenIsExplained, StateHeld, InTail, TailLabels, UnlockLabels, Critical
  <2>5. IntactSteps'
    BY <1>10, <1>0 DEF UnlockGives, AfterUnlock, IntactSteps, MutexHeld, StateHeld, Past, Armed, InTail, TailLabels, UnlockLabels, Critical
  <2> QED
    BY <1>0, <2>1, <2>2, <2>3, <2>4, <2>5 DEF IInv
<1>11. ASSUME NEW t \in Threads, LockTakes(t) PROVE IInv'
  <2>1. MutexHeld'
    BY <1>11, <1>0 DEF LockTakes, MutexHeld, UnlockLabels, Critical
  <2>2. StateHeld'
    BY <1>11, <1>0 DEF LockTakes, MutexHeld, StateHeld, UnlockLabels, Critical
  <2>3. OpenIsExplained'
    BY <1>11, <1>0 DEF LockTakes, OpenIsExplained, StateHeld, UnlockLabels, Critical
  <2>4. LockedIsSettled'
    BY <1>11, <1>0 DEF LockTakes, LockedIsSettled, OpenIsExplained, StateHeld, InTail, TailLabels, UnlockLabels, Critical
  <2>5. IntactSteps'
    BY <1>11, <1>0 DEF LockTakes, IntactSteps, MutexHeld, StateHeld, Past, Armed, InTail, TailLabels, UnlockLabels, Critical
  <2> QED
    BY <1>0, <2>1, <2>2, <2>3, <2>4, <2>5 DEF IInv
<1>12. ASSUME NEW t \in Threads, LockAgain(t) PROVE IInv'
  <2>1. MutexHeld'
    BY <1>12, <1>0 DEF LockAgain, MutexHeld, UnlockLabels, Critical
  <2>2. StateHeld'
    BY <1>12, <1>0 DEF LockAgain, MutexHeld, StateHeld, UnlockLabels, Critical
  <2>3. OpenIsExplained'
    BY <1>12, <1>0 DEF LockAgain, OpenIsExplained, StateHeld, UnlockLabels, Critical
  <2>4. LockedIsSettled'
    BY <1>12, <1>0 DEF LockAgain, LockedIsSettled, OpenIsExplained, StateHeld, InTail, TailLabels, UnlockLabels, Critical
  <2>5. IntactSteps'
    BY <1>12, <1>0 DEF LockAgain, IntactSteps, MutexHeld, StateHeld, Past, Armed, InTail, TailLabels, UnlockLabels, Critical
  <2> QED
    BY <1>0, <2>1, <2>2, <2>3, <2>4, <2>5 DEF IInv
<1>13. ASSUME NEW t \in Threads, LockStands(t) PROVE IInv'
  <2>1. MutexHeld'
    BY <1>13, <1>0 DEF LockStands, StopTimer, Post, MutexHeld, UnlockLabels, Critical
  <2>2. StateHeld'
    BY <1>13, <1>0 DEF LockStands, StopTimer, Post, MutexHeld, StateHeld, UnlockLabels, Critical
  <2>3. OpenIsExplained'
    BY <1>13, <1>0 DEF LockStands, StopTimer, Post, OpenIsExplained, StateHeld, UnlockLabels, Critical
  <2>4. LockedIsSettled'
    BY <1>13, <1>0 DEF LockStands, StopTimer, Post, LockedIsSettled, OpenIsExplained, StateHeld, InTail, TailLabels, UnlockLabels, Critical
  <2>5. IntactSteps'
    BY <1>13, <1>0 DEF LockStands, StopTimer, Post, IntactSteps, MutexHeld, StateHeld, Past, Armed, InTail, TailLabels, UnlockLabels, Critical
  <2> QED
    BY <1>0, <2>1, <2>2, <2>3, <2>4, <2>5 DEF IInv
<1>14. ASSUME NEW t \in Threads, LockReleases(t) PROVE IInv'
  <2>1. MutexHeld'
    BY <1>14, <1>0 DEF LockReleases, MutexHeld, UnlockLabels, Critical
  <2>2. StateHeld'
    BY <1>14, <1>0 DEF LockReleases, MutexHeld, StateHeld, UnlockLabels, Critical
  <2>3. OpenIsExplained'
    BY <1>14, <1>0 DEF LockReleases, OpenIsExplained, StateHeld, UnlockLabels, Critical
  <2>4. LockedIsSettled'
    BY <1>14, <1>0 DEF LockReleases, LockedIsSettled, OpenIsExplained, StateHeld, InTail, TailLabels, UnlockLabels, Critical
  <2>5. IntactSteps'
    BY <1>14, <1>0 DEF LockReleases, IntactSteps, MutexHeld, StateHeld, Past, Armed, InTail, TailLabels, UnlockLabels, Critical
  <2> QED
    BY <1>0, <2>1, <2>2, <2>3, <2>4, <2>5 DEF IInv
<1>15. ASSUME NEW t \in Threads, LockCloses(t) PROVE IInv'
  <2>1. MutexHeld'
    BY <1>15, <1>0 DEF LockCloses, MutexHeld, UnlockLabels, Critical
  <2>2. StateHeld'
    BY <1>15, <1>0 DEF LockCloses, MutexHeld, StateHeld, UnlockLabels, Critical
  <2>3. OpenIsExplained'
    BY <1>15, <1>0 DEF LockCloses, OpenIsExplained, StateHeld, UnlockLabels, Critical
  <2>4. LockedIsSettled'
    BY <1>15, <1>0 DEF LockCloses, LockedIsSettled, OpenIsExplained, StateHeld, InTail, TailLabels, UnlockLabels, Critical
  <2>5. IntactSteps'
    BY <1>15, <1>0 DEF LockCloses, IntactSteps, MutexHeld, StateHeld, Past, Armed, InTail, TailLabels, UnlockLabels, Critical
  <2> QED
    BY <1>0, <2>1, <2>2, <2>3, <2>4, <2>5 DEF IInv
<1>16. ASSUME NEW t \in Threads, LockDisarms(t) PROVE IInv'
  <2>1. MutexHeld'
    BY <1>16, <1>0 DEF LockDisarms, StopTimer, Post, MutexHeld, UnlockLabels, Critical
  <2>2. StateHeld'
    BY <1>16, <1>0 DEF LockDisarms, StopTimer, Post, MutexHeld, StateHeld, UnlockLabels, Critical
  <2>3. OpenIsExplained'
    BY <1>16, <1>0 DEF LockDisarms, StopTimer, Post, OpenIsExplained, StateHeld, UnlockLabels, Critical
  <2>4. LockedIsSettled'
    BY <1>16, <1>0 DEF LockDisarms, StopTimer, Post, LockedIsSettled, OpenIsExplained, StateHeld, InTail, TailLabels, UnlockLabels, Critical
  <2>5. IntactSteps'
    BY <1>16, <1>0 DEF LockDisarms, StopTimer, Post, IntactSteps, MutexHeld, StateHeld, Past, Armed, InTail, TailLabels, UnlockLabels, Critical
  <2> QED
    BY <1>0, <2>1, <2>2, <2>3, <2>4, <2>5 DEF IInv
<1>17. ASSUME NEW t \in Threads, LockReports(t) PROVE IInv'
  <2>1. MutexHeld'
    BY <1>17, <1>0 DEF LockReports, Publish, MutexHeld, UnlockLabels, Critical
  <2>2. StateHeld'
    BY <1>17, <1>0 DEF LockReports, Publish, MutexHeld, StateHeld, UnlockLabels, Critical
  <2>3. OpenIsExplained'
    BY <1>17, <1>0 DEF LockReports, Publish, OpenIsExplained, StateHeld, UnlockLabels, Critical
  <2>4. LockedIsSettled'
    BY <1>17, <1>0 DEF LockReports, Publish, LockedIsSettled, OpenIsExplained, StateHeld, InTail, TailLabels, UnlockLabels, Critical
  <2>5. IntactSteps'
    BY <1>17, <1>0 DEF LockReports, Publish, IntactSteps, MutexHeld, StateHeld, Past, Armed, InTail, TailLabels, UnlockLabels, Critical
  <2> QED
    BY <1>0, <2>1, <2>2, <2>3, <2>4, <2>5 DEF IInv
<1>18. ASSUME DaemonObeys PROVE IInv'
  <2>1. MutexHeld'
    BY <1>18, <1>0 DEF DaemonObeys, MutexHeld, UnlockLabels, Critical
  <2>2. StateHeld'
    BY <1>18, <1>0 DEF DaemonObeys, MutexHeld, StateHeld, UnlockLabels, Critical
  <2>3. OpenIsExplained'
    BY <1>18, <1>0 DEF DaemonObeys, OpenIsExplained, StateHeld, UnlockLabels, Critical
  <2>4. LockedIsSettled'
    BY <1>18, <1>0 DEF DaemonObeys, LockedIsSettled, OpenIsExplained, StateHeld, InTail, TailLabels, UnlockLabels, Critical
  <2>5. IntactSteps'
    <3>1. Armed => Armed'
      BY <1>18, <1>0, ObeyKeepsArmed
    <3> QED
      BY <3>1, <1>18, <1>0 DEF DaemonObeys, IntactSteps, Past
  <2> QED
    BY <1>0, <2>1, <2>2, <2>3, <2>4, <2>5 DEF IInv
<1>19. ASSUME TimerExpires PROVE IInv'
  <2>1. MutexHeld'
    BY <1>19, <1>0 DEF TimerExpires, MutexHeld, UnlockLabels, Critical
  <2>2. StateHeld'
    BY <1>19, <1>0 DEF TimerExpires, MutexHeld, StateHeld, UnlockLabels, Critical
  <2>3. OpenIsExplained'
    BY <1>19, <1>0 DEF TimerExpires, OpenIsExplained, StateHeld, UnlockLabels, Critical
  <2>4. LockedIsSettled'
    BY <1>19, <1>0 DEF TimerExpires, LockedIsSettled, OpenIsExplained, StateHeld, InTail, TailLabels, UnlockLabels, Critical
  <2>5. IntactSteps'
    BY <1>19, <1>0 DEF TimerExpires, IntactSteps, MutexHeld, StateHeld, Past, Armed, InTail, TailLabels, UnlockLabels, Critical
  <2> QED
    BY <1>0, <2>1, <2>2, <2>3, <2>4, <2>5 DEF IInv
<1>20. CASE UNCHANGED vars
  BY <1>20, <1>0 DEF vars, IInv, IntactSteps, MutexHeld, StateHeld, Past, Armed, InTail, TailLabels, UnlockLabels, Critical, OpenIsExplained, LockedIsSettled
<1> QED
  BY <1>1, <1>2, <1>3, <1>4, <1>5, <1>6, <1>7, <1>8, <1>9, <1>10, <1>11, <1>12, <1>13, <1>14, <1>15, <1>16, <1>17, <1>18, <1>19, <1>20 DEF Next, Waits, Runs

LEMMA InvariantInit == Init => IInv
  BY ThreadsAssumption, BoundsAssumption DEF Init, IInv, TypeOK, Labels, Threads, OpenIsExplained,
     LockedIsSettled, IntactSteps, MutexHeld, StateHeld, Past, Armed, InTail, TailLabels, UnlockLabels, Critical

LEMMA Invariance == Spec => []IInv
  BY InvariantInit, InvariantStep, PTL DEF Spec

-----------------------------------------------------------------------------
(* A door that stands locked, with no lock_door in its tail, is closed and *)
(* was not last reported open: whatever tasks there are and however their  *)
(* calls of lock.c interleave.                                             *)
THEOREM LockedSettles == Spec => []LockedIsSettled
  BY Invariance, PTL DEF IInv

(* The actuator is never open on a locked door without a lock_door that is *)
(* about to close it.                                                      *)
THEOREM OpenExplained == Spec => []OpenIsExplained
  BY Invariance, PTL DEF IInv

(* An unlock_door that met no lock_door in its tail leaves the door open,  *)
(* reported and with its auto-lock seen to.                                *)
THEOREM IntactUnlocks == Spec => []IntactUnlock
<1>1. IInv => IntactUnlock
  BY ThreadsAssumption DEF IInv, IntactUnlock, IntactSteps, Past, MutexHeld, UnlockLabels, Critical, Threads
<1> QED
  BY <1>1, Invariance, PTL

-----------------------------------------------------------------------------
(* lock.c implements Door: initial states map to initial states and every  *)
(* step maps to a step of Door or changes nothing Door can see.            *)
THEOREM ImplementsDoor == Spec => Abstract!Init /\ [][Abstract!Next]_(Abstract!vars)
<1>1. Init => Abstract!Init
  BY DEF Init, Abstract!Init, Closing
<1>2. IInv /\ [Next]_vars => [Abstract!Next]_(Abstract!vars)
  <2> SUFFICES ASSUME IInv, [Next]_vars PROVE [Abstract!Next]_(Abstract!vars)
    OBVIOUS
  <2>0. TypeOK /\ StateHeld
    BY DEF IInv
  <2> USE DEF TypeOK, Goto, Take, Closing
  <2>1. ASSUME NEW t \in Threads, Calls(t) PROVE UNCHANGED Abstract!vars
    BY <2>1, <2>0 DEF Calls, Command, Recognised, Touch, Untouch, Abstract!vars
  <2>2. ASSUME NEW t \in Threads, ToggleReads(t) PROVE UNCHANGED Abstract!vars
    BY <2>2, <2>0 DEF ToggleReads, Abstract!vars
  <2>3. ASSUME NEW t \in Threads, UnlockTakes(t) PROVE Abstract!Unlock
    BY <2>3, <2>0 DEF UnlockTakes, Abstract!Unlock
  <2>4. ASSUME NEW t \in Threads, UnlockAgain(t) PROVE UNCHANGED Abstract!vars
    BY <2>4, <2>0 DEF UnlockAgain, Abstract!vars
  <2>5. ASSUME NEW t \in Threads, UnlockOpens(t) PROVE Abstract!Open
    BY <2>5, <2>0 DEF UnlockOpens, Abstract!Open, StateHeld, UnlockLabels
  <2>6. ASSUME NEW t \in Threads, UnlockAnnounces(t) PROVE UNCHANGED Abstract!vars
    BY <2>6, <2>0 DEF UnlockAnnounces, Publish, Abstract!vars
  <2>7. ASSUME NEW t \in Threads, UnlockCreates(t) PROVE UNCHANGED Abstract!vars
    BY <2>7, <2>0 DEF UnlockCreates, Abstract!vars
  <2>8. ASSUME NEW t \in Threads, UnlockStops(t) PROVE UNCHANGED Abstract!vars
    BY <2>8, <2>0 DEF UnlockStops, Abstract!vars
  <2>9. ASSUME NEW t \in Threads, UnlockStarts(t) PROVE UNCHANGED Abstract!vars
    BY <2>9, <2>0 DEF UnlockStarts, Abstract!vars
  <2>10. ASSUME NEW t \in Threads, UnlockGives(t) PROVE UNCHANGED Abstract!vars
    BY <2>10, <2>0 DEF UnlockGives, AfterUnlock, Abstract!vars
  <2>11. ASSUME NEW t \in Threads, LockTakes(t) PROVE Abstract!Lock
    BY <2>11, <2>0 DEF LockTakes, Abstract!Lock
  <2>12. ASSUME NEW t \in Threads, LockAgain(t) PROVE UNCHANGED Abstract!vars
    BY <2>12, <2>0 DEF LockAgain, Abstract!vars
  <2>13. ASSUME NEW t \in Threads, LockStands(t) PROVE UNCHANGED Abstract!vars
    BY <2>13, <2>0 DEF LockStands, Abstract!vars
  <2>14. ASSUME NEW t \in Threads, LockReleases(t) PROVE UNCHANGED Abstract!vars
    BY <2>14, <2>0 DEF LockReleases, Abstract!vars
  <2>15. ASSUME NEW t \in Threads, LockCloses(t) PROVE Abstract!Close
    BY <2>15, <2>0 DEF LockCloses, Abstract!Close
  <2>16. ASSUME NEW t \in Threads, LockDisarms(t) PROVE UNCHANGED Abstract!vars
    BY <2>16, <2>0 DEF LockDisarms, Abstract!vars
  <2>17. ASSUME NEW t \in Threads, LockReports(t) PROVE UNCHANGED Abstract!vars
    BY <2>17, <2>0 DEF LockReports, Publish, Abstract!vars
  <2>18. ASSUME DaemonObeys PROVE UNCHANGED Abstract!vars
    BY <2>18, <2>0 DEF DaemonObeys, Abstract!vars
  <2>19. ASSUME TimerExpires PROVE UNCHANGED Abstract!vars
    BY <2>19, <2>0 DEF TimerExpires, Abstract!vars
  <2>20. CASE UNCHANGED vars
    BY <2>20 DEF vars, Abstract!vars
  <2> QED
    BY <2>1, <2>2, <2>3, <2>4, <2>5, <2>6, <2>7, <2>8, <2>9, <2>10, <2>11, <2>12, <2>13, <2>14, <2>15, <2>16, <2>17, <2>18, <2>19, <2>20 DEF Next, Waits, Runs, Threads, Abstract!Next
<1> QED
  BY <1>1, <1>2, Invariance, PTL DEF Spec

=============================================================================
