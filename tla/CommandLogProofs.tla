-------------------------- MODULE CommandLogProofs --------------------------
(***************************************************************************)
(* Proofs about CommandLog, for every number of commands, of other moves   *)
(* of the door and of events sent again.                                   *)
(***************************************************************************)
EXTENDS CommandLog, TLAPS

-----------------------------------------------------------------------------
(* The inductive invariant. *)

(* What is remembered is the last command. *)
RecentIsLast == recent # Nothing => recent.id = issued

(* Nothing under way, published or in the log is of a command to come. *)
CausesArePast ==
    /\ \A c \in sending \cup verdicts : c.id <= issued
    /\ \A i \in 1..Len(control) : control[i].id <= issued
    /\ \A cause \in published : cause <= issued
    /\ \A i \in 1..Len(status) : status[i] <= issued
    /\ \A i \in 1..Len(logs) : logs[i].cause <= issued /\ logs[i].user <= issued

(* What is remembered has not been used. *)
RecentIsUnused ==
    recent # Nothing => \A i \in 1..Len(logs) : logs[i].user < recent.id

(* The last command is remembered, forgotten or used. *)
LastIsAccounted ==
    \/ issued = 0
    \/ recent.fresh
    \/ \E n \in forgotten \cup unlogged : n >= issued
    \/ \E i \in 1..Len(logs) : logs[i].user >= issued

IInv ==
    /\ TypeOK
    /\ RecentIsLast
    /\ CausesArePast
    /\ RecentIsUnused
    /\ LastIsAccounted
    /\ UsersAdvance
    /\ NeverAnEarlierUser
    /\ AnonymousIsExplained

-----------------------------------------------------------------------------
(* The first member of a sequence is one of its members, and so are those  *)
(* of its tail.                                                            *)
LEMMA TailFacts ==
    ASSUME NEW S, NEW s \in Seq(S), s # <<>>
    PROVE  /\ Head(s) \in S /\ Head(s) = s[1] /\ 1 \in 1..Len(s)
           /\ Tail(s) \in Seq(S)
           /\ \A i \in 1..Len(Tail(s)) : i + 1 \in 1..Len(s) /\ Tail(s)[i] = s[i + 1]
  OBVIOUS

LEMMA MemberFacts ==
    ASSUME NEW S, NEW s \in Seq(S)
    PROVE  \A i \in 1..Len(s) : s[i] \in S
  OBVIOUS

LEMMA AppendFacts ==
    ASSUME NEW S, NEW s \in Seq(S), NEW e \in S
    PROVE  /\ Append(s, e) \in Seq(S)
           /\ Len(Append(s, e)) = Len(s) + 1
           /\ \A i \in 1..Len(s) : Append(s, e)[i] = s[i]
           /\ Append(s, e)[Len(s) + 1] = e
  OBVIOUS

-----------------------------------------------------------------------------
(* A row that a lock event adds. *)
NewRow == [cause |-> Head(status), user |-> IF recent.fresh THEN recent.id ELSE 0]

LEMMA NumbersAreNat == /\ Numbers \subseteq Nat /\ Causes \subseteq Nat
                       /\ Numbers \subseteq Causes /\ 0 \in Causes /\ 0 \notin Numbers
  BY BoundsAssumption DEF Numbers, Causes

LEMMA RecentType ==
    ASSUME TypeOK
    PROVE  /\ recent = Nothing => recent.id = 0 /\ recent.fresh = FALSE
           /\ recent # Nothing => recent.id \in Numbers /\ recent.fresh \in BOOLEAN
  BY DEF TypeOK, Nothing

LEMMA RowType ==
    ASSUME TypeOK, status # <<>>
    PROVE  NewRow \in [cause : Causes, user : Causes]
  BY TailFacts, RecentType, NumbersAreNat DEF TypeOK, NewRow

LEMMA MoveType ==
    ASSUME NEW target \in {"LOCKED", "UNLOCKED"}, NEW cause \in Causes, Move(target, cause),
           door \in {"LOCKED", "UNLOCKED"}, published \subseteq Causes, status \in Seq(Causes)
    PROVE  /\ door' \in {"LOCKED", "UNLOCKED"}
           /\ published' \subseteq Causes
           /\ status' \in Seq(Causes)
<1>1. CASE door = target
  BY <1>1 DEF Move
<1>2. CASE door # target
  BY <1>2, AppendFacts DEF Move
<1> QED
  BY <1>1, <1>2

LEMMA TypeStep == TypeOK /\ [Next]_vars => TypeOK'
<1> SUFFICES ASSUME TypeOK, [Next]_vars PROVE TypeOK'
  OBVIOUS
<1> USE NumbersAreNat, RecentType
<1>1. ASSUME NEW command \in {"LOCK", "UNLOCK", "VOICE"}, Remember(command) PROVE TypeOK'
  <2>1. issued' \in Numbers
    BY <1>1, BoundsAssumption DEF Remember, TypeOK, Numbers, Causes
  <2> QED
    BY <1>1, <2>1 DEF Remember, TypeOK, Commands, device, topics
<1>2. CASE Publish
  <2>1. PICK c \in sending :
          /\ sending' = sending \ {c}
          /\ IF c.command = "VOICE"
             THEN verdicts' = verdicts \cup {c} /\ UNCHANGED control
             ELSE control' = Append(control, c) /\ UNCHANGED verdicts
          /\ UNCHANGED <<issued, recent, logs, forgotten, unlogged, device, status>>
    BY <1>2 DEF Publish
  <2>2. c \in Commands
    BY DEF TypeOK
  <2>3. CASE c.command = "VOICE"
    BY <2>1, <2>2, <2>3 DEF TypeOK, device, Voices
  <2>4. CASE c.command # "VOICE"
    <3>1. c \in Messages /\ control \in Seq(Messages)
      BY <2>2, <2>4 DEF Messages, Voices, TypeOK
    <3>2. control' \in Seq(Messages)
      BY <2>1, <2>4, <3>1, AppendFacts
    <3> QED
      BY <2>1, <2>4, <3>2 DEF TypeOK, device
  <2> QED
    BY <2>3, <2>4
<1>3. CASE Elapse
  BY <1>3 DEF Elapse, TypeOK, device, topics, Nothing
<1>4. CASE Restart
  <2>1. forgotten' \in SUBSET Numbers /\ sending' \subseteq Commands /\ recent' = Nothing
    BY <1>4 DEF Restart, TypeOK
  <2> QED
    BY <1>4, <2>1 DEF Restart, TypeOK, device, topics
<1>5. CASE Handle
  <2>1. logs' = Append(logs, NewRow) \/ logs' = logs
    BY <1>5 DEF Handle, NewRow
  <2>2. logs' \in Seq([cause : Causes, user : Causes])
    <3>1. /\ logs \in Seq([cause : Causes, user : Causes])
          /\ NewRow \in [cause : Causes, user : Causes]
      BY <1>5, RowType DEF Handle, TypeOK
    <3>2. Append(logs, NewRow) \in Seq([cause : Causes, user : Causes])
      BY <3>1, AppendFacts
    <3> QED
      BY <2>1, <3>1, <3>2
  <2>3. status' \in Seq(Causes)
    BY <1>5, TailFacts DEF Handle, TypeOK
  <2>4. unlogged' \in SUBSET Numbers
    BY <1>5 DEF Handle, TypeOK
  <2> QED
    BY <1>5, <2>2, <2>3, <2>4 DEF Handle, TypeOK, device
<1>7. CASE Obey
  <2>1. /\ Head(control) \in Commands
        /\ control' \in Seq(Messages)
    BY <1>7, TailFacts DEF Obey, TypeOK, Messages
  <2> DEFINE target == IF Head(control).command = "LOCK" THEN "LOCKED" ELSE "UNLOCKED"
  <2>2. target \in {"LOCKED", "UNLOCKED"} /\ Head(control).id \in Causes
    BY <2>1 DEF Commands
  <2>3. Move(target, Head(control).id)
    BY <1>7 DEF Obey
  <2> HIDE DEF target
  <2> QED
    BY MoveType, <1>7, <2>1, <2>2, <2>3 DEF Obey, TypeOK, backend
<1>8. CASE Hear
  <2>1. PICK c \in verdicts : verdicts' = verdicts \ {c} /\ Move(Opposite(door), c.id)
    BY <1>8 DEF Hear
  <2>2. Opposite(door) \in {"LOCKED", "UNLOCKED"} /\ c.id \in Causes
    BY DEF TypeOK, Voices, Commands, Opposite
  <2> QED
    BY MoveType, <1>8, <2>1, <2>2 DEF Hear, TypeOK, backend
<1>9. CASE Other
  <2>1. Opposite(door) \in {"LOCKED", "UNLOCKED"}
    BY DEF Opposite
  <2>2. /\ door' \in {"LOCKED", "UNLOCKED"}
        /\ published' \subseteq Causes
        /\ status' \in Seq(Causes)
    BY MoveType, <1>9, <2>1 DEF Other, TypeOK
  <2>3. others' \in 0..MaxOthers
    BY <1>9, BoundsAssumption DEF Other, TypeOK
  <2> QED
    BY <1>9, <2>2, <2>3 DEF Other, TypeOK, backend
<1>10. CASE Resend
  <2>1. PICK cause \in published : status' = Append(status, cause)
    BY <1>10 DEF Resend
  <2>2. status' \in Seq(Causes)
    BY <2>1, AppendFacts DEF TypeOK
  <2>3. resends' \in 0..MaxResends
    BY <1>10, BoundsAssumption DEF Resend, TypeOK
  <2> QED
    BY <1>10, <2>2, <2>3 DEF Resend, TypeOK, backend
<1>11. CASE Lose
  <2>1. CASE control # <<>> /\ control' = Tail(control) /\ UNCHANGED <<verdicts, status>>
    <3>1. control' \in Seq(Messages)
      BY <2>1, TailFacts DEF TypeOK
    <3> QED
      BY <1>11, <2>1, <3>1 DEF Lose, TypeOK, backend, device
  <2>2. CASE status # <<>> /\ status' = Tail(status) /\ UNCHANGED <<control, verdicts>>
    <3>1. status' \in Seq(Causes)
      BY <2>2, TailFacts DEF TypeOK
    <3> QED
      BY <1>11, <2>2, <3>1 DEF Lose, TypeOK, backend, device
  <2>3. CASE /\ \E c \in verdicts : verdicts' = verdicts \ {c}
             /\ UNCHANGED <<control, status>>
    BY <1>11, <2>3 DEF Lose, TypeOK, backend, device
  <2> QED
    BY <1>11, <2>1, <2>2, <2>3 DEF Lose
<1>12. CASE UNCHANGED vars
  BY <1>12 DEF vars, backend, device, topics, TypeOK
<1> QED
  BY <1>1, <1>2, <1>3, <1>4, <1>5, <1>7, <1>8, <1>9, <1>10, <1>11, <1>12 DEF Next

(* Whatever the commands, topics and restarts, every variable keeps to its *)
(* values.                                                                 *)
THEOREM TypeCorrect == Spec => []TypeOK
<1>1. Init => TypeOK
  BY BoundsAssumption, NumbersAreNat DEF Init, TypeOK
<1> QED
  BY <1>1, TypeStep, PTL DEF Spec

-----------------------------------------------------------------------------
(* Steps that leave the log and what is remembered alone. *)
LEMMA LogUnchanged ==
    ASSUME UNCHANGED <<issued, recent, logs, forgotten, unlogged>>,
           RecentIsLast, RecentIsUnused, LastIsAccounted,
           UsersAdvance, NeverAnEarlierUser, AnonymousIsExplained
    PROVE  /\ RecentIsLast' /\ RecentIsUnused' /\ LastIsAccounted'
           /\ UsersAdvance' /\ NeverAnEarlierUser' /\ AnonymousIsExplained'
  BY DEF RecentIsLast, RecentIsUnused, LastIsAccounted,
         UsersAdvance, NeverAnEarlierUser, AnonymousIsExplained

(* What the device publishes is of a command it has received. *)
LEMMA MovePast ==
    ASSUME NEW target, NEW cause \in Causes, cause <= issued, Move(target, cause),
           TypeOK, CausesArePast
    PROVE  /\ \A n \in published' : n <= issued
           /\ \A i \in 1..Len(status') : status'[i] <= issued
<1> USE DEF CausesArePast
<1>1. CASE door = target
  BY <1>1 DEF Move
<1>2. CASE door # target
  <2>1. /\ Len(status') = Len(status) + 1
        /\ \A i \in 1..Len(status) : status'[i] = status[i]
        /\ status'[Len(status) + 1] = cause
    BY <1>2, AppendFacts DEF Move, TypeOK
  <2>2. Len(status) \in Nat
    BY DEF TypeOK
  <2> QED
    BY <1>2, <2>1, <2>2 DEF Move
<1> QED
  BY <1>1, <1>2

LEMMA ZeroPast == TypeOK => 0 <= issued /\ issued \in Nat
  BY NumbersAreNat, BoundsAssumption DEF TypeOK, Causes

(* The steps of the device and of the topics. *)
LEMMA PastKept ==
    ASSUME TypeOK, CausesArePast, Obey \/ Hear \/ Other \/ Resend \/ Lose
    PROVE  CausesArePast'
<1>1. UNCHANGED <<issued, sending, logs>>
  BY DEF Obey, Hear, Other, Resend, Lose, backend
<1>2. \A i \in 1..Len(control) : control[i] \in Messages
  BY DEF TypeOK
<1>3. \A i \in 1..Len(status) : status[i] \in Causes
  BY DEF TypeOK
<1>4. CASE Obey
  <2>0. /\ Head(control) = control[1] /\ 1 \in 1..Len(control)
        /\ Head(control) \in Messages
    BY <1>4, TailFacts DEF Obey, TypeOK
  <2>1. Head(control).id \in Causes /\ Head(control).id <= issued
    BY <2>0, NumbersAreNat DEF CausesArePast, Messages, Commands
  <2>2. \E target : Move(target, Head(control).id)
    BY <1>4 DEF Obey
  <2>3. \A i \in 1..Len(control') : control'[i].id <= issued
    BY <1>4, TailFacts DEF Obey, TypeOK, CausesArePast
  <2> QED
    BY <1>1, <1>4, <2>1, <2>2, <2>3, MovePast DEF Obey, CausesArePast
<1>5. CASE Hear
  <2>1. PICK c \in verdicts : verdicts' = verdicts \ {c} /\ Move(Opposite(door), c.id)
    BY <1>5 DEF Hear
  <2>2. c.id \in Causes /\ c.id <= issued
    BY <2>1, NumbersAreNat DEF TypeOK, CausesArePast, Voices, Commands
  <2> QED
    BY <1>1, <1>5, <2>1, <2>2, MovePast DEF Hear, CausesArePast
<1>6. CASE Other
  BY <1>1, <1>6, ZeroPast, NumbersAreNat, MovePast DEF Other, CausesArePast
<1>7. CASE Resend
  <2>1. PICK cause \in published : status' = Append(status, cause)
    BY <1>7 DEF Resend
  <2>2. /\ Len(status') = Len(status) + 1
        /\ \A i \in 1..Len(status) : status'[i] = status[i]
        /\ status'[Len(status) + 1] = cause
        /\ Len(status) \in Nat
    BY <2>1, AppendFacts DEF TypeOK
  <2> QED
    BY <1>1, <1>7, <2>1, <2>2 DEF Resend, CausesArePast
<1>8. CASE Lose
  <2>1. CASE control # <<>> /\ control' = Tail(control) /\ UNCHANGED <<verdicts, status>>
    <3>1. \A i \in 1..Len(control') : i + 1 \in 1..Len(control) /\ control'[i] = control[i + 1]
      BY <2>1, TailFacts DEF TypeOK
    <3> QED
      BY <1>1, <1>8, <2>1, <3>1 DEF Lose, CausesArePast, device
  <2>2. CASE status # <<>> /\ status' = Tail(status) /\ UNCHANGED <<control, verdicts>>
    <3>1. \A i \in 1..Len(status') : i + 1 \in 1..Len(status) /\ status'[i] = status[i + 1]
      BY <2>2, TailFacts DEF TypeOK
    <3> QED
      BY <1>1, <1>8, <2>2, <3>1 DEF Lose, CausesArePast, device
  <2>3. CASE /\ \E c \in verdicts : verdicts' = verdicts \ {c}
             /\ UNCHANGED <<control, status>>
    BY <1>1, <1>8, <2>3 DEF Lose, CausesArePast, device
  <2> QED
    BY <1>8, <2>1, <2>2, <2>3 DEF Lose
<1> QED
  BY <1>4, <1>5, <1>6, <1>7, <1>8

-----------------------------------------------------------------------------
(* A lock event whose row fails: the command is removed all the same. *)
LEMMA HandleUnlogged ==
    ASSUME IInv, Handle, UNCHANGED logs
    PROVE  IInv'
<1> USE NumbersAreNat, RecentType, ZeroPast
<1>1. TypeOK /\ TypeOK'
  BY TypeStep DEF IInv, Next
<1>2. /\ UNCHANGED <<issued, sending, forgotten, published, control, verdicts>>
      /\ recent' = IF recent.fresh THEN Nothing ELSE recent
      /\ unlogged \subseteq unlogged'
  BY DEF Handle, device
<1>3. \A i \in 1..Len(status') : i + 1 \in 1..Len(status) /\ status'[i] = status[i + 1]
  BY <1>1, TailFacts DEF Handle, TypeOK
<1>4. CausesArePast'
  <2>1. \A i \in 1..Len(status') : status'[i] <= issued
    BY <1>3 DEF IInv, CausesArePast
  <2> QED
    BY <1>2, <2>1 DEF IInv, CausesArePast
<1>5. RecentIsLast' /\ RecentIsUnused'
  BY <1>2 DEF IInv, RecentIsLast, RecentIsUnused
<1>6. LastIsAccounted'
  <2>1. CASE recent.fresh
    <3>1. recent.id \in Numbers /\ recent.id = issued
      BY <1>1, <2>1 DEF IInv, RecentIsLast
    <3>2. logs' # Append(logs, NewRow)
      <4>1. Len(Append(logs, NewRow)) = Len(logs) + 1 /\ Len(logs) \in Nat
        BY <1>1, RowType, AppendFacts DEF Handle, TypeOK
      <4> QED
        BY <4>1
    <3>3. recent.id \in unlogged'
      BY <2>1, <3>2 DEF Handle, NewRow
    <3>4. issued' \in unlogged' /\ issued' >= issued'
      BY <1>1, <1>2, <3>1, <3>3
    <3> QED
      BY <3>4 DEF LastIsAccounted
  <2>2. CASE ~recent.fresh
    BY <1>2, <2>2 DEF IInv, LastIsAccounted
  <2> QED
    BY <2>1, <2>2
<1>7. UsersAdvance' /\ NeverAnEarlierUser' /\ AnonymousIsExplained'
  BY <1>2 DEF IInv, UsersAdvance, NeverAnEarlierUser, AnonymousIsExplained
<1> QED
  BY <1>1, <1>4, <1>5, <1>6, <1>7 DEF IInv

(* A lock event with its row, of the last command or of nobody. *)
LEMMA HandleLogged ==
    ASSUME IInv, Handle, logs' = Append(logs, NewRow), UNCHANGED unlogged
    PROVE  IInv'
<1> USE NumbersAreNat, RecentType, ZeroPast
<1>1. TypeOK /\ TypeOK'
  BY TypeStep DEF IInv, Next
<1>2. /\ Len(logs) \in Nat /\ Len(logs') = Len(logs) + 1
      /\ \A i \in 1..Len(logs) : logs'[i] = logs[i]
      /\ logs'[Len(logs) + 1] = NewRow
  BY <1>1, RowType, AppendFacts DEF Handle, TypeOK
<1>3. /\ UNCHANGED <<issued, sending, forgotten, unlogged, published, control, verdicts>>
      /\ recent' = IF recent.fresh THEN Nothing ELSE recent
  BY DEF Handle, device
<1>4. \A i \in 1..Len(status') : i + 1 \in 1..Len(status) /\ status'[i] = status[i + 1]
  BY <1>1, TailFacts DEF Handle, TypeOK
<1>5. NewRow.cause \in Nat /\ NewRow.cause <= issued
  BY <1>1, TailFacts DEF Handle, TypeOK, IInv, CausesArePast, NewRow
<1>6. /\ NewRow.user \in Nat
      /\ NewRow.user # 0 => /\ recent.fresh /\ recent # Nothing
                            /\ NewRow.user = issued /\ NewRow.user = recent.id
      /\ NewRow.user = 0 => ~recent.fresh
  BY <1>1 DEF IInv, RecentIsLast, NewRow
<1>7. \A i \in 1..Len(logs) : logs[i].user \in Nat /\ logs[i].cause \in Nat
  <2>1. \A i \in 1..Len(logs) : logs[i] \in [cause : Causes, user : Causes]
    BY <1>1, MemberFacts DEF TypeOK
  <2> QED
    BY <2>1
<1>8. RecentIsLast'
  BY <1>3 DEF IInv, RecentIsLast
<1>9. CausesArePast'
  <2>1. CausesArePast
    BY DEF IInv
  <2>2. \A i \in 1..Len(logs') : logs'[i].cause <= issued /\ logs'[i].user <= issued
    BY <1>1, <1>2, <1>5, <1>6, <2>1 DEF CausesArePast
  <2>3. \A i \in 1..Len(status') : status'[i] <= issued
    BY <1>4, <2>1 DEF CausesArePast
  <2> QED
    BY <1>3, <2>1, <2>2, <2>3 DEF CausesArePast
<1>10. RecentIsUnused'
  <2> SUFFICES ASSUME recent' # Nothing, NEW i \in 1..Len(logs')
               PROVE  logs'[i].user < recent'.id
    BY DEF RecentIsUnused
  <2>1. recent' = recent /\ ~recent.fresh /\ recent.id \in Nat /\ recent.id # 0
    BY <1>1, <1>3
  <2>2. CASE i \in 1..Len(logs)
    BY <1>2, <2>1, <2>2 DEF IInv, RecentIsUnused
  <2>3. CASE i = Len(logs) + 1
    BY <1>2, <1>6, <2>1, <2>3
  <2> QED
    BY <1>2, <2>2, <2>3
<1>11. LastIsAccounted'
  <2>1. CASE recent.fresh
    BY <1>1, <1>2, <1>3, <1>6, <2>1 DEF IInv, LastIsAccounted, RecentIsLast, NewRow
  <2>2. CASE ~recent.fresh
    BY <1>2, <1>3, <2>2 DEF IInv, LastIsAccounted
  <2> QED
    BY <2>1, <2>2
<1>12. UsersAdvance'
  <2> SUFFICES ASSUME NEW i \in 1..Len(logs'), NEW j \in 1..Len(logs'),
                      i < j, logs'[i].user # 0, logs'[j].user # 0
               PROVE  logs'[i].user < logs'[j].user
    BY DEF UsersAdvance
  <2>1. CASE j \in 1..Len(logs)
    BY <1>2, <2>1 DEF IInv, UsersAdvance
  <2>2. CASE j = Len(logs) + 1
    <3>1. i \in 1..Len(logs) /\ logs'[i] = logs[i] /\ logs'[j] = NewRow
      BY <1>2, <2>2
    <3> QED
      BY <1>6, <3>1 DEF IInv, RecentIsUnused
  <2> QED
    BY <1>2, <2>1, <2>2
<1>13. NeverAnEarlierUser'
  BY <1>2, <1>5, <1>6 DEF IInv, NeverAnEarlierUser
<1>14. AnonymousIsExplained'
  <2> SUFFICES ASSUME NEW i \in 1..Len(logs'), logs'[i].cause # 0, logs'[i].user = 0
               PROVE  \/ \E n \in forgotten \cup unlogged : n >= logs'[i].cause
                      \/ \E j \in 1..(i - 1) : logs'[j].user >= logs'[i].cause
    BY <1>3 DEF AnonymousIsExplained
  <2>1. CASE i \in 1..Len(logs)
    BY <1>2, <2>1 DEF IInv, AnonymousIsExplained
  <2>2. CASE i = Len(logs) + 1
    <3>1. ~recent.fresh /\ logs'[i] = NewRow /\ issued # 0
      BY <1>2, <1>5, <1>6, <2>2
    <3>2. \/ \E n \in forgotten \cup unlogged : n >= issued
          \/ \E j \in 1..Len(logs) : logs[j].user >= issued
      BY <3>1 DEF IInv, LastIsAccounted
    <3>3. CASE \E n \in forgotten \cup unlogged : n >= issued
      <4>1. forgotten \cup unlogged \subseteq Nat
        BY <1>1 DEF TypeOK
      <4> QED
        BY <1>1, <1>5, <3>1, <3>3, <4>1
    <3>4. CASE \E j \in 1..Len(logs) : logs[j].user >= issued
      BY <1>1, <1>2, <1>5, <1>7, <2>2, <3>1, <3>4
    <3> QED
      BY <3>2, <3>3, <3>4
  <2> QED
    BY <1>2, <2>1, <2>2
<1> QED
  BY <1>1, <1>8, <1>9, <1>10, <1>11, <1>12, <1>13, <1>14 DEF IInv

LEMMA HandleStep ==
    ASSUME IInv, Handle
    PROVE  IInv'
<1>1. CASE logs' = Append(logs, NewRow) /\ UNCHANGED unlogged
  BY <1>1, HandleLogged
<1>2. CASE UNCHANGED logs
  BY <1>2, HandleUnlogged
<1> QED
  BY <1>1, <1>2 DEF Handle, NewRow

-----------------------------------------------------------------------------
(* The other steps of the backend. *)
LEMMA RememberStep ==
    ASSUME IInv, NEW command \in {"LOCK", "UNLOCK", "VOICE"}, Remember(command)
    PROVE  IInv'
<1> USE NumbersAreNat, ZeroPast
<1>1. TypeOK /\ TypeOK'
  BY TypeStep DEF IInv, Next
<1>2. /\ issued' = issued + 1 /\ recent' = [id |-> issued', fresh |-> TRUE]
      /\ sending' = sending \cup {[id |-> issued', command |-> command]}
      /\ UNCHANGED <<logs, forgotten, unlogged, published, control, verdicts, status>>
  BY DEF Remember, device, topics
<1>3. /\ \A c \in sending \cup verdicts : c.id \in Nat
      /\ \A i \in 1..Len(control) : control[i].id \in Nat
      /\ \A i \in 1..Len(status) : status[i] \in Nat
      /\ \A i \in 1..Len(logs) : logs[i].user \in Nat /\ logs[i].cause \in Nat
  <2>1. \A i \in 1..Len(control) : control[i] \in Messages
    BY <1>1, MemberFacts DEF TypeOK
  <2>2. \A i \in 1..Len(status) : status[i] \in Causes
    BY <1>1, MemberFacts DEF TypeOK
  <2>3. \A i \in 1..Len(logs) : logs[i] \in [cause : Causes, user : Causes]
    BY <1>1, MemberFacts DEF TypeOK
  <2>4. sending \cup verdicts \subseteq Commands
    BY <1>1 DEF TypeOK, Voices
  <2> QED
    BY <2>1, <2>2, <2>3, <2>4 DEF Messages, Commands
<1>4. CausesArePast'
  <2>1. CausesArePast
    BY DEF IInv
  <2>2. \A c \in sending' \cup verdicts' : c.id <= issued'
    BY <1>1, <1>2, <1>3, <2>1 DEF CausesArePast
  <2>3. \A cause \in published' : cause <= issued'
    BY <1>1, <1>2, <2>1 DEF CausesArePast, TypeOK
  <2>4. /\ \A i \in 1..Len(control') : control'[i].id <= issued'
        /\ \A i \in 1..Len(status') : status'[i] <= issued'
        /\ \A i \in 1..Len(logs') : logs'[i].cause <= issued' /\ logs'[i].user <= issued'
    BY <1>1, <1>2, <1>3, <2>1 DEF CausesArePast
  <2> QED
    BY <2>2, <2>3, <2>4 DEF CausesArePast
<1>5. RecentIsLast' /\ LastIsAccounted'
  BY <1>2 DEF RecentIsLast, LastIsAccounted
<1>6. RecentIsUnused'
  BY <1>1, <1>2, <1>3 DEF IInv, RecentIsUnused, CausesArePast
<1>7. UsersAdvance' /\ NeverAnEarlierUser' /\ AnonymousIsExplained'
  BY <1>2 DEF IInv, UsersAdvance, NeverAnEarlierUser, AnonymousIsExplained
<1> QED
  BY <1>1, <1>4, <1>5, <1>6, <1>7 DEF IInv

LEMMA PublishStep ==
    ASSUME IInv, Publish
    PROVE  IInv'
<1>1. TypeOK /\ TypeOK'
  BY TypeStep DEF IInv, Next
<1>2. PICK c \in sending :
        /\ sending' = sending \ {c}
        /\ IF c.command = "VOICE"
           THEN verdicts' = verdicts \cup {c} /\ UNCHANGED control
           ELSE control' = Append(control, c) /\ UNCHANGED verdicts
        /\ UNCHANGED <<issued, recent, logs, forgotten, unlogged, device, status>>
  BY DEF Publish
<1>3. CausesArePast'
  <2>1. CausesArePast /\ c.id <= issued
    BY DEF IInv, CausesArePast
  <2>2. CASE c.command = "VOICE"
    BY <1>2, <2>1, <2>2 DEF CausesArePast, device
  <2>3. CASE c.command # "VOICE"
    <3>1. c \in Messages /\ control \in Seq(Messages)
      BY <1>1, <2>3 DEF TypeOK, Messages, Voices
    <3>2. /\ Len(control') = Len(control) + 1 /\ Len(control) \in Nat
          /\ \A i \in 1..Len(control) : control'[i] = control[i]
          /\ control'[Len(control) + 1] = c
      BY <1>2, <2>3, <3>1, AppendFacts
    <3>3. \A i \in 1..Len(control') : control'[i].id <= issued
      BY <2>1, <3>2 DEF CausesArePast
    <3> QED
      BY <1>2, <2>1, <2>3, <3>3 DEF CausesArePast, device
  <2> QED
    BY <2>2, <2>3
<1> QED
  BY <1>1, <1>2, <1>3, LogUnchanged DEF IInv

(* The last command is forgotten: by age, or in a restart. *)
LEMMA ForgetStep ==
    ASSUME IInv, Elapse \/ Restart
    PROVE  IInv'
<1> USE NumbersAreNat, RecentType, ZeroPast
<1>1. TypeOK /\ TypeOK'
  BY TypeStep DEF IInv, Next
<1>2. /\ UNCHANGED <<issued, logs, unlogged, published, control, verdicts, status>>
      /\ sending' \subseteq sending
      /\ forgotten' = forgotten \cup ({recent.id} \cap Numbers)
      /\ ~recent'.fresh
      /\ recent' # Nothing => recent # Nothing /\ recent'.id = recent.id
  <2>1. CASE Elapse
    BY <1>1, <2>1 DEF Elapse, device, topics, Nothing
  <2>2. CASE Restart
    BY <1>1, <2>2 DEF Restart, device, topics, Nothing
  <2> QED
    BY <2>1, <2>2
<1>3. CausesArePast'
  BY <1>2 DEF IInv, CausesArePast
<1>4. RecentIsLast' /\ RecentIsUnused'
  BY <1>2 DEF IInv, RecentIsLast, RecentIsUnused
<1>5. LastIsAccounted'
  <2>1. CASE recent.fresh
    <3>1. recent.id \in Numbers /\ recent.id = issued
      BY <1>1, <2>1 DEF IInv, RecentIsLast
    <3>2. issued' \in forgotten' /\ issued' >= issued'
      BY <1>1, <1>2, <3>1
    <3> QED
      BY <3>2 DEF LastIsAccounted
  <2>2. CASE ~recent.fresh
    BY <1>2, <2>2 DEF IInv, LastIsAccounted
  <2> QED
    BY <2>1, <2>2
<1>6. UsersAdvance' /\ NeverAnEarlierUser' /\ AnonymousIsExplained'
  BY <1>2 DEF IInv, UsersAdvance, NeverAnEarlierUser, AnonymousIsExplained
<1> QED
  BY <1>1, <1>3, <1>4, <1>5, <1>6 DEF IInv

-----------------------------------------------------------------------------
LEMMA InvInit == Init => IInv
  BY BoundsAssumption, NumbersAreNat
     DEF Init, IInv, TypeOK, RecentIsLast, CausesArePast, RecentIsUnused,
         LastIsAccounted, UsersAdvance, NeverAnEarlierUser, AnonymousIsExplained

LEMMA InvStep == IInv /\ [Next]_vars => IInv'
<1> SUFFICES ASSUME IInv, [Next]_vars PROVE IInv'
  OBVIOUS
<1>1. ASSUME NEW command \in {"LOCK", "UNLOCK", "VOICE"}, Remember(command) PROVE IInv'
  BY <1>1, RememberStep
<1>2. CASE Publish
  BY <1>2, PublishStep
<1>3. CASE Elapse \/ Restart
  BY <1>3, ForgetStep
<1>4. CASE Handle
  BY <1>4, HandleStep
<1>5. CASE Obey \/ Hear \/ Other \/ Resend \/ Lose
  <2>1. UNCHANGED <<issued, recent, logs, forgotten, unlogged>>
    BY <1>5 DEF Obey, Hear, Other, Resend, Lose, backend
  <2> QED
    BY <1>5, <2>1, TypeStep, PastKept, LogUnchanged DEF IInv
<1>6. CASE UNCHANGED vars
  <2>1. CausesArePast'
    BY <1>6 DEF vars, backend, device, topics, IInv, CausesArePast
  <2>2. UNCHANGED <<issued, recent, logs, forgotten, unlogged>>
    BY <1>6 DEF vars, backend
  <2> QED
    BY <2>1, <2>2, TypeStep, LogUnchanged DEF IInv
<1> QED
  BY <1>1, <1>2, <1>3, <1>4, <1>5, <1>6 DEF Next

LEMMA Invariant == Spec => []IInv
  BY InvInit, InvStep, PTL DEF Spec

(* The log names each command once at most, in their order, and the user  *)
(* it names gave his command with, or after, the one that caused the event.*)
THEOREM CreditsAlwaysGoForward == Spec => []CreditsGoForward
<1>1. IInv => CreditsGoForward
  BY DEF IInv, CreditsGoForward
<1> QED
  BY <1>1, Invariant, PTL

(* The credit of a command is lost only to a later one, to an earlier      *)
(* event (with or without its row), to its age or to a restart.            *)
THEOREM AnonymityIsExplained == Spec => []AnonymousIsExplained
<1>1. IInv => AnonymousIsExplained
  BY DEF IInv
<1> QED
  BY <1>1, Invariant, PTL

=============================================================================
