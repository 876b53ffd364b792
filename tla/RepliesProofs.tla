--------------------------- MODULE RepliesProofs ---------------------------
(***************************************************************************)
(* Proofs about Replies, for any requests and any number of parameters.    *)
(*                                                                         *)
(* The two properties of an update that was alone speak of its end.  They  *)
(* hold because of what travels while it runs: before its command nothing  *)
(* of its kind does, and after it at most the command or its one answer,   *)
(* so that a confirmation it finds in its channel can only be its own.     *)
(***************************************************************************)
EXTENDS Replies, TLAPS

(* What travels of updates. *)
Commands == {i \in 1..Len(control) : control[i][1] \in Updates}
Answers  == {i \in 1..Len(status) : status[i].kind = "UPDATE_CONFIG"}
Quiet    == Commands = {} /\ Answers = {}

(* The command of r's current parameter, or its answer, or neither. *)
Current(r) ==
    /\ \A i \in Commands : control[i] = <<r, part[r]>>
    /\ \A i, j \in Commands : i = j
    /\ \A i, j \in Answers : i = j
    /\ Commands = {} \/ Answers = {}
    /\ \A i \in Answers : status[i].good => <<r, part[r]>> \in obeyed

(* An update that runs alone. *)
Undisturbed(r) ==
    /\ \A s \in Updates \ {r} : ~Active(s)
    /\ pc[r] \in {"register", "publish"} => Quiet
    /\ pc[r] = "publish" => channel[r] # "sent"
    /\ pc[r] = "wait" => Current(r)
    /\ pc[r] = "wait" /\ channel[r] = "sent" => Quiet /\ <<r, part[r]>> \in obeyed

Alone == \A r \in Updates \ mixed : Active(r) => Undisturbed(r)

(* What the device has obeyed of an update, whether it runs or not. *)
ObeyedSoFar(r) ==
    /\ \A p \in 1..Parts : p < part[r] => <<r, p>> \in obeyed
    /\ \A p \in 1..Parts : <<r, p>> \in obeyed => p <= part[r]
    /\ \A i \in 1..Len(control) : control[i][1] = r => control[i][2] <= part[r]
    /\ pc[r] = "ok" => \A p \in 1..Parts : <<r, p>> \in obeyed

Progress == \A r \in Updates \ mixed : ObeyedSoFar(r)

IInv == TypeOK /\ Alone /\ Progress

-----------------------------------------------------------------------------
(* Sequences of messages: the first goes, another comes. *)
LEMMA TailFacts ==
    ASSUME NEW S, NEW s \in Seq(S), s # <<>>
    PROVE  /\ Head(s) \in S /\ Head(s) = s[1] /\ 1 \in 1..Len(s)
           /\ Tail(s) \in Seq(S)
           /\ \A i \in 1..Len(Tail(s)) : i + 1 \in 1..Len(s) /\ Tail(s)[i] = s[i + 1]
  OBVIOUS

LEMMA AppendFacts ==
    ASSUME NEW S, NEW s \in Seq(S), NEW e \in S
    PROVE  /\ Append(s, e) \in Seq(S)
           /\ Len(s) \in Nat /\ Len(Append(s, e)) = Len(s) + 1
           /\ \A i \in 1..Len(s) : Append(s, e)[i] = s[i]
           /\ Append(s, e)[Len(s) + 1] = e
  OBVIOUS

Cmds == Requests \X (1..Parts)
Anss == [kind : Kinds, good : BOOLEAN]

LEMMA MessageTypes == TypeOK => control \in Seq(Cmds) /\ status \in Seq(Anss)
  BY DEF TypeOK, Cmds, Anss

(* A command that has left the channel is the oldest of those on the way,  *)
(* and the ones in the channel stay on the way when it goes.               *)
LEMMA SentFacts ==
    ASSUME TypeOK, Sent
    PROVE  /\ control # <<>>
           /\ control' = Tail(control) => unsent <= Len(control')
<1>1. Len(control) \in Nat /\ unsent \in Nat /\ Len(control) > unsent
  BY DEF TypeOK, Sent
<1>2. Len(Tail(control)) = Len(control) - 1
  BY <1>1, MessageTypes, TailFacts
<1> QED
  BY <1>1, <1>2

LEMMA KindType == \A r : Kind(r) \in Kinds
  BY DEF Kind, Kinds

(* Updates are the requests of their kind. *)
LEMMA KindOfUpdates ==
    \A r \in Requests : (r \in Updates) <=> (Kind(r) = "UPDATE_CONFIG")
  BY RequestsAssumption DEF Requests, Kind

-----------------------------------------------------------------------------
(* Types. *)

(* A request goes on with its next step. *)
LEMMA GotoType ==
    ASSUME TypeOK, NEW r \in Requests,
           NEW step \in {"new", "register", "publish", "wait", "ok", "timeout", "error"},
           Goto(r, step)
    PROVE  pc' \in [Requests -> {"new", "register", "publish", "wait", "ok", "timeout", "error"}]
  BY DEF TypeOK, Goto

LEMMA RequestType ==
    ASSUME TypeOK, NEW r \in Requests, Runs(r)
    PROVE  TypeOK'
<1> USE KindType
<1>1. CASE Register(r)
  <2>1. pc' \in [Requests -> {"new", "register", "publish", "wait", "ok", "timeout", "error"}]
    BY <1>1, GotoType DEF Register
  <2>2. /\ slot' \in [Kinds -> Requests \cup {None}]
        /\ \A k \in Kinds : slot'[k] # None => Kind(slot'[k]) = k
    BY <1>1 DEF Register, TypeOK
  <2>3. channel' \in [Requests -> {"none", "open", "sent", "dropped", "closed"}]
    BY <1>1 DEF Register, TypeOK
  <2> QED
    BY <1>1, <2>1, <2>2, <2>3 DEF Register, TypeOK
<1>2. CASE Publish(r)
  <2>1. pc' \in [Requests -> {"new", "register", "publish", "wait", "ok", "timeout", "error"}]
    BY <1>2, GotoType DEF Publish
  <2>2. control' \in Seq(Cmds)
    <3>1. <<r, part[r]>> \in Cmds
      BY DEF TypeOK, Cmds
    <3> QED
      BY <1>2, <3>1, MessageTypes, AppendFacts DEF Publish
  <2>3. unsent' \in 0..Capacity /\ unsent' <= Len(control')
    <3>1. Len(control') = Len(control) + 1 /\ Len(control) \in Nat
      BY <1>2, MessageTypes, AppendFacts DEF Publish
    <3> QED
      BY <1>2, <3>1, RequestsAssumption DEF Publish, TypeOK
  <2> QED
    BY <1>2, <2>1, <2>2, <2>3 DEF Publish, TypeOK, Cmds
<1>3. CASE PublishFails(r) \/ Dropped(r) \/ Timeout(r)
  <2>1. pc' \in [Requests -> {"new", "register", "publish", "wait", "ok", "timeout", "error"}]
    BY <1>3, GotoType DEF PublishFails, Dropped, Timeout
  <2> QED
    BY <1>3, <2>1 DEF PublishFails, Dropped, Timeout, TypeOK
<1>4. CASE Answered(r)
  <2>1. pc' \in [Requests -> {"new", "register", "publish", "wait", "ok", "timeout", "error"}]
    BY <1>4, GotoType DEF Answered
  <2>2. part' \in [Requests -> 1..Parts] /\ \A s \in Pings : part'[s] = 1
    <3>1. CASE part[r] + 1 \in Steps(r)
      <4>1. r \notin Pings /\ part[r] + 1 \in 1..Parts
        <5>1. r \in Pings => part[r] = 1
          BY DEF TypeOK
        <5>2. r \notin Pings
          BY <3>1, <5>1 DEF Steps
        <5> QED
          BY <3>1, <5>2 DEF Steps
      <4> QED
        BY <1>4, <3>1, <4>1 DEF Answered, TypeOK, Requests
    <3>2. CASE part[r] + 1 \notin Steps(r)
      BY <1>4, <3>2 DEF Answered, TypeOK
    <3> QED
      BY <3>1, <3>2
  <2> QED
    BY <1>4, <2>1, <2>2 DEF Answered, TypeOK
<1> QED
  BY <1>1, <1>2, <1>3, <1>4 DEF Runs

LEMMA BeginType ==
    ASSUME TypeOK, NEW r \in Requests, Begin(r)
    PROVE  TypeOK'
<1>1. pc' \in [Requests -> {"new", "register", "publish", "wait", "ok", "timeout", "error"}]
  BY GotoType DEF Begin
<1>2. mixed' \subseteq Requests
  BY DEF Begin, TypeOK, Others
<1> QED
  BY <1>1, <1>2 DEF Begin, TypeOK

LEMMA AnswerType ==
    ASSUME TypeOK, NEW kind \in Kinds, NEW success \in BOOLEAN, Answer(kind, success)
    PROVE  status' \in Seq(Anss)
  BY MessageTypes, AppendFacts DEF Answer, Anss

LEMMA StrayType ==
    ASSUME TypeOK, NEW kind \in Kinds, Stray(kind)
    PROVE  TypeOK'
<1>1. status' \in Seq(Anss)
  BY AnswerType DEF Stray
<1>2. strays' \in 0..MaxStrays
  BY RequestsAssumption DEF Stray, TypeOK
<1>3. mixed' \subseteq Requests
  BY DEF Stray, TypeOK
<1> QED
  BY <1>1, <1>2, <1>3 DEF Stray, TypeOK, requests, Anss

LEMMA TypeStep == TypeOK /\ [Next]_vars => TypeOK'
<1> SUFFICES ASSUME TypeOK, [Next]_vars PROVE TypeOK'
  OBVIOUS
<1> USE KindType
<1>1. ASSUME NEW r \in Requests, Begin(r) \/ Runs(r) PROVE TypeOK'
  BY <1>1, BeginType, RequestType
<1>2. CASE Handle
  <2>1. Head(status) \in Anss /\ status' \in Seq(Anss)
    BY <1>2, MessageTypes, TailFacts DEF Handle
  <2>2. /\ slot' \in [Kinds -> Requests \cup {None}]
        /\ \A k \in Kinds : slot'[k] # None => Kind(slot'[k]) = k
    BY <1>2, <2>1 DEF Handle, TypeOK, Anss
  <2>3. channel' \in [Requests -> {"none", "open", "sent", "dropped", "closed"}]
    BY <1>2, <2>1 DEF Handle, TypeOK, Anss
  <2> QED
    BY <1>2, <2>1, <2>2, <2>3 DEF Handle, TypeOK, Anss
<1>3. CASE Obey \/ Refuse
  <2>1. control # <<>> /\ control' = Tail(control) /\ unsent <= Len(control')
    BY <1>3, SentFacts DEF Obey, Refuse
  <2>2. Head(control) \in Cmds /\ control' \in Seq(Cmds)
    BY <2>1, MessageTypes, TailFacts
  <2>3. status' \in Seq(Anss)
    BY <1>3, AnswerType DEF Obey, Refuse, Kinds
  <2> QED
    BY <1>3, <2>1, <2>2, <2>3 DEF Obey, Refuse, TypeOK, Cmds, Anss, requests
<1>4. CASE Type \/ Resend
  BY <1>4, StrayType DEF Type, Resend, Kinds
<1>5. CASE LoseCommand
  <2>1. control' \in Seq(Cmds) /\ unsent <= Len(control')
    BY <1>5, SentFacts, MessageTypes, TailFacts DEF LoseCommand
  <2> QED
    BY <1>5, <2>1 DEF LoseCommand, TypeOK, Cmds, requests
<1>6. CASE LoseAnswer
  <2>1. status' \in Seq(Anss)
    BY <1>6, MessageTypes, TailFacts DEF LoseAnswer
  <2> QED
    BY <1>6, <2>1 DEF LoseAnswer, TypeOK, Anss, requests
<1>7. CASE UNCHANGED vars
  BY <1>7 DEF vars, requests, TypeOK
<1>8. CASE Send
  <2>1. Len(control) \in Nat /\ unsent \in 0..Capacity /\ unsent <= Len(control)
    BY DEF TypeOK
  <2>2. unsent' \in 0..Capacity /\ unsent' <= Len(control)
    BY <1>8, <2>1, RequestsAssumption DEF Send
  <2> QED
    BY <1>8, <2>2 DEF Send, requests, TypeOK
<1> QED
  BY <1>1, <1>2, <1>3, <1>4, <1>5, <1>6, <1>7, <1>8 DEF Next

(* Every variable keeps to its values, for any requests, parameters and    *)
(* stray answers; a slot holds a request of its own kind.                  *)
THEOREM TypeCorrect == Spec => []TypeOK
<1>1. Init => TypeOK
  <2> SUFFICES ASSUME Init PROVE TypeOK
    OBVIOUS
  <2>1. unsent \in 0..Capacity /\ unsent <= Len(control)
    BY RequestsAssumption DEF Init
  <2> QED
    BY <2>1, RequestsAssumption DEF Init, TypeOK, Requests, Kinds
<1> QED
  BY <1>1, TypeStep, PTL DEF Spec

-----------------------------------------------------------------------------
(* What a step does to the messages of updates. *)

LEMMA MessageParts ==
    ASSUME TypeOK
    PROVE  /\ \A i \in 1..Len(control) : control[i][1] \in Requests /\ control[i][2] \in 1..Parts
                                         /\ control[i] = <<control[i][1], control[i][2]>>
           /\ \A i \in 1..Len(status) : status[i].kind \in Kinds /\ status[i].good \in BOOLEAN
<1>1. \A i \in 1..Len(control) : control[i] \in Cmds
  BY MessageTypes
<1>2. \A i \in 1..Len(status) : status[i] \in Anss
  BY MessageTypes
<1> QED
  BY <1>1, <1>2 DEF Cmds, Anss

LEMMA CommandGoes ==
    ASSUME TypeOK, control # <<>>, control' = Tail(control)
    PROVE  /\ \A i \in 1..Len(control') : i + 1 \in 1..Len(control) /\ control'[i] = control[i + 1]
           /\ \A i \in Commands' : i + 1 \in Commands /\ control'[i] = control[i + 1]
           /\ 1 \in 1..Len(control) /\ Head(control) = control[1]
           /\ Head(control)[1] \in Updates => 1 \in Commands
<1>1. /\ Head(control) = control[1] /\ 1 \in 1..Len(control)
      /\ \A i \in 1..Len(control') : i + 1 \in 1..Len(control) /\ control'[i] = control[i + 1]
  BY MessageTypes, TailFacts
<1> QED
  BY <1>1 DEF Commands

LEMMA AnswerGoes ==
    ASSUME TypeOK, status # <<>>, status' = Tail(status)
    PROVE  /\ \A i \in Answers' : i + 1 \in Answers /\ status'[i] = status[i + 1]
           /\ 1 \in 1..Len(status) /\ Head(status) = status[1]
           /\ Head(status).kind = "UPDATE_CONFIG" => 1 \in Answers
<1>1. /\ Head(status) = status[1] /\ 1 \in 1..Len(status)
      /\ \A i \in 1..Len(status') : i + 1 \in 1..Len(status) /\ status'[i] = status[i + 1]
  BY MessageTypes, TailFacts
<1> QED
  BY <1>1 DEF Answers

LEMMA AnswerComes ==
    ASSUME TypeOK, NEW kind \in Kinds, NEW success \in BOOLEAN, Answer(kind, success)
    PROVE  \A i \in Answers' :
              \/ i \in Answers /\ status'[i] = status[i]
              \/ /\ i = Len(status) + 1 /\ kind = "UPDATE_CONFIG"
                 /\ status'[i].good = success
<1>1. /\ Len(status) \in Nat /\ Len(status') = Len(status) + 1
      /\ \A i \in 1..Len(status) : status'[i] = status[i]
      /\ status'[Len(status) + 1] = [kind |-> kind, good |-> success]
  <2>1. [kind |-> kind, good |-> success] \in Anss
    BY DEF Anss
  <2> QED
    BY <2>1, MessageTypes, AppendFacts DEF Answer
<1> QED
  BY <1>1 DEF Answers

LEMMA CommandComes ==
    ASSUME TypeOK, NEW r \in Requests, Publish(r)
    PROVE  /\ \A i \in 1..Len(control') :
                 \/ i \in 1..Len(control) /\ control'[i] = control[i]
                 \/ i = Len(control) + 1 /\ control'[i] = <<r, part[r]>>
           /\ \A i \in Commands' :
                 \/ i \in Commands /\ control'[i] = control[i]
                 \/ i = Len(control) + 1 /\ control'[i] = <<r, part[r]>> /\ r \in Updates
<1>1. /\ Len(control) \in Nat /\ Len(control') = Len(control) + 1
      /\ \A i \in 1..Len(control) : control'[i] = control[i]
      /\ control'[Len(control) + 1] = <<r, part[r]>>
  <2>1. <<r, part[r]>> \in Cmds
    BY DEF TypeOK, Cmds
  <2> QED
    BY <2>1, MessageTypes, AppendFacts DEF Publish
<1>2. \A i \in 1..Len(control') : i \in 1..Len(control) \/ i = Len(control) + 1
  BY <1>1
<1>3. <<r, part[r]>>[1] = r
  OBVIOUS
<1> QED
  BY <1>1, <1>2, <1>3 DEF Commands

(* An update that is left alone, with no message more, stays undisturbed. *)
LEMMA StaysUndisturbed ==
    ASSUME TypeOK, NEW r \in Updates, Undisturbed(r),
           pc'[r] = pc[r], part'[r] = part[r], channel'[r] = channel[r],
           \A s \in Updates \ {r} : Active(s)' => Active(s),
           NEW m \in {0, 1}, NEW n \in {0, 1},
           \A i \in Commands' : i + m \in Commands /\ control'[i] = control[i + m],
           \A i \in Answers' : i + n \in Answers /\ status'[i] = status[i + n],
           obeyed \subseteq obeyed'
    PROVE  Undisturbed(r)'
<1>0. Commands' \subseteq Nat /\ Answers' \subseteq Nat
  BY DEF Commands, Answers
<1>1. Quiet => Quiet'
  BY DEF Quiet
<1>2. Current(r) => Current(r)'
  <2> SUFFICES ASSUME Current(r) PROVE Current(r)'
    OBVIOUS
  <2>1. \A i \in Commands' : control'[i] = <<r, part[r]>>'
    BY DEF Current
  <2>2. \A i, j \in Commands' : i = j
    BY <1>0 DEF Current
  <2>3. \A i, j \in Answers' : i = j
    BY <1>0 DEF Current
  <2>4. Commands' = {} \/ Answers' = {}
    BY DEF Current
  <2>5. \A i \in Answers' : status'[i].good => <<r, part[r]>>' \in obeyed'
    BY DEF Current
  <2> QED
    BY <2>1, <2>2, <2>3, <2>4, <2>5 DEF Current
<1> QED
  BY <1>1, <1>2 DEF Undisturbed

(* A request that runs is active. *)
LEMMA RunsActive ==
    ASSUME NEW r \in Requests, Runs(r)
    PROVE  Active(r)
  BY DEF Runs, Register, Publish, PublishFails, Answered, Dropped, Timeout, Active

(* A ping leaves updates and their messages alone. *)
LEMMA PingStep ==
    ASSUME TypeOK, NEW s \in Pings, Begin(s) \/ Runs(s)
    PROVE  /\ \A r \in Updates : /\ pc'[r] = pc[r] /\ part'[r] = part[r]
                                 /\ channel'[r] = channel[r]
           /\ \A i \in Commands' : i + 0 \in Commands /\ control'[i] = control[i + 0]
           /\ \A i \in Answers' : i + 0 \in Answers /\ status'[i] = status[i + 0]
           /\ obeyed \subseteq obeyed'
<1>0. /\ s \in Requests /\ s \notin Updates
      /\ \A r \in Updates : r \in Requests /\ r # s /\ r # None /\ Kind(r) # Kind(s)
  BY RequestsAssumption DEF Requests, Kind
<1>1. \A r \in Updates : pc'[r] = pc[r]
  BY <1>0 DEF TypeOK, Begin, Runs, Register, Publish, PublishFails, Answered, Dropped,
              Timeout, Goto
<1>2. \A r \in Updates : part'[r] = part[r]
  BY <1>0 DEF TypeOK, Begin, Runs, Register, Publish, PublishFails, Answered, Dropped,
              Timeout
<1>3. \A r \in Updates : channel'[r] = channel[r]
  <2>1. CASE Register(s)
    <3>1. \A r \in Updates : r # slot[Kind(s)]
      BY <1>0, KindType DEF TypeOK
    <3> QED
      BY <1>0, <2>1, <3>1 DEF Register
  <2>2. CASE ~Register(s)
    BY <1>0, <2>2 DEF TypeOK, Begin, Runs, Publish, PublishFails, Answered, Dropped, Timeout
  <2> QED
    BY <2>1, <2>2
<1>4. status' = status /\ obeyed' = obeyed
  BY DEF Begin, Runs, Register, Publish, PublishFails, Answered, Dropped, Timeout
<1>5. \A i \in Commands' : i \in Commands /\ control'[i] = control[i]
  <2>1. CASE Publish(s)
    BY <1>0, <2>1, CommandComes
  <2>2. CASE ~Publish(s)
    <3>1. control' = control
      BY <2>2 DEF Begin, Runs, Register, PublishFails, Answered, Dropped, Timeout
    <3> QED
      BY <3>1 DEF Commands
  <2> QED
    BY <2>1, <2>2
<1>6. \A i \in Commands' \cup Answers' : i \in Nat
  BY DEF Commands, Answers
<1>7. \A i \in Answers' : i \in Answers /\ status'[i] = status[i]
  BY <1>4 DEF Answers
<1> QED
  BY <1>1, <1>2, <1>3, <1>4, <1>5, <1>6, <1>7

-----------------------------------------------------------------------------
(* The steps of an update that is undisturbed. *)
LEMMA OwnStep ==
    ASSUME TypeOK, NEW r \in Updates, Undisturbed(r), Runs(r), Active(r)'
    PROVE  Undisturbed(r)'
<1>0. /\ r \in Requests /\ Active(r)
      /\ pc \in [Requests -> {"new", "register", "publish", "wait", "ok", "timeout", "error"}]
      /\ part \in [Requests -> 1..Parts]
      /\ channel \in [Requests -> {"none", "open", "sent", "dropped", "closed"}]
  BY RunsActive DEF Requests, TypeOK
<1>1. \A s \in Updates \ {r} : ~Active(s)'
  <2>1. \A s \in Updates \ {r} : s \in Requests /\ pc'[s] = pc[s]
    BY <1>0 DEF Requests, Runs, Register, Publish, PublishFails, Answered, Dropped, Timeout, Goto
  <2> QED
    BY <2>1 DEF Undisturbed, Active
<1>2. CASE Register(r)
  <2>1. pc'[r] = "publish" /\ channel'[r] = "open"
    BY <1>0, <1>2, RequestsAssumption DEF Register, Goto
  <2>2. Quiet'
    BY <1>2 DEF Register, Undisturbed, Quiet, Commands, Answers
  <2> QED
    BY <1>1, <2>1, <2>2 DEF Undisturbed
<1>3. CASE Publish(r)
  <2>1. /\ pc'[r] = "wait" /\ channel'[r] # "sent" /\ part'[r] = part[r]
        /\ Quiet
    BY <1>0, <1>3, RequestsAssumption DEF Publish, Goto, Undisturbed
  <2>2. Answers' = {}
    BY <1>3, <2>1 DEF Publish, Quiet, Answers
  <2>3. \A i \in Commands' : i = Len(control) + 1 /\ control'[i] = <<r, part[r]>>
    BY <1>0, <1>3, <2>1, CommandComes DEF Quiet
  <2>4. Current(r)'
    BY <2>1, <2>2, <2>3 DEF Current
  <2> QED
    BY <1>1, <2>1, <2>4 DEF Undisturbed
<1>4. CASE PublishFails(r) \/ Dropped(r) \/ Timeout(r)
  <2>1. pc'[r] \in {"error", "timeout"}
    BY <1>0, <1>4 DEF PublishFails, Dropped, Timeout, Goto
  <2> QED
    BY <2>1 DEF Active
<1>5. CASE Answered(r)
  <2>1. pc'[r] = "register"
    BY <1>0, <1>5 DEF Answered, Goto, Active
  <2>2. Quiet'
    BY <1>5 DEF Answered, Undisturbed, Quiet, Commands, Answers
  <2> QED
    BY <1>1, <2>1, <2>2 DEF Undisturbed
<1> QED
  BY <1>2, <1>3, <1>4, <1>5 DEF Runs

(* The beginning of an update that is alone. *)
LEMMA OwnBegin ==
    ASSUME TypeOK, NEW r \in Updates, Begin(r), r \notin mixed'
    PROVE  Undisturbed(r)'
<1>0. r \in Requests
  BY DEF Requests
<1>1. Others(r) = {} /\ ~Travelling("UPDATE_CONFIG")
  BY <1>0, KindOfUpdates DEF Begin
<1>2. pc'[r] = "register"
  BY <1>0, RequestsAssumption DEF Begin, Goto, TypeOK
<1>3. \A s \in Updates \ {r} : ~Active(s)'
  <2>1. \A s \in Updates \ {r} : s \in Requests /\ Kind(s) = Kind(r) /\ pc'[s] = pc[s]
    BY <1>0, KindOfUpdates DEF Requests, Begin, Goto, TypeOK
  <2> QED
    BY <1>1, <2>1 DEF Others, Active
<1>4. Quiet
  BY <1>1, MessageParts, KindOfUpdates DEF Travelling, Quiet, Commands, Answers
<1>5. Quiet'
  BY <1>4 DEF Begin, Quiet, Commands, Answers
<1> QED
  BY <1>2, <1>3, <1>5 DEF Undisturbed

(* The backend hears the device. *)
LEMMA HandleStep ==
    ASSUME TypeOK, NEW r \in Updates, Undisturbed(r), Active(r), Handle
    PROVE  Undisturbed(r)'
<1>0. /\ r \in Requests /\ r # None
      /\ \A i \in Answers' : i + 1 \in Answers /\ status'[i] = status[i + 1]
      /\ 1 \in 1..Len(status) /\ Head(status) = status[1]
      /\ Head(status).kind = "UPDATE_CONFIG" => 1 \in Answers
      /\ Head(status).kind \in Kinds
  BY AnswerGoes, MessageParts, RequestsAssumption DEF Handle, Requests
<1>1. /\ UNCHANGED <<pc, part, control, obeyed>>
      /\ \A i \in Commands' : i + 0 \in Commands /\ control'[i] = control[i + 0]
      /\ \A s \in Updates \ {r} : Active(s)' => Active(s)
  BY DEF Handle, Commands, Active
<1>2. CASE channel'[r] = channel[r]
  BY <1>0, <1>1, <1>2, StaysUndisturbed
<1>3. CASE channel'[r] # channel[r]
  <2>1. /\ Head(status).good /\ slot[Head(status).kind] = r
        /\ channel[r] = "open" /\ channel'[r] = "sent"
    BY <1>0, <1>3 DEF Handle, TypeOK
  <2>2. 1 \in Answers
    BY <1>0, <2>1, KindOfUpdates DEF TypeOK
  <2>3. pc[r] = "wait"
    BY <2>2 DEF Undisturbed, Active, Quiet
  <2>4. Answers' = {} /\ Commands' = {}
    <3>1. \A i \in Answers : i = 1
      BY <2>2, <2>3 DEF Undisturbed, Current
    <3>2. Answers' \subseteq Nat /\ \A i \in Answers' : i # 0
      BY DEF Answers
    <3>3. Commands = {}
      BY <2>2, <2>3 DEF Undisturbed, Current
    <3> QED
      BY <1>0, <1>1, <3>1, <3>2, <3>3
  <2>5. <<r, part[r]>> \in obeyed
    BY <1>0, <2>1, <2>2, <2>3 DEF Undisturbed, Current
  <2>6. Current(r)' /\ Quiet'
    BY <2>4 DEF Current, Quiet
  <2> QED
    BY <1>1, <2>3, <2>5, <2>6 DEF Undisturbed, Active
<1> QED
  BY <1>2, <1>3

(* The device obeys, or refuses, a command of the update, or a ping. *)
LEMMA DeviceStep ==
    ASSUME TypeOK, NEW r \in Updates, Undisturbed(r), Active(r), Obey \/ Refuse
    PROVE  Undisturbed(r)'
<1>0. /\ control # <<>> /\ control' = Tail(control)
      /\ UNCHANGED <<pc, part, channel>> /\ obeyed \subseteq obeyed'
      /\ \E success \in BOOLEAN :
            /\ Answer(Kind(Head(control)[1]), success)
            /\ success => Head(control) \in obeyed'
  <2>1. CASE Obey
    BY <2>1, SentFacts DEF Obey, requests
  <2>2. CASE Refuse
    BY <2>2, SentFacts, KindOfUpdates DEF Refuse, requests, Requests
  <2> QED
    BY <2>1, <2>2
<1>1. /\ \A i \in Commands' : i + 1 \in Commands /\ control'[i] = control[i + 1]
      /\ 1 \in 1..Len(control) /\ Head(control) = control[1]
      /\ Head(control)[1] \in Updates => 1 \in Commands
      /\ Head(control)[1] \in Requests
  BY <1>0, CommandGoes, MessageParts
<1>2. PICK success \in BOOLEAN :
          /\ Answer(Kind(Head(control)[1]), success)
          /\ success => Head(control) \in obeyed'
  BY <1>0
<1>3. \A i \in Answers' :
          \/ i \in Answers /\ status'[i] = status[i]
          \/ /\ i = Len(status) + 1 /\ Head(control)[1] \in Updates
             /\ status'[i].good = success
  BY <1>1, <1>2, AnswerComes, KindType, KindOfUpdates
<1>4. \A s \in Updates \ {r} : Active(s)' => Active(s)
  BY <1>0 DEF Active
<1>5. CASE Head(control)[1] \notin Updates
  <2>1. \A i \in Answers' : i + 0 \in Answers /\ status'[i] = status[i + 0]
    <3>1. Answers' \subseteq Nat
      BY DEF Answers
    <3> QED
      BY <1>3, <1>5, <3>1
  <2> QED
    BY <1>0, <1>1, <1>4, <2>1, StaysUndisturbed
<1>6. CASE Head(control)[1] \in Updates
  <2>1. 1 \in Commands
    BY <1>1, <1>6
  <2>2. pc[r] = "wait" /\ Current(r) /\ channel[r] # "sent"
    BY <2>1 DEF Undisturbed, Active, Quiet
  <2>3. Answers = {} /\ Head(control) = <<r, part[r]>>
    BY <1>1, <2>1, <2>2 DEF Current
  <2>4. Commands' = {}
    <3>1. \A i \in Commands : i = 1
      BY <2>1, <2>2 DEF Current
    <3>2. \A i \in Commands' : i \in Nat /\ i # 0
      BY DEF Commands
    <3> QED
      BY <1>1, <3>1, <3>2
  <2>5. Current(r)'
    BY <1>0, <1>2, <1>3, <2>3, <2>4 DEF Current
  <2> QED
    BY <1>0, <1>4, <2>2, <2>5 DEF Undisturbed, Active
<1> QED
  BY <1>5, <1>6

(* A second answer disturbs the update that runs. *)
LEMMA StrayStep ==
    ASSUME TypeOK, NEW r \in Updates, Undisturbed(r), Active(r), r \notin mixed',
           NEW kind \in Kinds, Stray(kind)
    PROVE  Undisturbed(r)'
<1>0. r \in Requests
  BY DEF Requests
<1>1. kind # "UPDATE_CONFIG"
  BY <1>0, KindOfUpdates DEF Stray
<1>2. \A i \in Answers' : i + 0 \in Answers /\ status'[i] = status[i + 0]
  <2>1. Answers' \subseteq Nat
    BY DEF Answers
  <2>2. \A i \in Answers' : \/ i \in Answers /\ status'[i] = status[i]
                            \/ kind = "UPDATE_CONFIG"
    BY AnswerComes, TRUE \in BOOLEAN DEF Stray
  <2> QED
    BY <1>1, <2>1, <2>2
<1>3. \A i \in Commands' : i + 0 \in Commands /\ control'[i] = control[i + 0]
  BY DEF Stray, Commands
<1> QED
  BY <1>2, <1>3, StaysUndisturbed DEF Stray, requests, Active

(* The broker loses a message. *)
LEMMA LossStep ==
    ASSUME TypeOK, NEW r \in Updates, Undisturbed(r), LoseCommand \/ LoseAnswer
    PROVE  Undisturbed(r)'
<1>1. CASE LoseCommand
  <2>1. \A i \in Answers' : i + 0 \in Answers /\ status'[i] = status[i + 0]
    BY <1>1 DEF LoseCommand, Answers
  <2> QED
    BY <1>1, <2>1, SentFacts, CommandGoes, StaysUndisturbed DEF LoseCommand, requests, Active
<1>2. CASE LoseAnswer
  <2>1. \A i \in Commands' : i + 0 \in Commands /\ control'[i] = control[i + 0]
    BY <1>2 DEF LoseAnswer, Commands
  <2> QED
    BY <1>2, <2>1, AnswerGoes, StaysUndisturbed DEF LoseAnswer, requests, Active
<1> QED
  BY <1>1, <1>2

(* Another request disturbs the update, or is of the other kind. *)
LEMMA OtherStep ==
    ASSUME TypeOK, NEW r \in Updates, Undisturbed(r), Active(r), r \notin mixed',
           NEW s \in Requests \ {r}, Begin(s) \/ Runs(s)
    PROVE  Undisturbed(r)'
<1>0. r \in Requests
  BY DEF Requests
<1>1. s \notin Updates
  <2>1. CASE Begin(s) /\ s \in Updates
    <3>1. r \in Others(s)
      BY <1>0, <2>1, KindOfUpdates DEF Others
    <3> QED
      BY <2>1, <3>1 DEF Begin
  <2>2. CASE Runs(s) /\ s \in Updates
    BY <2>2, RunsActive DEF Undisturbed
  <2> QED
    BY <2>1, <2>2
<1>2. s \in Pings
  BY <1>1 DEF Requests
<1>3. /\ pc'[r] = pc[r] /\ part'[r] = part[r] /\ channel'[r] = channel[r]
      /\ \A i \in Commands' : i + 0 \in Commands /\ control'[i] = control[i + 0]
      /\ \A i \in Answers' : i + 0 \in Answers /\ status'[i] = status[i + 0]
      /\ obeyed \subseteq obeyed'
      /\ \A u \in Updates \ {r} : Active(u)' => Active(u)
  BY <1>2, PingStep DEF Active
<1> QED
  BY <1>3, StaysUndisturbed

LEMMA MixedGrows ==
    ASSUME [Next]_vars
    PROVE  mixed \subseteq mixed'
<1>1. ASSUME NEW r \in Requests, Begin(r) \/ Runs(r) PROVE mixed \subseteq mixed'
  BY <1>1 DEF Begin, Runs, Register, Publish, PublishFails, Answered, Dropped, Timeout
<1>2. ASSUME NEW kind, Stray(kind) PROVE mixed \subseteq mixed'
  BY <1>2 DEF Stray
<1> QED
  BY <1>1, <1>2 DEF Next, Handle, Send, Obey, Refuse, Type, Resend, LoseCommand, LoseAnswer, vars

LEMMA AloneStep == TypeOK /\ Alone /\ [Next]_vars => Alone'
<1> SUFFICES ASSUME TypeOK, Alone, [Next]_vars,
                    NEW r \in Updates, r \notin mixed', Active(r)'
             PROVE  Undisturbed(r)'
  BY DEF Alone
<1>0. r \in Requests /\ r \notin mixed
  BY MixedGrows DEF Requests
<1>1. Active(r) => Undisturbed(r)
  BY <1>0 DEF Alone
<1>2. ASSUME NEW s \in Requests, s # r, Begin(s) \/ Runs(s) PROVE Undisturbed(r)'
  <2>1. pc'[r] = pc[r]
    BY <1>0, <1>2 DEF TypeOK, Begin, Runs, Register, Publish, PublishFails, Answered,
                      Dropped, Timeout, Goto
  <2> QED
    BY <1>1, <1>2, <2>1, OtherStep DEF Active
<1>3. CASE Begin(r)
  BY <1>3, OwnBegin
<1>4. CASE Runs(r)
  BY <1>0, <1>1, <1>4, RunsActive, OwnStep
<1>5. CASE Handle
  BY <1>1, <1>5, HandleStep DEF Handle, Active
<1>6. CASE Obey \/ Refuse
  BY <1>1, <1>6, DeviceStep DEF Obey, Refuse, requests, Active
<1>7. ASSUME NEW kind \in Kinds, Stray(kind) PROVE Undisturbed(r)'
  BY <1>1, <1>7, StrayStep DEF Stray, requests, Active
<1>8. CASE LoseCommand \/ LoseAnswer
  BY <1>1, <1>8, LossStep DEF LoseCommand, LoseAnswer, requests, Active
<1>9. CASE Send \/ UNCHANGED vars
  <2>1. /\ \A i \in Commands' : i + 0 \in Commands /\ control'[i] = control[i + 0]
        /\ \A i \in Answers' : i + 0 \in Answers /\ status'[i] = status[i + 0]
    BY <1>9 DEF Send, vars, Commands, Answers
  <2> QED
    BY <1>1, <1>9, <2>1, StaysUndisturbed DEF Send, vars, requests, Active
<1>10. CASE Type \/ Resend
  BY <1>7, <1>10, KindType DEF Type, Resend, Kinds
<1> QED
  BY <1>2, <1>3, <1>4, <1>5, <1>6, <1>8, <1>9, <1>10 DEF Next

-----------------------------------------------------------------------------
(* A step that obeys nothing, sends nothing and moves no update on. *)
LEMMA ProgressKept ==
    ASSUME TypeOK, NEW r \in Updates, ObeyedSoFar(r),
           part'[r] = part[r], pc'[r] = "ok" => pc[r] = "ok", obeyed' = obeyed,
           NEW m \in {0, 1},
           \A i \in 1..Len(control') : i + m \in 1..Len(control) /\ control'[i] = control[i + m]
    PROVE  ObeyedSoFar(r)'
  BY DEF ObeyedSoFar

LEMMA ProgressStep == IInv /\ [Next]_vars => Progress'
<1> SUFFICES ASSUME IInv, [Next]_vars, NEW r \in Updates, r \notin mixed'
             PROVE  ObeyedSoFar(r)'
  BY DEF Progress
<1>0. /\ r \in Requests /\ r \notin mixed /\ TypeOK
      /\ ObeyedSoFar(r)
      /\ Active(r) => Undisturbed(r)
      /\ part[r] \in 1..Parts /\ Parts \in Nat
  BY MixedGrows, RequestsAssumption DEF IInv, Alone, Progress, Requests, TypeOK
<1>1. ASSUME NEW s \in Requests, Publish(s) PROVE ObeyedSoFar(r)'
  <2>1. \A i \in 1..Len(control') :
            \/ i \in 1..Len(control) /\ control'[i] = control[i]
            \/ control'[i] = <<s, part[s]>>
    BY <1>0, <1>1, CommandComes
  <2>2. part' = part /\ obeyed' = obeyed /\ (pc'[r] = "ok" => pc[r] = "ok")
    BY <1>0, <1>1 DEF Publish, Goto, TypeOK
  <2>3. \A i \in 1..Len(control') : control'[i][1] = r => control'[i][2] <= part[r]
    BY <1>0, <2>1 DEF ObeyedSoFar
  <2> QED
    BY <1>0, <2>2, <2>3 DEF ObeyedSoFar
<1>2. CASE Answered(r)
  <2>1. pc[r] = "wait" /\ channel[r] = "sent" /\ UNCHANGED <<control, obeyed>>
    BY <1>2 DEF Answered
  <2>2. <<r, part[r]>> \in obeyed
    BY <1>0, <2>1 DEF Active, Undisturbed
  <2>3. Steps(r) = 1..Parts
    BY <1>0, RequestsAssumption DEF Steps
  <2>4. CASE part[r] + 1 \in 1..Parts
    <3>1. part'[r] = part[r] + 1 /\ pc'[r] # "ok"
      BY <1>0, <1>2, <2>3, <2>4 DEF Answered, Goto, TypeOK
    <3>2. \A p \in 1..Parts : p < part'[r] => p < part[r] \/ p = part[r]
      BY <1>0, <3>1
    <3> QED
      BY <1>0, <2>1, <2>2, <3>1, <3>2, MessageParts DEF ObeyedSoFar
  <2>5. CASE part[r] + 1 \notin 1..Parts
    <3>1. part'[r] = part[r] /\ part[r] = Parts
      BY <1>0, <1>2, <2>3, <2>5 DEF Answered
    <3>2. \A p \in 1..Parts : p < part[r] \/ p = part[r]
      BY <1>0, <3>1
    <3> QED
      BY <1>0, <2>1, <2>2, <3>1, <3>2 DEF ObeyedSoFar
  <2> QED
    BY <2>4, <2>5
<1>3. CASE Obey
  <2>1. /\ control # <<>> /\ control' = Tail(control)
        /\ obeyed' = obeyed \cup {Head(control)} /\ UNCHANGED <<pc, part>>
    BY <1>0, <1>3, SentFacts DEF Obey, requests
  <2>2. /\ \A i \in 1..Len(control') : i + 1 \in 1..Len(control) /\ control'[i] = control[i + 1]
        /\ 1 \in 1..Len(control) /\ Head(control) = control[1]
    BY <1>0, <2>1, CommandGoes
  <2>3. \A p \in 1..Parts : <<r, p>> = Head(control) => p <= part[r]
    BY <1>0, <2>2 DEF ObeyedSoFar
  <2> QED
    BY <1>0, <2>1, <2>2, <2>3 DEF ObeyedSoFar
<1>4. CASE Refuse \/ LoseCommand
  <2>1. /\ control # <<>> /\ control' = Tail(control) /\ UNCHANGED <<pc, part, obeyed>>
    BY <1>0, <1>4, SentFacts DEF Refuse, LoseCommand, requests
  <2> QED
    BY <1>0, <2>1, CommandGoes, ProgressKept
<1>5. ASSUME UNCHANGED <<control, obeyed>>, part'[r] = part[r], pc'[r] = "ok" => pc[r] = "ok"
      PROVE  ObeyedSoFar(r)'
  <2>1. \A i \in 1..Len(control') : i + 0 \in 1..Len(control) /\ control'[i] = control[i + 0]
    BY <1>5
  <2> QED
    BY <1>0, <1>5, <2>1, ProgressKept
<1>6. ASSUME NEW s \in Requests,
             \/ Begin(s) \/ Register(s) \/ PublishFails(s) \/ Dropped(s) \/ Timeout(s)
             \/ s # r /\ Answered(s)
      PROVE  ObeyedSoFar(r)'
  <2>1. UNCHANGED <<control, obeyed>> /\ part'[r] = part[r]
    BY <1>0, <1>6 DEF Begin, Register, PublishFails, Dropped, Timeout, Answered, TypeOK
  <2>2. pc'[r] = "ok" => pc[r] = "ok"
    BY <1>0, <1>6 DEF Begin, Register, PublishFails, Dropped, Timeout, Answered, Goto, TypeOK
  <2> QED
    BY <1>5, <2>1, <2>2
<1>7. CASE Handle \/ Send \/ LoseAnswer \/ Type \/ Resend \/ UNCHANGED vars
  <2>1. UNCHANGED <<control, obeyed, part, pc>>
    BY <1>7 DEF Handle, Send, LoseAnswer, Type, Resend, Stray, vars, requests
  <2> QED
    BY <1>5, <2>1
<1> QED
  BY <1>1, <1>2, <1>3, <1>4, <1>6, <1>7 DEF Next, Runs

-----------------------------------------------------------------------------
LEMMA InvInit == Init => IInv
<1> SUFFICES ASSUME Init PROVE IInv
  OBVIOUS
<1>1. TypeOK
  BY RequestsAssumption DEF Init, TypeOK, Requests, Kinds
<1>2. Alone
  BY DEF Init, Alone, Active, Requests
<1>3. Progress
  BY RequestsAssumption DEF Init, Progress, ObeyedSoFar, Requests
<1> QED
  BY <1>1, <1>2, <1>3 DEF IInv

LEMMA Invariant == Spec => []IInv
<1>1. IInv /\ [Next]_vars => IInv'
  BY TypeStep, AloneStep, ProgressStep DEF IInv
<1> QED
  BY InvInit, <1>1, PTL DEF Spec

(* 200 means that the device has obeyed every parameter, for an update     *)
(* that was alone, however many requests there are before and after it.    *)
THEOREM ConfirmedIsAlwaysApplied == Spec => []ConfirmedIsApplied
<1>1. IInv => ConfirmedIsApplied
  BY RequestsAssumption DEF IInv, Progress, ObeyedSoFar, ConfirmedIsApplied, Steps
<1> QED
  BY <1>1, Invariant, PTL

(* The parameters of an update that was alone are applied in order, also   *)
(* when it ends halfway and its last command arrives after that.           *)
THEOREM AlwaysAppliedInOrder == Spec => []AppliedInOrder
<1>1. IInv => AppliedInOrder
  <2> SUFFICES ASSUME IInv, NEW r \in Updates \ mixed, NEW p \in Steps(r), <<r, p>> \in obeyed,
                      NEW q \in 1..p
               PROVE  <<r, q>> \in obeyed
    BY DEF AppliedInOrder
  <2>1. /\ p \in 1..Parts /\ q \in 1..Parts /\ part[r] \in 1..Parts /\ Parts \in Nat
        /\ ObeyedSoFar(r)
    BY RequestsAssumption DEF Steps, IInv, TypeOK, Progress, Requests
  <2>2. q = p \/ q < part[r]
    BY <2>1 DEF ObeyedSoFar
  <2> QED
    BY <2>1, <2>2 DEF ObeyedSoFar
<1> QED
  BY <1>1, Invariant, PTL

=============================================================================
