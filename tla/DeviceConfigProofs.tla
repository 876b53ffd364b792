------------------------- MODULE DeviceConfigProofs -------------------------
(***************************************************************************)
(* Proofs about DeviceConfig, for every set of tasks, parameters and       *)
(* values, and whatever may fail.                                          *)
(***************************************************************************)
EXTENDS DeviceConfig, TLAPS

-----------------------------------------------------------------------------
(* The inductive invariant.  A clean parameter is in one of these states:  *)
(* a task has set its entry, or has also copied it to RAM, and is alone;   *)
(* or the three places agree, and tasks may be about to say so.  What is   *)
(* stored fits its field, so that a start does not refuse it.              *)

Storing(t, k) == step[t] \in {"copy", "commit"} /\ Key(t) = k

StorerIsAlone(k) ==
    \A t \in Tasks : Storing(t, k) => Alone(t) /\ OwnEntry(t) /\ Fits(k, Value(t))

StorerHasSet(k) ==
    \A t \in Tasks : Storing(t, k) =>
        /\ page[k] = Value(t)
        /\ step[t] = "commit" => ram[k] = Value(t)
        /\ acked[k] = None

SameIsSame(k) == \A t \in Tasks : step[t] = "same" /\ Key(t) = k => ram[k] = Value(t)

AtRest(k) ==
    (\A t \in Tasks : ~Storing(t, k)) =>
        /\ ram[k] = page[k]
        /\ page[k] = flash[k]
        /\ Fits(k, page[k])
        /\ acked[k] # None => acked[k] = ram[k]

CleanIsKept ==
    \A k \in Mirrored :
        clean[k] => StorerIsAlone(k) /\ StorerHasSet(k) /\ SameIsSame(k) /\ AtRest(k)

IInv == TypeOK /\ CleanIsKept

-----------------------------------------------------------------------------
LEMMA TypeStep == TypeOK /\ [Next]_vars => TypeOK'
<1> SUFFICES ASSUME TypeOK, [Next]_vars PROVE TypeOK'
  OBVIOUS
<1> USE DEF TypeOK, Goto, Done, Steps, stores
<1>1. ASSUME NEW t \in Tasks, NEW k \in Keys, NEW v \in Values, NEW typed \in Typed,
             Call(t, k, v, typed)
      PROVE  TypeOK'
  BY <1>1 DEF Call, Jobs
<1>2. ASSUME NEW t \in Tasks, step[t] # "idle"
      PROVE  Key(t) \in Keys /\ Value(t) \in Values
  BY <1>2 DEF Key, Value, Jobs
<1>3. ASSUME NEW t \in Tasks, OpenFails(t) \/ SetFails(t) PROVE TypeOK'
  BY <1>3 DEF OpenFails, SetFails
<1>4. ASSUME NEW t \in Tasks, Check(t) PROVE TypeOK'
  <2>1. (clean[Key(t)] /\ Alone(t)) \in BOOLEAN
    OBVIOUS
  <2> QED
    BY <1>2, <1>4, <2>1 DEF Check
<1>5. ASSUME NEW t \in Tasks, AnswerSame(t) PROVE TypeOK'
  BY <1>2, <1>5 DEF AnswerSame
<1>6. ASSUME NEW t \in Tasks, Set(t) PROVE TypeOK'
  BY <1>2, <1>6 DEF Set
<1>7. ASSUME NEW t \in Tasks, Copy(t) PROVE TypeOK'
  BY <1>2, <1>7 DEF Copy
<1>8. ASSUME NEW t \in Tasks, CommitFails(t) PROVE TypeOK'
  BY <1>2, <1>8 DEF CommitFails
<1>9. ASSUME NEW t \in Tasks, Commit(t) PROVE TypeOK'
  BY <1>2, <1>9 DEF Commit
<1>10. CASE Erase
  BY <1>10, ConfigAssumption DEF Erase
<1>11. CASE Restart \/ RestartBlind
  <2>1. page' \in [Keys -> Values] /\ flash' = page' /\ ram' \in [Keys -> Values]
    BY <1>11, ConfigAssumption DEF Restart, RestartBlind, Load
  <2>2. /\ acked' \in [Keys -> Values \cup {None}]
        /\ step' = [t \in Tasks |-> "idle"] /\ job' = [t \in Tasks |-> None]
    BY <1>11 DEF Restart, RestartBlind, Stop
  <2>3. clean' \in [Keys -> BOOLEAN] /\ erased' \in BOOLEAN
    BY <1>11 DEF Restart, RestartBlind
  <2> QED
    BY <2>1, <2>2, <2>3
<1>12. CASE UNCHANGED vars
  BY <1>12 DEF vars
<1> QED
  BY <1>1, <1>3, <1>4, <1>5, <1>6, <1>7, <1>8, <1>9, <1>10, <1>11, <1>12 DEF Next, Update

LEMMA TypeInit == Init => TypeOK
<1> SUFFICES ASSUME Init PROVE TypeOK
  OBVIOUS
<1>1. ram \in [Keys -> Values] /\ page = ram /\ flash = ram
  BY ConfigAssumption DEF Init
<1>2. /\ step \in [Tasks -> Steps] /\ \A t \in Tasks : step[t] = "idle"
      /\ job \in [Tasks -> Jobs \cup {None}]
  BY DEF Init, Steps
<1>3. acked \in [Keys -> Values \cup {None}] /\ clean \in [Keys -> BOOLEAN] /\ erased \in BOOLEAN
  BY DEF Init
<1> QED
  BY <1>1, <1>2, <1>3 DEF TypeOK

(* Every variable keeps to its values. *)
THEOREM TypeCorrect == Spec => []TypeOK
  BY TypeInit, TypeStep, PTL DEF Spec

-----------------------------------------------------------------------------
(* A step of a task changes nothing of a parameter that is not its own. *)
Quiet(t, k) ==
    /\ clean'[k] => clean[k]
    /\ ram'[k] = ram[k] /\ page'[k] = page[k] /\ flash'[k] = flash[k] /\ acked'[k] = acked[k]
    /\ \A s \in Tasks \ {t} : step'[s] = step[s] /\ job'[s] = job[s]
    /\ ~(step[t] \in {"copy", "commit"} /\ Key(t) = k)
    /\ ~(step'[t] \in {"same", "copy", "commit"} /\ job'[t].key = k)

Kept(k) == StorerIsAlone(k) /\ StorerHasSet(k) /\ SameIsSame(k) /\ AtRest(k)

LEMMA QuietKeeps ==
    ASSUME NEW t \in Tasks, NEW k \in Keys, Quiet(t, k), Kept(k)
    PROVE  Kept(k)'
<1> USE DEF Quiet, Kept, Key, Value
<1>1. \A s \in Tasks : Storing(s, k)' => s # t /\ Storing(s, k)
  BY DEF Storing
<1>2. \A s \in Tasks : Storing(s, k) => s # t /\ Storing(s, k)'
  BY DEF Storing
<1>3. \A s \in Tasks : Writing(s, k)' => Writing(s, k)
  BY DEF Writing
<1>4. StorerIsAlone(k)'
  <2> SUFFICES ASSUME NEW s \in Tasks, Storing(s, k)'
               PROVE  Alone(s)' /\ OwnEntry(s)' /\ Fits(k, Value(s))'
    BY DEF StorerIsAlone
  <2>1. s # t /\ Alone(s) /\ OwnEntry(s) /\ Fits(k, Value(s)) /\ Key(s) = k /\ job'[s] = job[s]
    BY <1>1 DEF StorerIsAlone, Storing
  <2> QED
    BY <1>3, <2>1 DEF Alone, OwnEntry, Fits
<1>5. StorerHasSet(k)'
  <2> SUFFICES ASSUME NEW s \in Tasks, Storing(s, k)'
               PROVE  /\ page'[k] = Value(s)'
                      /\ step'[s] = "commit" => ram'[k] = Value(s)'
                      /\ acked'[k] = None
    BY DEF StorerHasSet
  <2>1. s # t /\ Storing(s, k)
    BY <1>1
  <2> QED
    BY <2>1 DEF StorerHasSet
<1>6. SameIsSame(k)'
  BY DEF SameIsSame
<1>7. AtRest(k)'
  BY <1>2 DEF AtRest
<1> QED
  BY <1>4, <1>5, <1>6, <1>7

-----------------------------------------------------------------------------
(* A task that is about its own parameter. *)
LEMMA CheckKeeps ==
    ASSUME NEW t \in Tasks, TypeOK, Check(t), NEW k \in Keys, k = Key(t),
           clean'[k], clean[k] => Kept(k)
    PROVE  Kept(k)'
<1>1. /\ Key(t)' = k /\ Value(t)' = Value(t)
      /\ UNCHANGED <<ram, page, flash, acked, job>>
  BY DEF Check, Goto, stores, TypeOK, Key, Value, Jobs
<1>2. /\ \A s \in Tasks \ {t} : step'[s] = step[s]
      /\ step[t] = "check"
  BY DEF Check, Goto, TypeOK
<1>3. CASE ram[k] # Value(t)
  <2>1. clean[k] /\ step'[t] = "set"
    BY <1>1, <1>3 DEF Check, Goto, TypeOK
  <2>2. Quiet(t, k)
    BY <1>1, <1>2, <2>1 DEF Quiet
  <2> QED
    BY <1>1, <2>1, <2>2, QuietKeeps
<1>4. CASE ram[k] = Value(t)
  <2>1. clean[k] /\ Alone(t) /\ step'[t] = "same"
    BY <1>1, <1>4 DEF Check, Goto, TypeOK
  <2>2. Kept(k)
    BY <2>1
  <2>3. \A s \in Tasks : ~Storing(s, k)'
    BY <1>1, <1>2, <2>1 DEF Alone, Storing, Writing, Key
  <2>4. \A s \in Tasks : ~Storing(s, k)
    BY <1>2, <2>1 DEF Alone, Storing, Writing
  <2>5. AtRest(k)'
    BY <1>1, <2>2, <2>4 DEF Kept, AtRest
  <2>6. SameIsSame(k)'
    BY <1>1, <1>2, <1>4, <2>2 DEF Kept, SameIsSame, Key, Value
  <2> QED
    BY <1>1, <2>3, <2>5, <2>6 DEF Kept, StorerIsAlone, StorerHasSet
<1> QED
  BY <1>3, <1>4

LEMMA AnswerKeeps ==
    ASSUME NEW t \in Tasks, TypeOK, AnswerSame(t), NEW k \in Keys, k = Key(t), clean[k], Kept(k)
    PROVE  Kept(k)'
<1>1. /\ UNCHANGED <<ram, page, flash>>
      /\ acked'[k] = Value(t)
      /\ step[t] = "same"
      /\ step'[t] = "idle"
      /\ \A s \in Tasks \ {t} : step'[s] = step[s] /\ job'[s] = job[s]
  BY DEF AnswerSame, Done, stores, TypeOK
<1>2. ram[k] = Value(t)
  BY <1>1 DEF Kept, SameIsSame
<1>3. \A s \in Tasks : ~Storing(s, k)
  BY <1>1 DEF Kept, StorerIsAlone, Alone, Storing, Writing
<1>4. \A s \in Tasks : ~Storing(s, k)'
  BY <1>1, <1>3 DEF Storing, Key
<1>5. AtRest(k)'
  BY <1>1, <1>2, <1>3 DEF Kept, AtRest
<1>6. SameIsSame(k)'
  BY <1>1 DEF Kept, SameIsSame, Key, Value
<1> QED
  BY <1>4, <1>5, <1>6 DEF Kept, StorerIsAlone, StorerHasSet

LEMMA SetKeeps ==
    ASSUME NEW t \in Tasks, TypeOK, Set(t), NEW k \in Keys, k = Key(t), clean'[k]
    PROVE  Kept(k)'
<1>1. /\ OwnEntry(t) /\ Alone(t) /\ Fits(k, Value(t))
      /\ page'[k] = Value(t) /\ acked'[k] = None
      /\ step[t] = "set" /\ step'[t] = "copy" /\ job' = job
      /\ \A s \in Tasks \ {t} : step'[s] = step[s]
  BY DEF Set, Goto, TypeOK
<1>2. \A s \in Tasks \ {t} : ~Writing(s, k)'
  BY <1>1 DEF Alone, Writing, Key
<1>3. \A s \in Tasks : Storing(s, k)' => s = t
  BY <1>2 DEF Storing, Writing
<1>4. Storing(t, k)'
  BY <1>1 DEF Storing, Key
<1>5. StorerIsAlone(k)'
  BY <1>1, <1>2, <1>3 DEF StorerIsAlone, Alone, OwnEntry, Fits, Key, Value
<1>6. StorerHasSet(k)'
  BY <1>1, <1>3 DEF StorerHasSet, Value
<1>7. SameIsSame(k)'
  BY <1>1, <1>2 DEF SameIsSame, Writing
<1> QED
  BY <1>4, <1>5, <1>6, <1>7 DEF Kept, AtRest

LEMMA CopyKeeps ==
    ASSUME NEW t \in Tasks, TypeOK, Copy(t), NEW k \in Mirrored, k = Key(t), Kept(k)
    PROVE  Kept(k)'
<1>1. /\ ram'[k] = Value(t)
      /\ UNCHANGED <<page, acked, job>>
      /\ step[t] = "copy" /\ step'[t] = "commit"
      /\ \A s \in Tasks \ {t} : step'[s] = step[s]
  BY DEF Copy, Copied, Goto, TypeOK, Mirrored
<1>2. Storing(t, k)
  BY <1>1 DEF Storing
<1>3. Alone(t) /\ OwnEntry(t) /\ Fits(k, Value(t)) /\ page[k] = Value(t) /\ acked[k] = None
  BY <1>2 DEF Kept, StorerIsAlone, StorerHasSet
<1>4. \A s \in Tasks \ {t} : ~Writing(s, k)'
  BY <1>1, <1>3 DEF Alone, Writing, Key
<1>5. \A s \in Tasks : Storing(s, k)' => s = t
  BY <1>4 DEF Storing, Writing
<1>6. Storing(t, k)'
  BY <1>1 DEF Storing, Key
<1>7. StorerIsAlone(k)'
  BY <1>1, <1>3, <1>4, <1>5 DEF StorerIsAlone, Alone, OwnEntry, Fits, Key, Value
<1>8. StorerHasSet(k)'
  BY <1>1, <1>3, <1>5 DEF StorerHasSet, Value
<1>9. SameIsSame(k)'
  BY <1>1, <1>4 DEF SameIsSame, Writing
<1> QED
  BY <1>6, <1>7, <1>8, <1>9 DEF Kept, AtRest

LEMMA CommitKeeps ==
    ASSUME NEW t \in Tasks, TypeOK, Commit(t), NEW k \in Mirrored, k = Key(t),
           clean'[k], clean[k] => Kept(k)
    PROVE  Kept(k)'
<1>1. k \in Keys
  BY DEF Mirrored
<1>2. /\ Alone(t) /\ OwnEntry(t) /\ Fits(k, Value(t))
      /\ clean[k] \/ (ram[k] = Value(t) /\ page[k] = Value(t))
      /\ flash'[k] = page[k] /\ acked'[k] = Value(t)
      /\ UNCHANGED <<ram, page>>
      /\ step[t] = "commit" /\ step'[t] = "idle"
      /\ \A s \in Tasks \ {t} : step'[s] = step[s] /\ job'[s] = job[s]
  BY <1>1 DEF Commit, Done, TypeOK
<1>3. ram[k] = Value(t) /\ page[k] = Value(t)
  BY <1>2 DEF Kept, StorerHasSet, Storing
<1>4. \A s \in Tasks : ~Writing(s, k)'
  BY <1>2 DEF Alone, Writing, Key
<1> QED
  BY <1>2, <1>3, <1>4
     DEF Kept, StorerIsAlone, StorerHasSet, SameIsSame, AtRest, Storing, Writing, Fits

-----------------------------------------------------------------------------
LEMMA KeptStep ==
    ASSUME IInv, [Next]_vars, NEW k \in Mirrored, clean'[k]
    PROVE  Kept(k)'
<1>1. /\ TypeOK /\ k \in Keys
      /\ clean[k] => Kept(k)
  BY DEF IInv, CleanIsKept, Kept, Mirrored
<1>2. ASSUME NEW t \in Tasks, Quiet(t, k) PROVE Kept(k)'
  BY <1>1, <1>2, QuietKeeps DEF Quiet
<1>3. ASSUME NEW t \in Tasks, NEW key \in Keys, NEW v \in Values, NEW typed \in Typed,
             Call(t, key, v, typed)
      PROVE  Kept(k)'
  <2>1. Quiet(t, k)
    BY <1>1, <1>3 DEF Call, Quiet, stores, TypeOK
  <2> QED
    BY <1>2, <2>1
<1>4. ASSUME NEW t \in Tasks, OpenFails(t) \/ SetFails(t) PROVE Kept(k)'
  <2>1. Quiet(t, k)
    BY <1>1, <1>4 DEF OpenFails, SetFails, Done, Quiet, stores, TypeOK
  <2> QED
    BY <1>2, <2>1
<1>5. ASSUME NEW t \in Tasks, k # Key(t),
             Check(t) \/ AnswerSame(t) \/ Set(t) \/ Copy(t) \/ CommitFails(t) \/ Commit(t)
      PROVE  Kept(k)'
  <2> USE DEF Quiet, Goto, Done, stores, TypeOK, Key
  <2>1. CASE Check(t)
    BY <1>1, <1>2, <1>5, <2>1 DEF Check
  <2>2. CASE AnswerSame(t)
    BY <1>1, <1>2, <1>5, <2>2 DEF AnswerSame
  <2>3. CASE Set(t)
    BY <1>1, <1>2, <1>5, <2>3 DEF Set
  <2>4. CASE Copy(t)
    <3>1. k \notin Copied(t) /\ k \notin Spoiled(t)
      BY <1>1, <1>5, <2>4 DEF Copy, Copied
    <3>2. ram'[k] = ram[k] /\ (clean'[k] => clean[k])
      BY <1>1, <2>4, <3>1 DEF Copy
    <3> QED
      BY <1>1, <1>2, <1>5, <2>4, <3>2 DEF Copy
  <2>5. CASE CommitFails(t)
    BY <1>1, <1>2, <1>5, <2>5 DEF CommitFails
  <2>6. CASE Commit(t)
    BY <1>1, <1>2, <1>5, <2>6 DEF Commit
  <2> QED
    BY <1>5, <2>1, <2>2, <2>3, <2>4, <2>5, <2>6
<1>6. ASSUME NEW t \in Tasks, k = Key(t),
             Check(t) \/ AnswerSame(t) \/ Set(t) \/ Copy(t) \/ CommitFails(t) \/ Commit(t)
      PROVE  Kept(k)'
  <2>1. CASE Check(t)
    BY <1>1, <1>6, <2>1, CheckKeeps
  <2>2. CASE AnswerSame(t)
    BY <1>1, <1>6, <2>2, AnswerKeeps DEF AnswerSame
  <2>3. CASE Set(t)
    BY <1>1, <1>6, <2>3, SetKeeps
  <2>4. CASE Copy(t)
    <3>1. clean[k]
      BY <1>1, <2>4 DEF Copy
    <3> QED
      BY <1>1, <1>6, <2>4, <3>1, CopyKeeps
  <2>5. CASE CommitFails(t)
    BY <1>1, <1>6, <2>5 DEF CommitFails, TypeOK
  <2>6. CASE Commit(t)
    BY <1>1, <1>6, <2>6, CommitKeeps
  <2> QED
    BY <1>6, <2>1, <2>2, <2>3, <2>4, <2>5, <2>6
<1>7. CASE Erase \/ RestartBlind
  BY <1>1, <1>7 DEF Erase, RestartBlind
<1>8. CASE Restart
  <2>1. \A t \in Tasks : step'[t] = "idle"
    BY <1>8 DEF Restart, Stop
  <2>2. PICK p \in [Keys -> Values] : Left(p) /\ ram' = Load(p)
    BY <1>8 DEF Restart
  <2>3. /\ ram'[k] = page'[k] /\ page'[k] = flash'[k]
        /\ acked'[k] = IF clean[k] THEN acked[k] ELSE None
    BY <1>1, <1>8 DEF Restart, Stop
  <2>4. p[k] \in {page[k], flash[k]} /\ ram'[k] = IF Fits(k, p[k]) THEN p[k] ELSE Default
    BY <1>1, <2>2 DEF Left, Load
  <2>5. Fits(k, page'[k])
    BY <2>3, <2>4, ConfigAssumption DEF Fits
  <2>6. acked'[k] # None => acked'[k] = ram'[k]
    BY <1>1, <2>3, <2>4 DEF Kept, AtRest, StorerHasSet
  <2> QED
    BY <2>1, <2>3, <2>5, <2>6 DEF Kept, StorerIsAlone, StorerHasSet, SameIsSame, AtRest, Storing, Fits
<1>9. CASE UNCHANGED vars
  BY <1>1, <1>9 DEF vars, stores, Kept, StorerIsAlone, StorerHasSet, SameIsSame, AtRest,
                    Storing, Alone, Writing, OwnEntry, Fits, Key, Value
<1> QED
  BY <1>3, <1>4, <1>5, <1>6, <1>7, <1>8, <1>9 DEF Next, Update

LEMMA Invariant == Spec => []IInv
<1>1. Init => IInv
  <2> SUFFICES ASSUME Init PROVE IInv
    OBVIOUS
  <2>1. TypeOK /\ \A t \in Tasks : step[t] = "idle"
    BY TypeInit DEF Init
  <2>2. \A k \in Mirrored :
            ram[k] = page[k] /\ page[k] = flash[k] /\ Fits(k, page[k]) /\ acked[k] = None
    BY ConfigAssumption DEF Init, Mirrored, Fits
  <2> QED
    BY <2>1, <2>2 DEF IInv, CleanIsKept, StorerIsAlone, StorerHasSet, SameIsSame, AtRest, Storing
<1>2. IInv /\ [Next]_vars => IInv'
  BY TypeStep, KeptStep DEF IInv, CleanIsKept, Kept
<1> QED
  BY <1>1, <1>2, PTL DEF Spec

(* A parameter that nobody is writing agrees in RAM, in its entry and in   *)
(* what is committed, unless something recorded in clean happened to it.   *)
THEOREM StoredIsRemembered == Spec => []MemoryIsStored
<1>1. IInv => MemoryIsStored
  BY DEF IInv, CleanIsKept, AtRest, MemoryIsStored, Storing, Writing
<1> QED
  BY <1>1, Invariant, PTL

(* A restart at any moment brings back what was acknowledged and not       *)
(* superseded.                                                             *)
THEOREM RestartIsFaithful == Spec => RestartRemembers
<1>1. IInv /\ [Next]_vars =>
          (Restart => \A k \in Mirrored :
              clean[k] /\ acked[k] # None => ram'[k] = acked[k])
  <2> SUFFICES ASSUME IInv, Restart, NEW k \in Mirrored, clean[k], acked[k] # None
               PROVE  ram'[k] = acked[k]
    OBVIOUS
  <2>1. StorerHasSet(k) /\ AtRest(k) /\ k \in Keys
    BY DEF IInv, CleanIsKept, Mirrored
  <2>2. ram[k] = page[k] /\ page[k] = flash[k] /\ Fits(k, page[k]) /\ acked[k] = ram[k]
    BY <2>1 DEF StorerHasSet, AtRest
  <2>3. PICK p \in [Keys -> Values] : Left(p) /\ ram' = Load(p)
    BY DEF Restart
  <2> QED
    BY <2>1, <2>2, <2>3 DEF Left, Load
<1> QED
  BY <1>1, Invariant, PTL DEF Spec, RestartRemembers

=============================================================================
