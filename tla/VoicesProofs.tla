---------------------------- MODULE VoicesProofs ----------------------------
(***************************************************************************)
(* Proofs about Voices, for every set of users and persons, every number   *)
(* of passphrases and of runs of the tool, and every number of changes     *)
(* while a verification is under way.                                      *)
(***************************************************************************)
EXTENDS Voices, FiniteSetTheorems, TLAPS

-----------------------------------------------------------------------------
(* The inductive invariant. *)

(* The history of a verification includes what the tables say now, and a  *)
(* user who has always been entitled is so now.                           *)
HistoryIsCurrent ==
    Active =>
        /\ Owners \subseteq owners /\ guests \subseteq accepted
        /\ enabled => allowed
        /\ Heard \subseteq heard
        /\ steady \subseteq Entitled

(* A candidate is known: his rights and his voice are in the history. *)
Known(u, p) == (u \in owners \/ (allowed /\ u \in accepted)) /\ <<u, p>> \in heard

(* The names and the voices of the candidates go together. *)
CandidatesAreKnown ==
    /\ at = "owner" =>
           Len(user_ids) = 1 /\ user_ids[1] \in owners
    /\ at \in {"owner", "guests"} /\ invited => allowed
    /\ at = "guests" => invited
    /\ at \in {"guests", "service"} =>
           /\ Len(user_ids) = Len(user_embeddings)
           /\ \A i \in 1..Len(user_ids) : Known(user_ids[i], user_embeddings[i])

(* Whoever has always been entitled is, or will be, a candidate. *)
EntitledIsCandidate ==
    \A uo \in steady :
        /\ at = "owner" => uo[2] = user_ids[1] /\ (uo[1] # uo[2] => invited)
        /\ at = "guests" /\ uo[1] = uo[2] =>
               \E i \in 1..Len(user_embeddings) : user_embeddings[i] = speaker
        /\ at = "service" =>
               \E i \in 1..Len(user_embeddings) : user_embeddings[i] = speaker

SpeakerIsKnown == Active => speaker # Null

(* A run of add_passphrase lists the device only while it has none. *)
RaceIsKnown == passphrase # 0 /\ tools > 0 => raced

IInv ==
    /\ TypeOK
    /\ HistoryIsCurrent
    /\ CandidatesAreKnown
    /\ EntitledIsCandidate
    /\ NamedSpoke
    /\ EntitledIsHeard
    /\ SpeakerIsKnown
    /\ RaceIsKnown
    /\ ProvenKeyStays

-----------------------------------------------------------------------------
(* The rows of a statement are a sequence of the set they come from, and   *)
(* none is missing.                                                        *)
LEMMA RowsFacts ==
    ASSUME NEW S, IsFiniteSet(S), NEW rows \in Rows(S)
    PROVE  /\ rows \in Seq(S) /\ DOMAIN rows = 1..Len(rows)
           /\ \A x \in S : \E i \in 1..Len(rows) : rows[i] = x
  <1>1. Cardinality(S) \in Nat
    BY FS_CardinalityType
  <1>2. rows \in [1..Cardinality(S) -> S] /\ \A x \in S : \E i \in DOMAIN rows : rows[i] = x
    BY DEF Rows
  <1> QED
    BY <1>1, <1>2

LEMMA ConcatFacts ==
    ASSUME NEW S, NEW s \in Seq(S), NEW t \in Seq(S)
    PROVE  /\ s \o t \in Seq(S) /\ Len(s \o t) = Len(s) + Len(t)
           /\ \A i \in 1..Len(s) : i \in 1..Len(s \o t) /\ (s \o t)[i] = s[i]
           /\ \A i \in 1..Len(t) :
                  Len(s) + i \in 1..Len(s \o t) /\ (s \o t)[Len(s) + i] = t[i]
           /\ \A i \in 1..Len(s \o t) :
                  i \in 1..Len(s) \/ (i - Len(s) \in 1..Len(t) /\ (s \o t)[i] = t[i - Len(s)])
  OBVIOUS

LEMMA OneFacts ==
    ASSUME NEW S, NEW x \in S
    PROVE  <<x>> \in Seq(S) /\ Len(<<x>>) = 1 /\ <<x>>[1] = x /\ <<x>> # <<>>
  OBVIOUS

(* What the JOIN reads: users, with their voices. *)
LEMMA JoinFacts ==
    ASSUME TypeOK, NEW rows \in Rows(WithVoice(guests))
    PROVE  /\ rows \in Seq(Users)
           /\ [i \in DOMAIN rows |-> voice[rows[i]]] \in Seq(Persons)
           /\ Len([i \in DOMAIN rows |-> voice[rows[i]]]) = Len(rows)
           /\ \A i \in 1..Len(rows) :
                  /\ rows[i] \in guests
                  /\ [j \in DOMAIN rows |-> voice[rows[j]]][i] = voice[rows[i]]
           /\ \A u \in WithVoice(guests) : \E i \in 1..Len(rows) : rows[i] = u
  <1> DEFINE S == WithVoice(guests)
             embs == [i \in DOMAIN rows |-> voice[rows[i]]]
  <1>1. S \subseteq Users /\ S \subseteq guests /\ \A u \in S : voice[u] \in Persons
    BY DEF WithVoice, TypeOK
  <1>2. IsFiniteSet(S)
    BY <1>1, NamesAssumption, FS_Subset
  <1>3. /\ rows \in Seq(S) /\ DOMAIN rows = 1..Len(rows)
        /\ \A x \in S : \E i \in 1..Len(rows) : rows[i] = x
    BY <1>2, RowsFacts
  <1> HIDE DEF S
  <1>4. Len(rows) \in Nat /\ \A i \in 1..Len(rows) : rows[i] \in S
    BY <1>3
  <1>5. embs = [i \in 1..Len(rows) |-> voice[rows[i]]]
    BY <1>3
  <1>6. \A i \in 1..Len(rows) : voice[rows[i]] \in Persons
    BY <1>1, <1>4
  <1>7. embs \in [1..Len(rows) -> Persons]
    BY <1>5, <1>6
  <1>8. embs \in Seq(Persons) /\ Len(embs) = Len(rows)
    BY <1>4, <1>7
  <1>9. rows \in Seq(Users)
    BY <1>1, <1>3, <1>4
  <1> QED
    BY <1>1, <1>3, <1>4, <1>5, <1>8, <1>9 DEF S

-----------------------------------------------------------------------------
(* Type correctness. *)

LEMMA TypeInit == Init => TypeOK
  <1> SUFFICES ASSUME Init PROVE TypeOK
    OBVIOUS
  <1>1. <<>> \in Seq(Users) /\ <<>> \in Seq(Persons)
    OBVIOUS
  <1>2. 0 \in 0..MaxKeys /\ 1 \in 0..MaxKeys /\ 0 \in 0..MaxTools /\ 0 \in 0..MaxChanges
    BY BoundsAssumption
  <1>3. [u \in Users |-> Null] \in [Users -> Persons \cup {Null}]
    OBVIOUS
  <1>4. guests \subseteq Users /\ former \subseteq Users
    BY DEF Init
  <1> QED
    BY <1>1, <1>2, <1>3, <1>4 DEF Init, TypeOK, Steps

LEMMA TypeChange ==
    ASSUME TypeOK, Change,
           owner' \in Users \cup {Null}, guests' \subseteq Users, enabled' \in BOOLEAN
    PROVE  /\ changes' \in 0..MaxChanges
           /\ owners' \subseteq Users /\ accepted' \subseteq Users /\ allowed' \in BOOLEAN
           /\ heard' \subseteq Users \X Persons /\ steady' \subseteq Users \X Users
  <1>1. Owners' \subseteq Users
    BY DEF Owners
  <1>2. Heard' \subseteq Users \X Persons
    BY DEF Heard
  <1>3. changes' \in 0..MaxChanges
    BY BoundsAssumption DEF Change, TypeOK
  <1> QED
    BY <1>1, <1>2, <1>3 DEF Change, TypeOK, seen

LEMMA TypeTables ==
    ASSUME TypeOK, Tables
    PROVE  TypeOK'
  <1> USE BoundsAssumption
  <1>1. Change
    BY DEF Tables, SetOwner, SetInviteEnable, SetKey, SetPassphrase, RegisterDevice,
           AcceptInvite, Expire, RemoveInvite, StoreVoice, FailVoice, DeleteVoice,
           RegisterVoice, ListDevices, LeaveTool
  <1>2. request' = request
    BY <1>1 DEF Change
  <1> SUFFICES ASSUME TRUE
               PROVE  /\ owner' \in Users \cup {Null} /\ enabled' \in BOOLEAN
                      /\ passphrase' \in 0..MaxKeys /\ key' \in 0..MaxKeys
                      /\ proven' \in 0..MaxKeys
                      /\ guests' \subseteq Users /\ former' \subseteq Users
                      /\ voice' \in [Users -> Persons \cup {Null}]
                      /\ embedding' \in [Users -> Persons \cup {Null}]
                      /\ tools' \in 0..MaxTools /\ raced' \in BOOLEAN
    BY <1>1, <1>2, TypeChange DEF TypeOK, request
  <1>3. CASE SetOwner \/ SetInviteEnable
    BY <1>3 DEF SetOwner, SetInviteEnable, TypeOK, device, invites, voices, keys
  <1>4. ASSUME NEW k \in 0..MaxKeys, SetKey(k) PROVE TypeOK'
    BY <1>1, <1>2, <1>4, TypeChange DEF SetKey, TypeOK, device, invites, voices, keys, request
  <1>5. ASSUME NEW k \in 1..MaxKeys, SetPassphrase(k) PROVE TypeOK'
    BY <1>1, <1>2, <1>5, TypeChange DEF SetPassphrase, TypeOK, invites, voices, request
  <1>6. ASSUME NEW k \in 1..MaxKeys, NEW u \in Users, RegisterDevice(u, k) PROVE TypeOK'
    BY <1>1, <1>2, <1>6, TypeChange DEF RegisterDevice, TypeOK, invites, voices, request
  <1>7. ASSUME NEW u \in Users, AcceptInvite(u) \/ Expire(u) \/ RemoveInvite(u) PROVE TypeOK'
    BY <1>1, <1>2, <1>7, TypeChange
       DEF AcceptInvite, Expire, RemoveInvite, TypeOK, device, voices, keys, request
  <1>8. ASSUME NEW u \in Users, StoreVoice(u) \/ FailVoice(u) \/ DeleteVoice(u) PROVE TypeOK'
    BY <1>1, <1>2, <1>8, TypeChange
       DEF StoreVoice, FailVoice, DeleteVoice, TypeOK, device, invites, keys, request
  <1>9. ASSUME NEW u \in Users, NEW p \in Persons, RegisterVoice(u, p) PROVE TypeOK'
    BY <1>1, <1>2, <1>9, TypeChange
       DEF RegisterVoice, TypeOK, device, invites, keys, request
  <1>10. CASE ListDevices \/ LeaveTool
    BY <1>10 DEF ListDevices, LeaveTool, TypeOK, device, invites, voices
  <1> QED
    BY <1>3, <1>4, <1>5, <1>6, <1>7, <1>8, <1>9, <1>10 DEF Tables, TypeOK

LEMMA TypeVerification ==
    ASSUME TypeOK, CandidatesAreKnown, Verification
    PROVE  TypeOK'
  <1> USE DEF tables, device, invites, voices, seen, Steps
  <1>1. CASE Speak
    <2>1. Owners \subseteq Users /\ Heard \subseteq Users \X Persons
          /\ Entitled' \subseteq Users \X Users
      BY DEF Owners, Heard, Entitled, TypeOK
    <2> QED
      BY <1>1, <2>1 DEF Speak, TypeOK, keys
  <1>2. CASE ReadDevice
    <2>1. owner \in Users /\ <<owner>> \in Seq(Users)
      BY <1>2 DEF ReadDevice, Recognised, TypeOK
    <2> QED
      BY <1>2, <2>1 DEF ReadDevice, TypeOK
  <1>3. CASE Deny
    BY <1>3 DEF Deny, TypeOK
  <1>4. CASE ReadOwner
    <2>1. user_ids[1] \in Users
      BY <1>4 DEF ReadOwner, CandidatesAreKnown, TypeOK
    <2>2. voice[user_ids[1]] \in Persons
      BY <1>4, <2>1 DEF ReadOwner, TypeOK
    <2>3. <<voice[user_ids[1]]>> \in Seq(Persons)
      BY <2>2
    <2> QED
      BY <1>4, <2>3 DEF ReadOwner, TypeOK
  <1>5. CASE ReadGuests
    <2>1. PICK rows \in Rows(WithVoice(guests)) :
             /\ user_ids' = user_ids \o rows
             /\ user_embeddings' = user_embeddings \o [i \in DOMAIN rows |-> voice[rows[i]]]
      BY <1>5 DEF ReadGuests, Collect
    <2>2. user_ids' \in Seq(Users) /\ user_embeddings' \in Seq(Persons)
      BY <2>1, JoinFacts, ConcatFacts DEF TypeOK
    <2> QED
      BY <1>5, <2>2 DEF ReadGuests, Collect, TypeOK
  <1>6. CASE Grant
    <2>1. matched_user_id' \in Users
      BY <1>6 DEF Grant, TypeOK
    <2> QED
      BY <1>6, <2>1 DEF Grant, TypeOK
  <1>7. CASE Fail
    BY <1>7 DEF Fail, TypeOK
  <1>8. CASE Close
    <2>1. <<>> \in Seq(Users) /\ <<>> \in Seq(Persons) /\ 0 \in 0..MaxKeys
      BY BoundsAssumption
    <2> QED
      BY <1>8, <2>1 DEF Close, TypeOK
  <1>9. RefuseDevice \/ RefuseOwner \/ Refuse => Deny
    BY DEF RefuseDevice, RefuseOwner, Refuse
  <1> HIDE DEF tables, device, invites, voices, seen, Steps
  <1> QED
    BY <1>1, <1>2, <1>3, <1>4, <1>5, <1>6, <1>7, <1>8, <1>9 DEF Verification

-----------------------------------------------------------------------------
(* The changes of the tables: the history keeps up with them. *)

LEMMA TablesAreChanges == Tables => Change
  BY DEF Tables, SetOwner, SetInviteEnable, SetKey, SetPassphrase, RegisterDevice,
         AcceptInvite, Expire, RemoveInvite, StoreVoice, FailVoice, DeleteVoice,
         RegisterVoice, ListDevices, LeaveTool

LEMMA ChangeKeeps ==
    ASSUME IInv, Change
    PROVE  /\ HistoryIsCurrent' /\ CandidatesAreKnown' /\ EntitledIsCandidate'
           /\ NamedSpoke' /\ EntitledIsHeard' /\ SpeakerIsKnown'
  <1> USE DEF IInv
  <1>1. /\ at' = at /\ speaker' = speaker /\ bearer' = bearer /\ invited' = invited
        /\ user_ids' = user_ids /\ user_embeddings' = user_embeddings
        /\ at \notin {"granted", "denied"}
    BY DEF Change, request
  <1>2. Active' = Active
    BY <1>1 DEF Active
  <1>3. ASSUME Active
        PROVE  /\ owners' = owners \cup Owners' /\ accepted' = accepted \cup guests'
               /\ allowed' = (allowed \/ enabled')
               /\ heard' = heard \cup Heard' /\ steady' = steady \cap Entitled'
    BY <1>3 DEF Change
  <1>4. HistoryIsCurrent'
    BY <1>2, <1>3 DEF HistoryIsCurrent
  <1>5. CASE Active
    <2>1. \A u, p : Known(u, p) => Known(u, p)'
      BY <1>3, <1>5 DEF Known
    <2>2. owners \subseteq owners' /\ (allowed => allowed') /\ steady' \subseteq steady
      BY <1>3, <1>5
    <2>3. CandidatesAreKnown'
      BY <1>1, <2>1, <2>2 DEF CandidatesAreKnown
    <2>4. EntitledIsCandidate'
      BY <1>1, <2>2 DEF EntitledIsCandidate
    <2> QED
      BY <1>1, <1>2, <1>4, <2>3, <2>4 DEF NamedSpoke, EntitledIsHeard, SpeakerIsKnown
  <1>6. CASE ~Active
    <2>1. at' \notin {"owner", "guests", "service"}
      BY <1>1, <1>6 DEF Active
    <2>2. CandidatesAreKnown'
      BY <2>1 DEF CandidatesAreKnown
    <2>3. EntitledIsCandidate'
      BY <2>1 DEF EntitledIsCandidate
    <2> QED
      BY <1>1, <1>2, <1>4, <2>2, <2>3 DEF NamedSpoke, EntitledIsHeard, SpeakerIsKnown
  <1> QED
    BY <1>5, <1>6

LEMMA TablesKeepProven ==
    ASSUME IInv, Tables
    PROVE  RaceIsKnown' /\ ProvenKeyStays'
  <1> USE BoundsAssumption DEF IInv, RaceIsKnown, ProvenKeyStays
  <1>1. tools \in Nat /\ passphrase \in Nat /\ proven \in Nat
    BY DEF TypeOK
  <1>2. CASE SetOwner \/ SetInviteEnable
    BY <1>2 DEF SetOwner, SetInviteEnable, keys
  <1>3. ASSUME NEW k \in 0..MaxKeys, SetKey(k) PROVE RaceIsKnown' /\ ProvenKeyStays'
    BY <1>3 DEF SetKey, device
  <1>4. ASSUME NEW k \in 1..MaxKeys, SetPassphrase(k) PROVE RaceIsKnown' /\ ProvenKeyStays'
    <2>1. /\ tools > 0 /\ tools' = tools - 1 /\ proven' = proven
          /\ raced' = (raced \/ tools > 1)
      BY <1>4 DEF SetPassphrase
    <2>2. RaceIsKnown'
      <3>1. tools' > 0 => tools > 1
        BY <1>1, <2>1
      <3>2. tools > 1 => raced'
        BY <2>1, Zenon
      <3> QED
        BY <3>1, <3>2, Zenon
    <2>3. ProvenKeyStays'
      BY <1>1, <2>1
    <2> QED
      BY <2>2, <2>3
  <1>5. ASSUME NEW k \in 1..MaxKeys, NEW u \in Users, RegisterDevice(u, k)
        PROVE  RaceIsKnown' /\ ProvenKeyStays'
    BY <1>5 DEF RegisterDevice
  <1>6. ASSUME NEW u \in Users, AcceptInvite(u) \/ Expire(u) \/ RemoveInvite(u)
        PROVE  RaceIsKnown' /\ ProvenKeyStays'
    BY <1>6 DEF AcceptInvite, Expire, RemoveInvite, device, keys
  <1>7. ASSUME NEW u \in Users, StoreVoice(u) \/ FailVoice(u) \/ DeleteVoice(u)
        PROVE  RaceIsKnown' /\ ProvenKeyStays'
    BY <1>7 DEF StoreVoice, FailVoice, DeleteVoice, device, keys
  <1>8. ASSUME NEW u \in Users, NEW p \in Persons, RegisterVoice(u, p)
        PROVE  RaceIsKnown' /\ ProvenKeyStays'
    BY <1>8 DEF RegisterVoice, device, keys
  <1>9. CASE ListDevices \/ LeaveTool
    BY <1>1, <1>9 DEF ListDevices, LeaveTool, device
  <1> QED
    BY <1>2, <1>3, <1>4, <1>5, <1>6, <1>7, <1>8, <1>9 DEF Tables

-----------------------------------------------------------------------------
(* The steps of a verification. *)

LEMMA TablesAreKept ==
    ASSUME UNCHANGED tables
    PROVE  /\ owner' = owner /\ enabled' = enabled /\ passphrase' = passphrase
           /\ guests' = guests /\ former' = former
           /\ voice' = voice /\ embedding' = embedding
           /\ key' = key /\ tools' = tools /\ raced' = raced /\ changes' = changes
  BY DEF tables, device, invites, voices

(* A step that keeps the tables, the history and who has spoken keeps the *)
(* history current.                                                       *)
LEMMA HistoryIsKept ==
    ASSUME HistoryIsCurrent, UNCHANGED tables, UNCHANGED seen,
           speaker' = speaker, bearer' = bearer, Active' => Active
    PROVE  HistoryIsCurrent'
  <1> QED
    BY TablesAreKept DEF HistoryIsCurrent, Owners, Heard, Entitled, seen

LEMMA SpeakKeeps == ASSUME IInv, Speak PROVE IInv'
  <1> USE DEF IInv
  <1>1. TypeOK'
    BY TypeVerification DEF Verification
  <1>2. at' = "device"
    BY DEF Speak
  <1>3. HistoryIsCurrent'
    BY DEF Speak, HistoryIsCurrent, Owners, Heard, device, invites, voices
  <1>4. CandidatesAreKnown' /\ EntitledIsCandidate' /\ NamedSpoke' /\ EntitledIsHeard'
    BY <1>2 DEF CandidatesAreKnown, EntitledIsCandidate, NamedSpoke, EntitledIsHeard
  <1>5. RaceIsKnown' /\ ProvenKeyStays' /\ SpeakerIsKnown'
    BY NamesAssumption DEF Speak, RaceIsKnown, ProvenKeyStays, SpeakerIsKnown, device, keys
  <1> QED
    BY <1>1, <1>3, <1>4, <1>5

LEMMA ReadDeviceKeeps == ASSUME IInv, ReadDevice PROVE IInv'
  <1> USE DEF IInv
  <1>1. TypeOK'
    BY TypeVerification DEF Verification
  <1>2. /\ at = "device" /\ at' = "owner" /\ Recognised
        /\ user_ids' = <<owner>> /\ invited' = enabled
        /\ proven' = IF bearer = key THEN key ELSE proven
        /\ UNCHANGED tables /\ speaker' = speaker /\ bearer' = bearer
        /\ user_embeddings' = user_embeddings /\ UNCHANGED seen
    BY DEF ReadDevice
  <1>3. Active /\ owner \in owners /\ (enabled => allowed)
    BY <1>2 DEF Active, HistoryIsCurrent, Owners, Recognised
  <1>4. HistoryIsCurrent'
    BY <1>2, <1>3, HistoryIsKept
  <1>5. Len(<<owner>>) = 1 /\ <<owner>>[1] = owner
    OBVIOUS
  <1>6. CandidatesAreKnown'
    BY <1>2, <1>3, <1>5 DEF CandidatesAreKnown, seen
  <1>7. \A uo \in steady : uo[2] = owner /\ (uo[1] # uo[2] => enabled)
    BY <1>3 DEF HistoryIsCurrent, Entitled
  <1>8. EntitledIsCandidate'
    BY <1>2, <1>5, <1>7 DEF EntitledIsCandidate, seen
  <1>9. NamedSpoke' /\ EntitledIsHeard' /\ SpeakerIsKnown'
    BY <1>2, <1>3 DEF NamedSpoke, EntitledIsHeard, SpeakerIsKnown
  <1>10. RaceIsKnown' /\ ProvenKeyStays'
    BY <1>2, TablesAreKept DEF RaceIsKnown, ProvenKeyStays, Recognised
  <1> QED
    BY <1>1, <1>4, <1>6, <1>8, <1>9, <1>10

LEMMA DenyKeeps ==
    ASSUME IInv, Deny, TypeOK', steady = {}
    PROVE  IInv'
  <1> USE DEF IInv
  <1>1. /\ at' = "denied" /\ UNCHANGED tables /\ proven' = proven
        /\ speaker' = speaker /\ bearer' = bearer /\ UNCHANGED seen
    BY DEF Deny
  <1>2. /\ HistoryIsCurrent' /\ CandidatesAreKnown' /\ EntitledIsCandidate'
        /\ NamedSpoke' /\ SpeakerIsKnown'
    BY <1>1 DEF HistoryIsCurrent, Active, CandidatesAreKnown, EntitledIsCandidate, NamedSpoke,
                SpeakerIsKnown
  <1>3. EntitledIsHeard'
    BY <1>1 DEF EntitledIsHeard, seen
  <1>4. RaceIsKnown' /\ ProvenKeyStays'
    BY <1>1, TablesAreKept DEF RaceIsKnown, ProvenKeyStays
  <1> QED
    BY <1>2, <1>3, <1>4

LEMMA RefuseDeviceKeeps == ASSUME IInv, RefuseDevice PROVE IInv'
  <1>1. TypeOK'
    BY TypeVerification DEF IInv, Verification
  <1>2. Active /\ ~Recognised
    BY DEF RefuseDevice, Active
  <1>3. \A uo \in Entitled : Recognised
    BY NamesAssumption DEF Entitled, Recognised
  <1>4. steady = {}
    BY <1>2, <1>3 DEF IInv, HistoryIsCurrent
  <1> QED
    BY <1>1, <1>4, DenyKeeps DEF RefuseDevice

LEMMA RefuseOwnerKeeps == ASSUME IInv, RefuseOwner PROVE IInv'
  <1>1. TypeOK'
    BY TypeVerification DEF IInv, Verification
  <1>2. Active /\ at = "owner" /\ voice[user_ids[1]] = Null
    BY DEF RefuseOwner, Active
  <1>3. ASSUME NEW uo \in steady PROVE FALSE
    <2>1. uo[2] = user_ids[1]
      BY <1>2 DEF IInv, EntitledIsCandidate
    <2>2. voice[uo[2]] # Null
      BY <1>2 DEF IInv, HistoryIsCurrent, Entitled
    <2> QED
      BY <1>2, <2>1, <2>2
  <1> QED
    BY <1>1, <1>3, DenyKeeps DEF RefuseOwner

LEMMA RefuseKeeps == ASSUME IInv, Refuse PROVE IInv'
  <1>1. TypeOK'
    BY TypeVerification DEF IInv, Verification
  <1>2. at = "service" /\ Matches = {}
    BY DEF Refuse
  <1>3. \A i \in 1..Len(user_embeddings) : user_embeddings[i] # speaker
    BY <1>2 DEF Matches, IInv, TypeOK
  <1>4. steady = {}
    BY <1>2, <1>3 DEF IInv, EntitledIsCandidate
  <1> QED
    BY <1>1, <1>4, DenyKeeps DEF Refuse

LEMMA FailKeeps == ASSUME IInv, Fail PROVE IInv'
  <1> USE DEF IInv
  <1>1. TypeOK'
    BY TypeVerification DEF Verification
  <1>2. /\ at' = "denied" /\ failed' = TRUE /\ UNCHANGED tables /\ proven' = proven
    BY DEF Fail
  <1>3. /\ HistoryIsCurrent' /\ CandidatesAreKnown' /\ EntitledIsCandidate'
        /\ NamedSpoke' /\ EntitledIsHeard' /\ SpeakerIsKnown'
    BY <1>2 DEF HistoryIsCurrent, Active, CandidatesAreKnown, EntitledIsCandidate,
                NamedSpoke, EntitledIsHeard, SpeakerIsKnown
  <1>4. RaceIsKnown' /\ ProvenKeyStays'
    BY <1>2, TablesAreKept DEF RaceIsKnown, ProvenKeyStays
  <1> QED
    BY <1>1, <1>3, <1>4

LEMMA CloseKeeps == ASSUME IInv, Close PROVE IInv'
  <1> USE DEF IInv
  <1>1. TypeOK'
    BY TypeVerification DEF Verification
  <1>2. /\ at' = "idle" /\ UNCHANGED tables /\ proven' = proven
    BY DEF Close
  <1>3. /\ HistoryIsCurrent' /\ CandidatesAreKnown' /\ EntitledIsCandidate'
        /\ NamedSpoke' /\ EntitledIsHeard' /\ SpeakerIsKnown'
    BY <1>2 DEF HistoryIsCurrent, Active, CandidatesAreKnown, EntitledIsCandidate,
                NamedSpoke, EntitledIsHeard, SpeakerIsKnown
  <1>4. RaceIsKnown' /\ ProvenKeyStays'
    BY <1>2, TablesAreKept DEF RaceIsKnown, ProvenKeyStays
  <1> QED
    BY <1>1, <1>3, <1>4

LEMMA ReadOwnerKeeps == ASSUME IInv, ReadOwner PROVE IInv'
  <1> USE DEF IInv
  <1> DEFINE u == user_ids[1]
             v == voice[u]
  <1>1. TypeOK'
    BY TypeVerification DEF Verification
  <1>2. /\ at = "owner" /\ v # Null
        /\ at' = IF invited THEN "guests" ELSE "service"
        /\ user_embeddings' = <<v>> /\ user_ids' = user_ids /\ invited' = invited
        /\ UNCHANGED tables /\ proven' = proven /\ UNCHANGED seen
        /\ speaker' = speaker /\ bearer' = bearer
    BY DEF ReadOwner
  <1>3. Active
    BY <1>2 DEF Active
  <1>4. HistoryIsCurrent'
    BY <1>2, <1>3, HistoryIsKept
  <1>5. Len(user_ids) = 1 /\ u \in owners /\ u \in Users /\ v \in Persons
    BY <1>2 DEF CandidatesAreKnown, TypeOK
  <1>6. <<u, v>> \in heard
    <2>1. <<u, v>> \in Heard
      BY <1>5 DEF Heard
    <2> QED
      BY <1>3, <2>1 DEF HistoryIsCurrent
  <1>7. Known(u, v)
    BY <1>5, <1>6 DEF Known
  <1>8. Len(<<v>>) = 1 /\ <<v>>[1] = v /\ 1 \in 1..Len(<<v>>)
    OBVIOUS
  <1> HIDE DEF u, v
  <1>9. owners' = owners /\ accepted' = accepted /\ allowed' = allowed /\ heard' = heard
        /\ steady' = steady
    BY <1>2 DEF seen
  <1>10. CandidatesAreKnown'
    <2>1. Known(u, v)'
      <3>1. u' = u /\ v' = v
        BY <1>2, TablesAreKept DEF u, v
      <3> QED
        BY <1>7, <1>9, <3>1 DEF Known
    <2>2. at' # "owner" /\ (invited => allowed)
      BY <1>2 DEF CandidatesAreKnown
    <2>3. Len(user_ids') = 1 /\ Len(user_embeddings') = 1
      BY <1>2, <1>5, <1>8
    <2>4. user_ids'[1] = u' /\ user_embeddings'[1] = v'
      BY <1>2, <1>8, TablesAreKept DEF u, v
    <2>5. \A i \in 1..Len(user_ids') : Known(user_ids[i], user_embeddings[i])'
      <3> SUFFICES ASSUME NEW i \in 1..Len(user_ids')
                   PROVE  Known(user_ids[i], user_embeddings[i])'
        OBVIOUS
      <3>1. i = 1
        BY <2>3
      <3> QED
        BY <2>1, <2>4, <3>1 DEF Known
    <2> QED
      BY <1>2, <1>9, <2>2, <2>3, <2>5 DEF CandidatesAreKnown
  <1>11. EntitledIsCandidate'
    <2> SUFFICES ASSUME NEW uo \in steady'
                 PROVE  /\ at' # "owner"
                        /\ at' = "guests" /\ uo[1] = uo[2] =>
                             \E i \in 1..Len(user_embeddings') : user_embeddings'[i] = speaker'
                        /\ at' = "service" =>
                             \E i \in 1..Len(user_embeddings') : user_embeddings'[i] = speaker'
      BY DEF EntitledIsCandidate
    <2>1. uo \in steady /\ uo[2] = u /\ (uo[1] # uo[2] => invited)
      BY <1>2, <1>9 DEF EntitledIsCandidate, u
    <2>2. voice[uo[1]] = speaker
      BY <1>3, <2>1 DEF HistoryIsCurrent, Entitled
    <2>3. uo[1] = uo[2] =>
             \E i \in 1..Len(user_embeddings') : user_embeddings'[i] = speaker'
      BY <1>2, <1>8, <2>1, <2>2 DEF v
    <2>4. at' = "service" => uo[1] = uo[2]
      BY <1>2, <2>1
    <2> QED
      BY <1>2, <2>3, <2>4
  <1>12. NamedSpoke' /\ EntitledIsHeard' /\ SpeakerIsKnown'
    BY <1>2, <1>3 DEF NamedSpoke, EntitledIsHeard, SpeakerIsKnown
  <1>13. RaceIsKnown' /\ ProvenKeyStays'
    BY <1>2, TablesAreKept DEF RaceIsKnown, ProvenKeyStays
  <1> QED
    BY <1>1, <1>4, <1>10, <1>11, <1>12, <1>13

LEMMA ReadGuestsKeeps == ASSUME IInv, ReadGuests PROVE IInv'
  <1> USE DEF IInv
  <1>1. TypeOK'
    BY TypeVerification DEF Verification
  <1>2. /\ at = "guests" /\ at' = "service"
        /\ UNCHANGED tables /\ proven' = proven /\ UNCHANGED seen
        /\ speaker' = speaker /\ bearer' = bearer
    BY DEF ReadGuests, Collect
  <1>3. Active
    BY <1>2 DEF Active
  <1>4. PICK rows \in Rows(WithVoice(guests)) :
           /\ user_ids' = user_ids \o rows
           /\ user_embeddings' = user_embeddings \o [i \in DOMAIN rows |-> voice[rows[i]]]
    BY DEF ReadGuests, Collect
  <1> DEFINE embs == [i \in DOMAIN rows |-> voice[rows[i]]]
  <1>5. /\ rows \in Seq(Users) /\ embs \in Seq(Persons) /\ Len(embs) = Len(rows)
        /\ \A i \in 1..Len(rows) : rows[i] \in guests /\ embs[i] = voice[rows[i]]
        /\ \A u \in WithVoice(guests) : \E i \in 1..Len(rows) : rows[i] = u
    BY JoinFacts
  <1>6. user_embeddings' = user_embeddings \o embs
    BY <1>4
  <1> HIDE DEF embs
  <1>7. /\ user_ids \in Seq(Users) /\ user_embeddings \in Seq(Persons)
        /\ Len(user_ids) = Len(user_embeddings) /\ Len(user_ids) \in Nat
        /\ Len(rows) \in Nat
    BY <1>2, <1>5 DEF TypeOK, CandidatesAreKnown
  <1> DEFINE n == Len(user_ids)
  <1>a. /\ Len(user_ids') = n + Len(rows)
        /\ \A i \in 1..n : user_ids'[i] = user_ids[i]
        /\ \A i \in 1..Len(user_ids') :
               i \in 1..n \/ (i - n \in 1..Len(rows) /\ user_ids'[i] = rows[i - n])
    <2>1. /\ Len(user_ids \o rows) = Len(user_ids) + Len(rows)
          /\ \A i \in 1..Len(user_ids) : (user_ids \o rows)[i] = user_ids[i]
          /\ \A i \in 1..Len(user_ids \o rows) :
                 i \in 1..Len(user_ids)
                 \/ (i - Len(user_ids) \in 1..Len(rows)
                     /\ (user_ids \o rows)[i] = rows[i - Len(user_ids)])
      <3>1. user_ids \in Seq(Users) /\ rows \in Seq(Users)
        BY <1>5, <1>7
      <3> QED
        BY ONLY <3>1, ConcatFacts
    <2>2. user_ids' = user_ids \o rows
      BY <1>4
    <2> QED
      BY ONLY <2>1, <2>2
  <1>b. /\ Len(user_embeddings') = n + Len(rows)
        /\ \A i \in 1..n : i \in 1..Len(user_embeddings')
                             /\ user_embeddings'[i] = user_embeddings[i]
        /\ \A i \in 1..Len(rows) : n + i \in 1..Len(user_embeddings')
                                     /\ user_embeddings'[n + i] = embs[i]
        /\ \A i \in 1..Len(user_embeddings') :
               i \in 1..n \/ (i - n \in 1..Len(rows) /\ user_embeddings'[i] = embs[i - n])
    <2>1. /\ Len(user_embeddings \o embs) = Len(user_embeddings) + Len(embs)
          /\ \A i \in 1..Len(user_embeddings) :
                 i \in 1..Len(user_embeddings \o embs)
                 /\ (user_embeddings \o embs)[i] = user_embeddings[i]
          /\ \A i \in 1..Len(embs) :
                 Len(user_embeddings) + i \in 1..Len(user_embeddings \o embs)
                 /\ (user_embeddings \o embs)[Len(user_embeddings) + i] = embs[i]
          /\ \A i \in 1..Len(user_embeddings \o embs) :
                 i \in 1..Len(user_embeddings)
                 \/ (i - Len(user_embeddings) \in 1..Len(embs)
                     /\ (user_embeddings \o embs)[i] = embs[i - Len(user_embeddings)])
      <3>1. user_embeddings \in Seq(Persons) /\ embs \in Seq(Persons)
        BY <1>5, <1>7
      <3> QED
        BY ONLY <3>1, ConcatFacts
    <2>2. Len(user_embeddings) = n /\ Len(embs) = Len(rows)
      BY <1>5, <1>7
    <2> QED
      BY <1>6, <2>1, <2>2
  <1> HIDE DEF n
  <1>8. HistoryIsCurrent'
    BY <1>2, <1>3, HistoryIsKept
  <1>9. owners' = owners /\ accepted' = accepted /\ allowed' = allowed /\ heard' = heard
        /\ steady' = steady
    BY <1>2 DEF seen
  <1>10. \A i \in 1..Len(rows) : Known(rows[i], embs[i])
    <2> SUFFICES ASSUME NEW i \in 1..Len(rows) PROVE Known(rows[i], embs[i])
      OBVIOUS
    <2>1. allowed /\ rows[i] \in accepted
      BY <1>2, <1>3, <1>5 DEF CandidatesAreKnown, HistoryIsCurrent
    <2>2. rows[i] \in Users /\ embs[i] \in Persons /\ embs[i] = voice[rows[i]]
      BY <1>5
    <2>3. <<rows[i], embs[i]>> \in Heard
      BY <2>2 DEF Heard
    <2> QED
      BY <1>3, <2>1, <2>3 DEF Known, HistoryIsCurrent
  <1>11. CandidatesAreKnown'
    <2>1. Len(user_ids') = Len(user_embeddings')
      BY <1>a, <1>b
    <2>2. ASSUME NEW i \in 1..Len(user_ids')
          PROVE  Known(user_ids'[i], user_embeddings'[i])
      <3>1. CASE i \in 1..n
        <4>1. user_ids'[i] = user_ids[i] /\ user_embeddings'[i] = user_embeddings[i]
          BY <1>a, <1>b, <3>1
        <4> QED
          BY <1>2, <3>1, <4>1 DEF CandidatesAreKnown, n
      <3>2. CASE i \notin 1..n
        <4>1. i - n \in 1..Len(rows) /\ user_ids'[i] = rows[i - n]
          BY <1>a, <3>2
        <4>2. user_embeddings'[i] = embs[i - n]
          BY <1>b, <2>1, <3>2
        <4> QED
          BY <1>10, <4>1, <4>2
      <3> QED
        BY <3>1, <3>2
    <2>3. \A u, p : Known(u, p) => Known(u, p)'
      BY <1>9 DEF Known
    <2> QED
      BY <1>2, <2>1, <2>2, <2>3 DEF CandidatesAreKnown, Known
  <1>12. EntitledIsCandidate'
    <2> SUFFICES ASSUME NEW uo \in steady
                 PROVE  \E i \in 1..Len(user_embeddings') : user_embeddings'[i] = speaker
      BY <1>2, <1>9 DEF EntitledIsCandidate
    <2>1. uo \in Entitled
      BY <1>3 DEF HistoryIsCurrent
    <2>2. CASE uo[1] = uo[2]
      <3>1. PICK i \in 1..Len(user_embeddings) : user_embeddings[i] = speaker
        BY <1>2, <2>2 DEF EntitledIsCandidate
      <3> QED
        BY <1>7, <1>b, <3>1 DEF n
    <2>3. CASE uo[1] # uo[2]
      <3>1. uo[1] \in WithVoice(guests) /\ voice[uo[1]] = speaker
        <4>1. uo[1] \in guests /\ uo[1] \in Users /\ voice[uo[1]] = speaker
          BY <2>1, <2>3 DEF Entitled
        <4>2. speaker # Null
          BY <1>3 DEF SpeakerIsKnown
        <4> QED
          BY <4>1, <4>2 DEF WithVoice
      <3>2. PICK i \in 1..Len(rows) : rows[i] = uo[1]
        BY <1>5, <3>1
      <3>3. embs[i] = speaker
        BY <1>5, <3>1, <3>2
      <3> QED
        BY <1>b, <3>2, <3>3
    <2> QED
      BY <2>2, <2>3
  <1>13. NamedSpoke' /\ EntitledIsHeard' /\ SpeakerIsKnown'
    BY <1>2, <1>3 DEF NamedSpoke, EntitledIsHeard, SpeakerIsKnown
  <1>14. RaceIsKnown' /\ ProvenKeyStays'
    BY <1>2, TablesAreKept DEF RaceIsKnown, ProvenKeyStays
  <1> QED
    BY <1>1, <1>8, <1>11, <1>12, <1>13, <1>14

LEMMA GrantKeeps == ASSUME IInv, Grant PROVE IInv'
  <1> USE DEF IInv
  <1>1. TypeOK'
    BY TypeVerification DEF Verification
  <1>2. /\ at = "service" /\ at' = "granted"
        /\ UNCHANGED tables /\ proven' = proven /\ UNCHANGED seen
        /\ speaker' = speaker /\ bearer' = bearer
    BY DEF Grant
  <1>3. PICK i \in Matches : i \in DOMAIN user_ids /\ matched_user_id' = user_ids[i]
    BY DEF Grant
  <1>4. i \in 1..Len(user_ids) /\ user_embeddings[i] = speaker
    BY <1>3 DEF Matches, TypeOK
  <1>5. Known(user_ids[i], user_embeddings[i])
    BY <1>2, <1>4 DEF CandidatesAreKnown
  <1>6. NamedSpoke'
    BY <1>2, <1>3, <1>4, <1>5 DEF NamedSpoke, Known, seen
  <1>7. /\ HistoryIsCurrent' /\ CandidatesAreKnown' /\ EntitledIsCandidate'
        /\ EntitledIsHeard' /\ SpeakerIsKnown'
    BY <1>2 DEF HistoryIsCurrent, Active, CandidatesAreKnown, EntitledIsCandidate,
                EntitledIsHeard, SpeakerIsKnown
  <1>8. RaceIsKnown' /\ ProvenKeyStays'
    BY <1>2, TablesAreKept DEF RaceIsKnown, ProvenKeyStays
  <1> QED
    BY <1>1, <1>6, <1>7, <1>8

-----------------------------------------------------------------------------
LEMMA InitHolds == Init => IInv
  <1> SUFFICES ASSUME Init PROVE IInv
    OBVIOUS
  <1>1. TypeOK
    BY TypeInit
  <1>2. RaceIsKnown /\ ProvenKeyStays
    BY DEF Init, RaceIsKnown, ProvenKeyStays
  <1>3. at = "idle" /\ steady = {}
    BY DEF Init
  <1> QED
    BY <1>1, <1>2, <1>3
       DEF IInv, HistoryIsCurrent, Active, CandidatesAreKnown, EntitledIsCandidate,
           NamedSpoke, EntitledIsHeard, SpeakerIsKnown

LEMMA NextKeeps == ASSUME IInv, [Next]_vars PROVE IInv'
  <1>1. CASE Tables
    <2>1. TypeOK'
      BY <1>1, TypeTables DEF IInv
    <2> QED
      BY <1>1, <2>1, TablesAreChanges, ChangeKeeps, TablesKeepProven DEF IInv
  <1>2. CASE Verification
    BY <1>2, SpeakKeeps, ReadDeviceKeeps, RefuseDeviceKeeps, ReadOwnerKeeps,
       RefuseOwnerKeeps, ReadGuestsKeeps, GrantKeeps, RefuseKeeps, FailKeeps, CloseKeeps
       DEF Verification
  <1>3. CASE UNCHANGED vars
    BY <1>3 DEF vars, device, invites, voices, keys, request, seen, IInv, TypeOK,
                HistoryIsCurrent, Active, Owners, Heard, Entitled, CandidatesAreKnown, Known,
                EntitledIsCandidate, NamedSpoke, EntitledIsHeard, SpeakerIsKnown,
                RaceIsKnown, ProvenKeyStays
  <1> QED
    BY <1>1, <1>2, <1>3 DEF Next

THEOREM Invariance == Spec => []IInv
  BY InitHolds, NextKeeps, PTL DEF Spec

(* verify_voice, the voices and the passphrases keep to their types. *)
THEOREM TypeCorrect == Spec => []TypeOK
  BY Invariance, PTL DEF IInv

(* Whoever verify_voice names has spoken, and his right and his voice were *)
(* there since the request came, however many changes there were.          *)
THEOREM NamedAlwaysSpoke == Spec => []NamedSpoke
  BY Invariance, PTL DEF IInv

(* A user who stays entitled is never refused, unless a service fails. *)
THEOREM EntitledIsAlwaysHeard == Spec => []EntitledIsHeard
  BY Invariance, PTL DEF IInv

(* The tool never writes over a passphrase that it has not seen missing. *)
THEOREM ProvenKeyAlwaysStays == Spec => []ProvenKeyStays
  BY Invariance, PTL DEF IInv
=============================================================================
