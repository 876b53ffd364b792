------------------------------- MODULE Voices -------------------------------
(***************************************************************************)
(* Who is let in by his voice: verify_voice of the backend (device.rs),    *)
(* the voices that users register and delete (user.rs), and the passphrase *)
(* that a device shows, which register_device and the tool add_passphrase  *)
(* write.  One device and one verification at a time are modelled: others  *)
(* touch nothing that it reads.                                            *)
(*                                                                         *)
(* verify_voice reads the device, the voice of its owner and those of his  *)
(* guests in statements of their own, and then waits for the SpeechBrain   *)
(* service; everything it has read may change under it.                    *)
(*                                                                         *)
(* An embedding is the person whose voice it is of.  The service is        *)
(* assumed to know a voice, and to fail at times.  Passphrases are         *)
(* numbered; 0 is none.                                                    *)
(***************************************************************************)
EXTENDS Naturals, Sequences, FiniteSets

CONSTANTS
    Users,
    Persons,     \* those who speak; an embedding is of one of them
    Null,        \* no owner, no embedding, nobody
    MaxKeys,     \* bound on the passphrases
    MaxTools,    \* bound on the runs of add_passphrase at the same time
    MaxChanges   \* bound on the changes of the tables and the key

ASSUME NamesAssumption == IsFiniteSet(Users) /\ Null \notin Users /\ Null \notin Persons

ASSUME BoundsAssumption ==
    MaxKeys \in Nat \ {0} /\ MaxTools \in Nat /\ MaxChanges \in Nat

VARIABLES
    owner,       \* devices.user_id
    enabled,     \* devices.voice_invite_enable
    passphrase,  \* devices.hashed_passphrase
    guests,      \* receivers of accepted invites that have not expired
    former,      \* receivers of accepted invites that have
    voice,       \* users.voice_embeddings
    embedding,   \* what each register_voice under way will store
    key,         \* config.backend_bearer_token of the device
    tools,       \* runs of add_passphrase that have listed the device
    changes,     \* changes so far
    at,          \* what the verification is about to do
    speaker,     \* who has spoken
    bearer,      \* the token of the request
    invited,     \* voice_invite_enable, as the verification has read it
    user_ids, user_embeddings,  \* the candidates
    matched_user_id,            \* the one who is let in
    failed,      \* the service or the database has failed
    owners,      \* history: owners since the verification began
    accepted,    \* history: guests since then
    allowed,     \* history: guests could speak, at some moment since then
    heard,       \* history: users and their voices since then
    steady,      \* history: what Entitled has kept since then
    proven,      \* history: the passphrase that the device has passed with
    raced        \* history: it was set while add_passphrase was running

device  == <<owner, enabled, passphrase>>
invites == <<guests, former>>
voices  == <<voice, embedding>>
keys    == <<key, tools, proven, raced>>
request == <<at, speaker, bearer, invited, user_ids, user_embeddings,
             matched_user_id, failed>>
seen    == <<owners, accepted, allowed, heard, steady>>
vars    == <<device, invites, voices, keys, changes, request, seen>>

Steps == {"idle", "device", "owner", "guests", "service", "granted", "denied"}

TypeOK ==
    /\ owner \in Users \cup {Null}
    /\ enabled \in BOOLEAN
    /\ passphrase \in 0..MaxKeys /\ key \in 0..MaxKeys /\ proven \in 0..MaxKeys
    /\ guests \subseteq Users /\ former \subseteq Users
    /\ voice \in [Users -> Persons \cup {Null}]
    /\ embedding \in [Users -> Persons \cup {Null}]
    /\ tools \in 0..MaxTools /\ raced \in BOOLEAN
    /\ changes \in 0..MaxChanges
    /\ at \in Steps
    /\ speaker \in Persons \cup {Null}
    /\ bearer \in 0..MaxKeys
    /\ invited \in BOOLEAN /\ failed \in BOOLEAN
    /\ user_ids \in Seq(Users) /\ user_embeddings \in Seq(Persons)
    /\ matched_user_id \in Users \cup {Null}
    /\ owners \subseteq Users /\ accepted \subseteq Users /\ allowed \in BOOLEAN
    /\ heard \subseteq Users \X Persons /\ steady \subseteq Users \X Users

(* A device that is in use, registered or not. *)
Init ==
    /\ owner \in Users /\ enabled \in BOOLEAN
    /\ passphrase \in {0, 1} /\ key = 1
    /\ guests \in SUBSET (Users \ {owner}) /\ former = {}
    /\ voice \in [Users -> Persons \cup {Null}]
    /\ embedding = [u \in Users |-> Null]
    /\ tools = 0 /\ proven = 0 /\ raced = FALSE
    /\ changes = 0
    /\ at = "idle" /\ speaker = Null /\ bearer = 0
    /\ invited = FALSE /\ failed = FALSE
    /\ user_ids = <<>> /\ user_embeddings = <<>> /\ matched_user_id = Null
    /\ owners = {} /\ accepted = {} /\ allowed = FALSE /\ heard = {} /\ steady = {}

-----------------------------------------------------------------------------
(* What a verification may read. *)

Owners  == {owner} \ {Null}
Heard   == {uv \in Users \X Persons : voice[uv[1]] = uv[2]}

(* A user whom the owner of the device lets speak, with that owner: the *)
(* speaker has his voice, and the device shows the passphrase.          *)
Entitled ==
    {uo \in Users \X Users :
        /\ owner = uo[2]
        /\ voice[uo[2]] # Null
        /\ voice[uo[1]] = speaker
        /\ uo[1] = owner \/ (enabled /\ uo[1] \in guests)
        /\ bearer # 0 /\ bearer = passphrase}

Active == at \in {"device", "owner", "guests", "service"}

(* What every change of the tables adds to the history of a verification. *)
(* One that is over is left first (Close), which nobody else sees.        *)
Change ==
    /\ at \notin {"granted", "denied"}
    /\ changes < MaxChanges
    /\ changes' = changes + 1
    /\ UNCHANGED request
    /\ IF Active
       THEN /\ owners'  = owners \cup Owners'
            /\ accepted' = accepted \cup guests'
            /\ allowed' = (allowed \/ enabled')
            /\ heard' = heard \cup Heard'
            /\ steady' = steady \cap Entitled'
       ELSE UNCHANGED seen

-----------------------------------------------------------------------------
(* The device and its owner. *)

(* A heartbeat writes the user the device was paired with; unpair_device *)
(* and delete_account write NULL.                                        *)
SetOwner ==
    /\ \E u \in Users \cup {Null} : u # owner /\ owner' = u
    /\ UNCHANGED <<enabled, passphrase, invites, voices, keys>>
    /\ Change

(* The invites are deleted by a later statement, which may fail. *)
RegisterDevice(u, k) ==
    /\ owner' = u /\ passphrase' = k
    /\ \/ guests' = {} /\ former' = {}
       \/ UNCHANGED invites
    /\ proven' = 0 /\ raced' = (tools > 0)
    /\ UNCHANGED <<enabled, voices, key, tools>>
    /\ Change

SetInviteEnable ==
    /\ enabled' = ~enabled
    /\ UNCHANGED <<owner, passphrase, invites, voices, keys>>
    /\ Change

(* The key is sent to the device by update_config, or typed on its console. *)
SetKey(k) ==
    /\ key # k
    /\ key' = k /\ proven' = 0
    /\ UNCHANGED <<device, invites, voices, tools, raced>>
    /\ Change

-----------------------------------------------------------------------------
(* The invites: see Access. *)

AcceptInvite(u) ==
    /\ u \notin guests
    /\ guests' = guests \cup {u} /\ former' = former \ {u}
    /\ UNCHANGED <<device, voices, keys>>
    /\ Change

Expire(u) ==
    /\ u \in guests
    /\ guests' = guests \ {u} /\ former' = former \cup {u}
    /\ UNCHANGED <<device, voices, keys>>
    /\ Change

RemoveInvite(u) ==
    /\ u \in guests \cup former
    /\ guests' = guests \ {u} /\ former' = former \ {u}
    /\ UNCHANGED <<device, voices, keys>>
    /\ Change

-----------------------------------------------------------------------------
(* The voices of the users. *)

(* The token is checked, and then the service makes the embedding. *)
RegisterVoice(u, p) ==
    /\ embedding[u] = Null
    /\ embedding' = [embedding EXCEPT ![u] = p]
    /\ UNCHANGED <<device, invites, voice, keys>>
    /\ Change

StoreVoice(u) ==
    /\ embedding[u] # Null
    /\ voice' = [voice EXCEPT ![u] = embedding[u]]
    /\ embedding' = [embedding EXCEPT ![u] = Null]
    /\ UNCHANGED <<device, invites, keys>>
    /\ Change

(* The service fails, or the body is empty. *)
FailVoice(u) ==
    /\ embedding[u] # Null
    /\ embedding' = [embedding EXCEPT ![u] = Null]
    /\ UNCHANGED <<device, invites, voice, keys>>
    /\ Change

DeleteVoice(u) ==
    /\ voice[u] # Null
    /\ voice' = [voice EXCEPT ![u] = Null]
    /\ UNCHANGED <<device, invites, embedding, keys>>
    /\ Change

-----------------------------------------------------------------------------
(* The tool add_passphrase, which an operator runs on the database. *)

(* Faulty variant: every device is listed. *)
ListAllDevices ==
    /\ tools < MaxTools
    /\ tools' = tools + 1
    /\ UNCHANGED <<device, invites, voices, key, proven, raced>>
    /\ Change

ListDevices ==
    /\ passphrase = 0
    /\ tools < MaxTools
    /\ tools' = tools + 1
    /\ UNCHANGED <<device, invites, voices, key, proven, raced>>
    /\ Change

(* The operator has taken his time; the statement does not look again. *)
SetPassphrase(k) ==
    /\ tools > 0
    /\ tools' = tools - 1
    /\ passphrase' = k
    /\ raced' = (raced \/ tools > 1)
    /\ UNCHANGED <<owner, enabled, invites, voices, key, proven>>
    /\ Change

(* The list is left without a choice. *)
LeaveTool ==
    /\ tools > 0
    /\ tools' = tools - 1
    /\ UNCHANGED <<device, invites, voices, key, proven, raced>>
    /\ Change

-----------------------------------------------------------------------------
(* verify_voice. *)

(* The device has recorded somebody, and sends what it has heard. *)
Speak ==
    /\ at = "idle" /\ at' = "device"
    /\ speaker' \in Persons
    /\ bearer' = key
    /\ UNCHANGED <<device, invites, voices, keys, changes, invited, user_ids,
                   user_embeddings, matched_user_id, failed>>
    /\ owners' = Owners /\ accepted' = guests /\ allowed' = enabled
    /\ heard' = Heard /\ steady' = Entitled'

tables == <<device, invites, voices, key, tools, raced, changes>>

Deny ==
    /\ at' = "denied"
    /\ UNCHANGED <<tables, proven, speaker, bearer, invited, user_ids, user_embeddings,
                   matched_user_id, failed, seen>>

(* 400 without an owner; 401 without a token or a passphrase, or with the *)
(* wrong one.                                                             *)
Recognised == owner # Null /\ bearer # 0 /\ bearer = passphrase

ReadDevice ==
    /\ at = "device" /\ Recognised
    /\ at' = "owner"
    /\ user_ids' = <<owner>>
    /\ invited' = enabled
    /\ proven' = IF bearer = key THEN key ELSE proven
    /\ UNCHANGED <<tables, speaker, bearer, user_embeddings, matched_user_id, failed, seen>>

RefuseDevice == at = "device" /\ ~Recognised /\ Deny

ReadOwner ==
    /\ at = "owner" /\ voice[user_ids[1]] # Null
    /\ at' = IF invited THEN "guests" ELSE "service"
    /\ user_embeddings' = <<voice[user_ids[1]]>>
    /\ UNCHANGED <<tables, proven, speaker, bearer, invited, user_ids, matched_user_id,
                   failed, seen>>

(* 400: the owner has no voice. *)
RefuseOwner == at = "owner" /\ voice[user_ids[1]] = Null /\ Deny

(* The orders in which a statement may return the rows of a set. *)
Rows(S) == {s \in [1..Cardinality(S) -> S] : \A x \in S : \E i \in DOMAIN s : s[i] = x}

(* A JOIN of users and invites, which gives the users of S. *)
Collect(S) ==
    /\ at = "guests" /\ at' = "service"
    /\ \E rows \in Rows(S) :
           /\ user_ids' = user_ids \o rows
           /\ user_embeddings' = user_embeddings \o [i \in DOMAIN rows |-> voice[rows[i]]]
    /\ UNCHANGED <<tables, proven, speaker, bearer, invited, matched_user_id, failed, seen>>

WithVoice(S) == {u \in S : voice[u] # Null}

(* Faulty variants: guests without a voice are read too; invites that have *)
(* expired are; a guest without a voice is an error, as he is as an owner. *)
ReadVoiceless == Collect(guests)
ReadExpired   == Collect(WithVoice(guests \cup former))
ReadOrDeny    ==
    \/ Collect(guests) /\ WithVoice(guests) = guests
    \/ at = "guests" /\ WithVoice(guests) # guests /\ Deny

ReadGuests == Collect(WithVoice(guests))

(* The candidates that the service finds to be the speaker. *)
Matches == {i \in DOMAIN user_embeddings : user_embeddings[i] = speaker}

Grant ==
    /\ at = "service" /\ at' = "granted"
    /\ \E best_index \in Matches :
           /\ best_index \in DOMAIN user_ids
           /\ matched_user_id' = user_ids[best_index]
    /\ UNCHANGED <<tables, proven, speaker, bearer, invited, user_ids, user_embeddings,
                   failed, seen>>

(* No score is above the threshold: 403. *)
Refuse == at = "service" /\ Matches = {} /\ Deny

(* 500: the service or the database fails; 400: the body does. *)
Fail ==
    /\ Active /\ at' = "denied"
    /\ failed' = TRUE
    /\ UNCHANGED <<tables, proven, speaker, bearer, invited, user_ids, user_embeddings,
                   matched_user_id, seen>>

(* The device has its answer, and the door its own module. *)
Close ==
    /\ at \in {"granted", "denied"} /\ at' = "idle"
    /\ speaker' = Null /\ bearer' = 0 /\ invited' = FALSE /\ failed' = FALSE
    /\ user_ids' = <<>> /\ user_embeddings' = <<>> /\ matched_user_id' = Null
    /\ owners' = {} /\ accepted' = {} /\ allowed' = FALSE /\ heard' = {} /\ steady' = {}
    /\ UNCHANGED <<tables, proven>>

-----------------------------------------------------------------------------
Tables ==
    \/ SetOwner \/ SetInviteEnable
    \/ \E k \in 0..MaxKeys : SetKey(k)
    \/ \E k \in 1..MaxKeys : SetPassphrase(k) \/ \E u \in Users : RegisterDevice(u, k)
    \/ \E u \in Users : AcceptInvite(u) \/ Expire(u) \/ RemoveInvite(u)
    \/ \E u \in Users : StoreVoice(u) \/ FailVoice(u) \/ DeleteVoice(u)
    \/ \E u \in Users, p \in Persons : RegisterVoice(u, p)
    \/ ListDevices \/ LeaveTool

Verification ==
    \/ Speak \/ ReadDevice \/ RefuseDevice \/ ReadOwner \/ RefuseOwner \/ ReadGuests
    \/ Grant \/ Refuse \/ Fail \/ Close

Next == Tables \/ Verification

Spec == Init /\ [][Next]_vars

-----------------------------------------------------------------------------
(* Whoever is let in has the voice that spoke; since the request came he    *)
(* has had it registered, and has been the owner, or a guest while or       *)
(* before or after guests could speak: verify_voice names the right         *)
(* candidate, and nothing it has read is older than the request.  It reads  *)
(* the rights and the voices one after the other: he need not have had all  *)
(* of them at one moment.                                                   *)
NamedSpoke ==
    at = "granted" =>
        /\ matched_user_id \in owners \/ (allowed /\ matched_user_id \in accepted)
        /\ <<matched_user_id, speaker>> \in heard

(* A user who has been entitled all the time that the request took, under   *)
(* the same owner, is refused only if the service or the database fails:    *)
(* no change elsewhere makes verify_voice lose a candidate.                 *)
EntitledIsHeard == at = "denied" => failed \/ steady = {}

(* The passphrase with which a device has passed stays valid until the      *)
(* device is registered again or given another key, unless it was set while *)
(* a run of add_passphrase had listed the device as one without: such a run *)
(* writes over it.                                                          *)
ProvenKeyStays == proven # 0 /\ ~raced => passphrase = proven
=============================================================================
