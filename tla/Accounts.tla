------------------------------ MODULE Accounts ------------------------------
(***************************************************************************)
(* The account of one user, which three services keep: Firebase            *)
(* Authentication and the backend each have its password, Firestore has    *)
(* its profile.  The application of a phone writes to them one after the   *)
(* other, with nothing that undoes the first when the second fails, and    *)
(* keeps the token of the session that the backend opened.                 *)
(*                                                                         *)
(* The user has several phones.  A phone does one thing at a time, but a   *)
(* call that it no longer waits for goes on in the backend.  Passwords and *)
(* tokens are numbered in the order of their making; 0 is none.            *)
(*                                                                         *)
(* What else delete_account deletes is in Access, voices are in Voices.    *)
(* Names that Access has too begin with Accounts, since UserProofs is      *)
(* about both.                                                             *)
(***************************************************************************)
EXTENDS Naturals, FiniteSets

CONSTANTS
    Phones,
    MaxPasswords,  \* bound on the passwords the account ever has
    MaxTokens,     \* bound on the logins
    MaxLeft        \* bound on the calls that are left behind at a time

ASSUME AccountsAssumption ==
    MaxPasswords \in Nat \ {0} /\ MaxTokens \in Nat /\ MaxLeft \in Nat

VARIABLES
    firebase,   \* the password in Firebase Authentication
    profile,    \* the document usuarios/<uid> of Firestore
    hashed,     \* users.hashed_password
    token,      \* users.current_token
    passwords,  \* passwords so far
    issued,     \* tokens so far
    at,         \* what each phone is doing
    stored,     \* the token each phone keeps
    signed,     \* the phone has a current user of Firebase
    calls,      \* calls under way in the backend
    broken,     \* history: a flow was cut short or refused half-way
    alone,      \* history: the phone's change of password has met no other
    doubt       \* history: the two passwords may differ

services == <<firebase, profile>>
row      == <<hashed, token, issued>>
phones   == <<at, stored, signed>>
history  == <<broken, alone, doubt>>
accountsVars ==
    <<services, row, passwords, phones, calls, history>>

Steps == {"idle", "profiling", "registering", "logging_in", "leaving", "changing",
          "verifying", "erasing", "unlinking", "deleting"}

Operations == {"register", "login", "logout", "update", "verify", "delete"}

(* A call of a phone, with what it carries: a token and a password. *)
Calls ==
    [phone : Phones, operation : Operations, token : 0..MaxTokens,
     password : 0..MaxPasswords, checked : BOOLEAN, awaited : BOOLEAN]

(* A phone waits for the call that it has made. *)
WaitsFor(p, operation) ==
    \/ at[p] = "registering" /\ operation = "register"
    \/ at[p] = "logging_in"  /\ operation = "login"
    \/ at[p] = "leaving"     /\ operation = "logout"
    \/ at[p] = "changing"    /\ operation = "update"
    \/ at[p] = "verifying"   /\ operation = "verify"
    \/ at[p] = "deleting"    /\ operation = "delete"

(* Every variable has its type, and the answer of a call that is awaited   *)
(* finds its phone in the step that made it.                               *)
AccountsTypeOK ==
    /\ firebase \in 0..MaxPasswords /\ hashed \in 0..MaxPasswords
    /\ profile \in BOOLEAN
    /\ token \in 0..MaxTokens /\ issued \in 0..MaxTokens
    /\ passwords \in 0..MaxPasswords
    /\ at \in [Phones -> Steps]
    /\ stored \in [Phones -> 0..MaxTokens]
    /\ signed \in [Phones -> BOOLEAN]
    /\ calls \subseteq Calls
    /\ \A c \in calls : c.awaited => WaitsFor(c.phone, c.operation)
    /\ broken \in BOOLEAN /\ doubt \in BOOLEAN
    /\ alone \in [Phones -> BOOLEAN]

AccountsInit ==
    /\ firebase = 0 /\ hashed = 0 /\ profile = FALSE
    /\ token = 0 /\ issued = 0 /\ passwords = 0
    /\ at = [p \in Phones |-> "idle"]
    /\ stored = [p \in Phones |-> 0]
    /\ signed = [p \in Phones |-> FALSE]
    /\ calls = {}
    /\ broken = FALSE /\ doubt = FALSE
    /\ alone = [p \in Phones |-> FALSE]

-----------------------------------------------------------------------------
(* The phones. *)

MoveTo(p, step) == at' = [at EXCEPT ![p] = step]

(* register and logout have no check of their own. *)
Call(p, operation, password) ==
    calls' = calls \cup {[phone |-> p, operation |-> operation, token |-> stored[p],
                          password |-> password, awaited |-> TRUE,
                          checked |-> operation \in {"register", "logout"}]}

Awaited(p) == {c \in calls : c.phone = p /\ c.awaited}

(* The answer to a call; a call that nobody awaits has none. *)
Conclude(c) == calls' = calls \ {c}

(* PaginaCadastro: the user of Firebase, his profile, and then the backend. *)
SignUp(p) ==
    /\ at[p] = "idle"
    /\ firebase = 0 /\ passwords = 0
    /\ firebase' = 1 /\ passwords' = 1
    /\ signed' = [signed EXCEPT ![p] = TRUE]
    /\ MoveTo(p, "profiling")
    /\ UNCHANGED <<profile, row, stored, calls, history>>

SaveProfile(p) ==
    /\ at[p] = "profiling"
    /\ profile' = TRUE
    /\ MoveTo(p, "registering")
    /\ Call(p, "register", 1)
    /\ UNCHANGED <<firebase, row, passwords, stored, signed, history>>

(* Firebase and the profile are asked first.  No token is kept yet. *)
LogIn(p) ==
    /\ at[p] = "idle" /\ stored[p] = 0
    /\ firebase # 0
    /\ signed' = [signed EXCEPT ![p] = TRUE]
    /\ IF profile
       THEN MoveTo(p, "logging_in") /\ Call(p, "login", firebase)
       ELSE UNCHANGED <<at, calls>>
    /\ UNCHANGED <<services, row, passwords, stored, history>>

LogOut(p) ==
    /\ at[p] = "idle" /\ stored[p] # 0
    /\ MoveTo(p, "leaving")
    /\ Call(p, "logout", 0)
    /\ UNCHANGED <<services, row, passwords, stored, signed, history>>

(* Changes of password, in Firebase or on their way to the backend. *)
Changing == {p \in Phones : at[p] = "changing"}
Updates  == {c \in calls : c.operation = "update"}

(* PaginaConta: Firebase first, then the backend. *)
ChangePassword(p) ==
    /\ at[p] = "idle" /\ stored[p] # 0 /\ signed[p]
    /\ firebase # 0 /\ passwords < MaxPasswords
    /\ firebase' = passwords + 1 /\ passwords' = passwords + 1
    /\ MoveTo(p, "changing")
    /\ Call(p, "update", passwords + 1)
    /\ alone' = [q \in Phones |-> q = p /\ Updates = {}]
    /\ UNCHANGED <<profile, row, stored, signed, broken, doubt>>

(* PaginaEsqueci and the mail of Firebase: the backend is not told. *)
ResetByMail ==
    /\ firebase # 0 /\ passwords < MaxPasswords
    /\ firebase' = passwords + 1 /\ passwords' = passwords + 1
    /\ doubt' = TRUE
    /\ alone' = [p \in Phones |-> FALSE]
    /\ UNCHANGED <<profile, row, phones, calls, broken>>

(* PaginaConta: the password, the profile, Firebase, and then the backend. *)
DeleteAccount(p) ==
    /\ at[p] = "idle" /\ stored[p] # 0 /\ signed[p]
    /\ MoveTo(p, "verifying")
    /\ \E password \in 1..passwords : Call(p, "verify", password)
    /\ UNCHANGED <<services, row, passwords, stored, signed, history>>

EraseProfile(p) ==
    /\ at[p] = "erasing"
    /\ profile' = FALSE
    /\ MoveTo(p, "unlinking")
    /\ UNCHANGED <<firebase, row, passwords, stored, signed, calls, history>>

(* Firebase refuses unless the user has signed in recently (Interrupt). *)
DeleteUser(p) ==
    /\ at[p] = "unlinking" /\ signed[p]
    /\ firebase # 0
    /\ firebase' = 0
    /\ signed' = [signed EXCEPT ![p] = FALSE]
    /\ MoveTo(p, "deleting")
    /\ Call(p, "delete", 0)
    /\ UNCHANGED <<profile, row, passwords, stored, history>>

(* Half-way, the stores may be left with different things. *)
Halfway == {"profiling", "registering", "changing", "unlinking", "deleting"}

Stop(p) ==
    /\ MoveTo(p, "idle")
    /\ broken' = (broken \/ at[p] \in Halfway)
    /\ doubt' = (doubt \/ at[p] = "changing")

(* Faulty variant: the answer of a call that was given up is still acted   *)
(* upon.                                                                   *)
InterruptAndListen(p) ==
    /\ at[p] # "idle"
    /\ Stop(p)
    /\ UNCHANGED <<services, row, passwords, stored, signed, calls, alone>>

(* The application is closed, or Firebase or the network fails; a call that *)
(* was sent is no longer awaited, or was never received.                    *)
Interrupt(p) ==
    /\ at[p] # "idle"
    /\ Stop(p)
    /\ \/ /\ Cardinality({c \in calls : ~c.awaited}) < MaxLeft
          /\ calls' = (calls \ Awaited(p)) \cup {[c EXCEPT !.awaited = FALSE] : c \in Awaited(p)}
       \/ calls' = calls \ Awaited(p)
    /\ UNCHANGED <<services, row, passwords, stored, signed, alone>>

-----------------------------------------------------------------------------
(* The backend: the checks of a call come first, its statements later. *)

(* SELECT firebase_uid FROM users WHERE current_token = $1. *)
Valid(t) == hashed # 0 /\ t # 0 /\ t = token

Passes(c) ==
    IF c.operation = "login" THEN hashed # 0 /\ c.password = hashed ELSE Valid(c.token)

Check(c) ==
    /\ ~c.checked
    /\ Passes(c)
    /\ calls' = (calls \ {c}) \cup {[c EXCEPT !.checked = TRUE]}
    /\ UNCHANGED <<services, row, passwords, phones, history>>

(* What the phone does with a call that is refused: it gives up. *)
Refuse(c) ==
    /\ \/ ~c.checked /\ ~Passes(c)
       \/ c.checked /\ c.operation = "verify" /\ c.password # hashed
    /\ Conclude(c)
    /\ IF c.awaited
       THEN Stop(c.phone)
       ELSE UNCHANGED <<at, broken, doubt>>
    /\ UNCHANGED <<services, row, passwords, stored, signed, alone>>

Done(c, step) ==
    /\ Conclude(c)
    /\ IF c.awaited THEN MoveTo(c.phone, step) ELSE UNCHANGED at

RegisterUser(c) ==
    /\ c.operation = "register" /\ c.checked
    /\ hashed = 0
    /\ hashed' = c.password
    /\ Done(c, "idle")
    /\ UNCHANGED <<services, token, issued, passwords, stored, signed, history>>

(* LocalService.login keeps the token, or wipes what the phone stores: the  *)
(* session is open all the same.  The account may be gone by now.           *)
LoginUser(c) ==
    /\ c.operation = "login" /\ c.checked
    /\ issued < MaxTokens
    /\ issued' = issued + 1
    /\ token' = IF hashed # 0 THEN issued' ELSE token
    /\ Done(c, "idle")
    /\ \/ /\ c.awaited
          /\ stored' = [stored EXCEPT ![c.phone] = issued']
          /\ UNCHANGED signed
       \/ /\ c.awaited
          /\ signed' = [signed EXCEPT ![c.phone] = FALSE]
          /\ UNCHANGED stored
       \/ ~c.awaited /\ UNCHANGED <<stored, signed>>
    /\ UNCHANGED <<services, hashed, passwords, history>>

(* Faulty variant: the statement names the user whose token it was, and *)
(* ends whatever session is open by now.                                *)
LogoutByUser(c) ==
    /\ c.operation = "logout" /\ c.checked
    /\ token' = 0
    /\ Done(c, "idle")
    /\ IF c.awaited
       THEN /\ stored' = [stored EXCEPT ![c.phone] = 0]
            /\ signed' = [signed EXCEPT ![c.phone] = FALSE]
       ELSE UNCHANGED <<stored, signed>>
    /\ UNCHANGED <<services, hashed, issued, passwords, history>>

(* The statement compares the token with firebase_uid: it matches no row. *)
LogoutUser(c) ==
    /\ c.operation = "logout" /\ c.checked
    /\ Done(c, "idle")
    /\ IF c.awaited
       THEN /\ stored' = [stored EXCEPT ![c.phone] = 0]
            /\ signed' = [signed EXCEPT ![c.phone] = FALSE]
       ELSE UNCHANGED <<stored, signed>>
    /\ UNCHANGED <<services, row, passwords, history>>

(* Faulty variant: the statement asks for the token, and the answer is 200 *)
(* all the same when another login has replaced it.                        *)
UpdateByToken(c) ==
    /\ c.operation = "update" /\ c.checked
    /\ hashed' = IF Valid(c.token) THEN c.password ELSE hashed
    /\ Done(c, "idle")
    /\ doubt' = IF c.awaited THEN ~alone[c.phone] ELSE doubt
    /\ UNCHANGED <<services, token, issued, passwords, stored, signed, broken, alone>>

(* A change that met no other has put an end to the doubt. *)
UpdatePassword(c) ==
    /\ c.operation = "update" /\ c.checked
    /\ hashed' = IF hashed # 0 THEN c.password ELSE 0
    /\ Done(c, "idle")
    /\ doubt' = IF c.awaited THEN ~alone[c.phone] ELSE doubt
    /\ UNCHANGED <<services, token, issued, passwords, stored, signed, broken, alone>>

VerifyPassword(c) ==
    /\ c.operation = "verify" /\ c.checked
    /\ c.password = hashed
    /\ Done(c, "erasing")
    /\ UNCHANGED <<services, row, passwords, stored, signed, history>>

(* Faulty variant: the same for the account. *)
DeleteByToken(c) ==
    /\ c.operation = "delete" /\ c.checked
    /\ hashed' = IF Valid(c.token) THEN 0 ELSE hashed
    /\ token' = IF Valid(c.token) THEN 0 ELSE token
    /\ Done(c, "idle")
    /\ stored' = IF c.awaited THEN [stored EXCEPT ![c.phone] = 0] ELSE stored
    /\ UNCHANGED <<services, issued, passwords, signed, history>>

(* The phone then logs out, and keeps what it stores if that call fails. *)
DeleteRow(c) ==
    /\ c.operation = "delete" /\ c.checked
    /\ hashed' = 0 /\ token' = 0
    /\ Done(c, "idle")
    /\ \/ c.awaited /\ stored' = [stored EXCEPT ![c.phone] = 0]
       \/ UNCHANGED stored
    /\ UNCHANGED <<services, issued, passwords, signed, history>>

-----------------------------------------------------------------------------
Application(p) ==
    \/ SignUp(p) \/ SaveProfile(p) \/ LogIn(p) \/ LogOut(p)
    \/ ChangePassword(p) \/ DeleteAccount(p) \/ EraseProfile(p) \/ DeleteUser(p)
    \/ Interrupt(p)

Backend(c) ==
    \/ Check(c) \/ Refuse(c) \/ RegisterUser(c) \/ LoginUser(c) \/ LogoutUser(c)
    \/ UpdatePassword(c) \/ VerifyPassword(c) \/ DeleteRow(c)

AccountsNext ==
    \/ \E p \in Phones : Application(p)
    \/ \E c \in calls : Backend(c)
    \/ ResetByMail

AccountsSpec == AccountsInit /\ [][AccountsNext]_accountsVars

-----------------------------------------------------------------------------
(* While no change is under way, the passwords of Firebase and the backend  *)
(* are the same, unless one was reset by mail, or a change was cut short,   *)
(* refused or met another, and no change has had the account to itself      *)
(* since: then every login is refused by one of the two.                    *)
PasswordsAgree ==
    firebase # 0 /\ hashed # 0 /\ ~doubt /\ Changing = {} /\ Updates = {}
        => firebase = hashed

(* The account is in all three services or in none, once nothing is under   *)
(* way, unless a registration, a change or a deletion was cut short or      *)
(* refused half-way.                                                        *)
AccountsAgree ==
    ~broken /\ calls = {} /\ (\A p \in Phones : at[p] = "idle")
        => (firebase # 0) = profile /\ (hashed # 0) = profile

(* The session of a phone ends by a later login or with the account, even   *)
(* if logins and logouts of several phones overlap: nothing else makes its  *)
(* token invalid.                                                           *)
SessionsAreSuperseded ==
    \A p \in Phones : stored[p] # 0 /\ hashed # 0 => token >= stored[p]
=============================================================================
