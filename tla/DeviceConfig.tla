---------------------------- MODULE DeviceConfig ----------------------------
(***************************************************************************)
(* The configuration of the device: config.c.                              *)
(*                                                                         *)
(* A parameter lives in the structure config, in RAM, and in an entry of   *)
(* the NVS partition.  load_config_from_nvs fills the first from the       *)
(* second at start.  update_config, called by the MQTT task and by the     *)
(* serial task with no lock between them, decides from RAM whether there   *)
(* is anything to do, writes the entry, then RAM, then commits, and        *)
(* reports CONFIG_UPDATED.  Each of these is a step here.                  *)
(*                                                                         *)
(* NVS is external: an entry that has been set is seen by every later      *)
(* read, and survives a restart for certain only once it is committed.     *)
(* Values are abstract, and a number stands for what atoi makes of it.  A  *)
(* string may be longer than its field of the structure: nothing checks.   *)
(* It is stored whole; in RAM strcpy runs on into the fields that follow;  *)
(* and a start finds no room for it and takes the default.                 *)
(***************************************************************************)
EXTENDS Naturals

CONSTANTS
    Tasks,      \* tasks that call update_config
    Keys,       \* parameters
    Unmirrored, \* those update_config does not copy to RAM: pairing_mode
    CaseKept,   \* those whose entry is named by the key as it was typed
    Values,
    Long,       \* values longer than a narrow field
    Narrow,     \* parameters whose field a command can overrun: char[32], char[64]
    Beyond,     \* for each of them, the fields that an overrun reaches
    Default,    \* the provisioned value, or the one of menuconfig
    None,       \* no job, no acknowledged value
    Failing,    \* operations of NVS that may fail: "open" at start, "write"
    Typed       \* how a key may be typed: {"exact"}, or {"exact", "othercase"}

Mirrored == Keys \ Unmirrored

ASSUME ConfigAssumption ==
    /\ Unmirrored \subseteq Keys
    /\ CaseKept \subseteq Keys
    /\ Default \in Values \ Long
    /\ Narrow \subseteq Keys
    /\ Beyond \in [Narrow -> SUBSET Keys]
    /\ None \notin Values
    /\ Failing \subseteq {"open", "write"}
    /\ Typed \subseteq {"exact", "othercase"}

VARIABLES
    ram,     \* the structure config
    page,    \* the NVS entries as nvs_get sees them
    flash,   \* the NVS entries a loss of power is sure to leave
    erased,  \* nvs_flash_erase was called since the start
    step,    \* where each task is in update_config
    job,     \* key, value and spelling of the call of each task
    acked,   \* value of the last CONFIG_UPDATED of each key, see Superseded
    clean    \* history: see below

stores == <<ram, page, flash>>
vars   == <<stores, erased, step, job, acked, clean>>

Jobs  == [key : Keys, value : Values, typed : Typed]
Steps == {"idle", "check", "set", "copy", "commit", "same"}

TypeOK ==
    /\ ram \in [Keys -> Values]
    /\ page \in [Keys -> Values]
    /\ flash \in [Keys -> Values]
    /\ erased \in BOOLEAN
    /\ step \in [Tasks -> Steps]
    /\ job \in [Tasks -> Jobs \cup {None}]
    /\ \A t \in Tasks : step[t] # "idle" => job[t] \in Jobs
    /\ acked \in [Keys -> Values \cup {None}]
    /\ clean \in [Keys -> BOOLEAN]

(* A first start: load_config_from_nvs stored the defaults. *)
Init ==
    /\ ram = [k \in Keys |-> Default]
    /\ page = ram
    /\ flash = ram
    /\ erased = FALSE
    /\ step = [t \in Tasks |-> "idle"]
    /\ job = [t \in Tasks |-> None]
    /\ acked = [k \in Keys |-> None]
    /\ clean = [k \in Keys |-> TRUE]

-----------------------------------------------------------------------------
(***************************************************************************)
(* clean[k]: since the parameter was last known to agree in the three      *)
(* places, no commit of it failed, no two tasks were writing it at once,   *)
(* it was not stored under another spelling, neither it nor a field before *)
(* it was overrun, and NVS was not erased or unavailable at the start.  No *)
(* guard reads it.                                                         *)
(***************************************************************************)
Key(t)   == job[t].key
Value(t) == job[t].value

(* The task has decided that its value is stored, or is storing it. *)
Writing(t, k) == step[t] \in {"same", "copy", "commit"} /\ Key(t) = k

Alone(t) == \A s \in Tasks \ {t} : ~Writing(s, Key(t))

(* The entry that is set is the one that load_config_from_nvs reads. *)
OwnEntry(t) == job[t].typed = "exact" \/ Key(t) \notin CaseKept

Fits(k, v) == k \in Narrow => v \notin Long

(* The field that the copy of a task writes, if any, and the ones that     *)
(* this spoils: those that its value overruns, and those whose own string  *)
(* runs on into the field written.                                         *)
Copied(t) == {Key(t)} \cap Mirrored

Spoiled(t) ==
    {k \in Keys \ Copied(t) : \E c \in Copied(t) :
        \/ c \in Narrow /\ ~Fits(c, Value(t)) /\ k \in Beyond[c]
        \/ k \in Narrow /\ ~Fits(k, ram[k]) /\ c \in Beyond[k]}

Done(t) == step' = [step EXCEPT ![t] = "idle"] /\ job' = [job EXCEPT ![t] = None]
Goto(t, s) == step' = [step EXCEPT ![t] = s] /\ UNCHANGED job

-----------------------------------------------------------------------------
(* Faulty variant: the key is not looked up among the valid ones. *)
CallUnchecked(t, k, v, typed) ==
    /\ step[t] = "idle"
    /\ step' = [step EXCEPT ![t] = "check"]
    /\ \E key \in {k, None} :
          job' = [job EXCEPT ![t] = [key |-> key, value |-> v, typed |-> typed]]
    /\ UNCHANGED <<stores, erased, acked, clean>>

(* update_config, called with a valid key. *)
Call(t, k, v, typed) ==
    /\ step[t] = "idle"
    /\ step' = [step EXCEPT ![t] = "check"]
    /\ job' = [job EXCEPT ![t] = [key |-> k, value |-> v, typed |-> typed]]
    /\ UNCHANGED <<stores, erased, acked, clean>>

(* nvs_open fails once the partition has been erased: NVM_OPEN_FAILED. *)
OpenFails(t) ==
    /\ step[t] = "check"
    /\ erased
    /\ Done(t)
    /\ UNCHANGED <<stores, erased, acked, clean>>

(* needs_update is decided from RAM. *)
Check(t) ==
    /\ step[t] = "check"
    /\ ~erased
    /\ \/ /\ ram[Key(t)] = Value(t)
          /\ clean' = [clean EXCEPT ![Key(t)] = @ /\ Alone(t)]
          /\ Goto(t, "same")
       \/ /\ ram[Key(t)] # Value(t)
          /\ Goto(t, "set")
          /\ UNCHANGED clean
    /\ UNCHANGED <<stores, erased, acked>>

(* The same value: CONFIG_UPDATED. *)
AnswerSame(t) ==
    /\ step[t] = "same"
    /\ acked' = [acked EXCEPT ![Key(t)] = Value(t)]
    /\ Done(t)
    /\ UNCHANGED <<stores, erased, clean>>

(* UPDATE_CONFIG_FAILED. *)
SetFails(t) ==
    /\ step[t] = "set"
    /\ "write" \in Failing \/ erased
    /\ Done(t)
    /\ UNCHANGED <<stores, erased, acked, clean>>

(* What was acknowledged before is superseded by the new value. *)
Set(t) ==
    /\ step[t] = "set"
    /\ ~erased
    /\ page' = IF OwnEntry(t) THEN [page EXCEPT ![Key(t)] = Value(t)] ELSE page
    /\ acked' = [acked EXCEPT ![Key(t)] = None]
    /\ clean' = [clean EXCEPT ![Key(t)] =
                    @ /\ Alone(t) /\ OwnEntry(t) /\ Fits(Key(t), Value(t))]
    /\ Goto(t, "copy")
    /\ UNCHANGED <<ram, flash, erased>>

(* A spoiled field may hold anything. *)
Copy(t) ==
    /\ step[t] = "copy"
    /\ ram' \in {r \in [Keys -> Values] : \A k \in Keys :
                    /\ k \in Copied(t) => r[k] = Value(t)
                    /\ k \notin Copied(t) \cup Spoiled(t) => r[k] = ram[k]}
    /\ clean' = [k \in Keys |-> clean[k] /\ k \notin Spoiled(t)]
    /\ Goto(t, "commit")
    /\ UNCHANGED <<page, flash, erased, acked>>

(* COMMIT_CONFIG_FAILED: the entry and RAM keep the new value. *)
CommitFails(t) ==
    /\ step[t] = "commit"
    /\ "write" \in Failing \/ erased
    /\ clean' = [clean EXCEPT ![Key(t)] = FALSE]
    /\ Done(t)
    /\ UNCHANGED <<stores, erased, acked>>

(* Faulty variant: CONFIG_UPDATED is published without committing. *)
CommitForgotten(t) ==
    /\ step[t] = "commit"
    /\ ~erased
    /\ acked' = [acked EXCEPT ![Key(t)] = Value(t)]
    /\ Done(t)
    /\ UNCHANGED <<stores, erased, clean>>

(* CONFIG_UPDATED. *)
Commit(t) ==
    /\ step[t] = "commit"
    /\ ~erased
    /\ flash' = IF OwnEntry(t) THEN [flash EXCEPT ![Key(t)] = page[Key(t)]] ELSE flash
    /\ acked' = [acked EXCEPT ![Key(t)] = Value(t)]
    /\ clean' = [clean EXCEPT ![Key(t)] =
                    /\ Alone(t)
                    /\ OwnEntry(t)
                    /\ Fits(Key(t), Value(t))
                    /\ @ \/ (ram[Key(t)] = Value(t) /\ page[Key(t)] = Value(t))]
    /\ Done(t)
    /\ UNCHANGED <<ram, page, erased>>

(* FLASH: the partition is erased, and closed until the next start, which  *)
(* stores the defaults.                                                    *)
Erase ==
    /\ erased' = TRUE
    /\ page' = [k \in Keys |-> Default]
    /\ flash' = page'
    /\ acked' = [k \in Keys |-> None]
    /\ clean' = [k \in Keys |-> FALSE]
    /\ UNCHANGED <<ram, step, job>>

-----------------------------------------------------------------------------
(***************************************************************************)
(* A restart, asked for or not, at any moment: every call is lost, and so  *)
(* may be what was set and not committed.  load_config_from_nvs reads what *)
(* is left.  nvs_get_str refuses an entry longer than the field: the       *)
(* default is taken and stored in its place, and no one looks whether that *)
(* succeeds.  When NVS cannot be opened every parameter gets its default.  *)
(* (acked keeps the acknowledgements that the restart has to honour.)      *)
(***************************************************************************)
Stop ==
    /\ step' = [t \in Tasks |-> "idle"]
    /\ job' = [t \in Tasks |-> None]
    /\ acked' = [k \in Keys |-> IF clean[k] THEN acked[k] ELSE None]

Left(p) == p \in [Keys -> Values] /\ \A k \in Keys : p[k] \in {page[k], flash[k]}

Load(p) == [k \in Keys |-> IF Fits(k, p[k]) THEN p[k] ELSE Default]

Restart ==
    /\ Stop
    /\ \E p \in {q \in [Keys -> Values] : Left(q)} :
          /\ ram' = Load(p)
          /\ page' = ram' \/ ("write" \in Failing /\ page' = p)
    /\ flash' = page'
    /\ erased' = FALSE
    /\ clean' = [k \in Keys |-> page'[k] = ram'[k]]

RestartBlind ==
    /\ "open" \in Failing
    /\ Stop
    /\ page' \in {q \in [Keys -> Values] : Left(q)}
    /\ flash' = page'
    /\ ram' = [k \in Keys |-> Default]
    /\ erased' = FALSE
    /\ clean' = [k \in Keys |-> FALSE]

-----------------------------------------------------------------------------
Update(t) ==
    \/ \E k \in Keys, v \in Values, typed \in Typed : Call(t, k, v, typed)
    \/ OpenFails(t) \/ Check(t) \/ AnswerSame(t) \/ SetFails(t) \/ Set(t)
    \/ Copy(t) \/ CommitFails(t) \/ Commit(t)

Next ==
    \/ \E t \in Tasks : Update(t)
    \/ Erase
    \/ Restart
    \/ RestartBlind

Spec == Init /\ [][Next]_vars

-----------------------------------------------------------------------------
(* Safety. *)

(* A parameter that nobody is writing is the same in RAM, in its entry and *)
(* in what a loss of power leaves, unless one of the events recorded in    *)
(* clean happened to it.                                                   *)
MemoryIsStored ==
    \A k \in Mirrored :
        clean[k] /\ (\A t \in Tasks : step[t] # "same" => ~Writing(t, k))
            => ram[k] = page[k] /\ page[k] = flash[k]

(* With the same exceptions, a restart at any moment brings back the value *)
(* that was last acknowledged and not superseded.                          *)
RestartRemembers ==
    [][Restart => \A k \in Mirrored :
            clean[k] /\ acked[k] # None => ram'[k] = acked[k]]_vars
=============================================================================
