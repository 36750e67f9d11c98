---------------------------- MODULE SettingsStore ----------------------------
(***************************************************************************)
(* Settings and shot counter between RAM and flash: the storage task, its  *)
(* two signals, restarts and the boot                                      *)
(* (src/firmware/src/storage.rs, shared.rs, main.rs, net/web.rs).          *)
(*                                                                         *)
(* The task saves parameter by parameter and awaits the flash in between,  *)
(* so users, the machine and a power cut come between any two writes.  The *)
(* map in flash is external: one entry is stored or, on an error, it is    *)
(* not; an entry that is missing reads as the default.                     *)
(***************************************************************************)
EXTENDS Integers

CONSTANTS
  N,              (* number of parameters; PARAMS is 1..N in this order     *)
  Value, Default,
  Wifi,           (* the parameters a WiFi reset clears                     *)
  MaxShots,       (* bound on the shot counter                              *)
  FaultCases,     (* the sets of faults to be considered together           *)
  Records         (* the provisioning records that may be written over USB  *)

(* The flash fails to read, write or erase; the power is cut. *)
Fault == {"read", "write", "erase", "power"}

NoRecord == [p \in {} |-> Default]

ASSUME StoreAssumption ==
  /\ N \in Nat /\ MaxShots \in Nat /\ Default \in Value
  /\ Wifi \subseteq 1..N
  /\ FaultCases \subseteq SUBSET Fault
  /\ \A r \in Records : /\ r # NoRecord /\ DOMAIN r \subseteq 1..N
                        /\ \A p \in DOMAIN r : r[p] \in Value

Param == 1..N
Settings == [Param -> Value]
Defaults == [p \in Param |-> Default]
RestartKind == {"Plain", "FactoryReset", "WifiReset"}

VARIABLES
  cfg, shots,             (* in RAM, behind the lock                        *)
  flash, flashShots,      (* in the partition                               *)
  record,                 (* the provisioning partition                     *)
  saved, savedShots,      (* what the task believes is in flash             *)
  persist, restart,       (* the signals PERSIST and RESTART                *)
  pc,                     (* where the task is                              *)
  kind,                   (* the restart it performs                        *)
  draft, draftShots,      (* the copy it is saving                          *)
  next,                   (* the parameter it looks at, N + 1: the counter  *)
  faults                  (* what may go wrong in this behaviour; constant  *)

ram == <<cfg, shots>>
disk == <<flash, flashShots>>
signals == <<persist, restart>>
task == <<kind, draft, draftShots, next>>
vars == <<ram, disk, record, saved, savedShots, signals, pc, task, faults>>

(* "off": no power or resetting; "provision", "bootSave": in main, before  *)
(* the other tasks start; then the task's states, in the order of its code *)
Booting == {"provision", "bootSave"}
Saving == {"bootSave", "save", "lastSave"}
Up == {"wait", "collect", "save", "grace", "lastSave", "reset"}

TypeOK ==
  /\ {cfg, flash, saved, draft} \subseteq Settings
  /\ {shots, flashShots, savedShots, draftShots} \subseteq 0..MaxShots
  /\ record \in Records \cup {NoRecord}
  /\ persist \in BOOLEAN /\ restart \in RestartKind \cup {"none"}
  /\ pc \in {"off"} \cup Booting \cup Up
  /\ kind \in RestartKind \cup {"none"}
  /\ next \in 1..(N + 1)
  /\ faults \in FaultCases

Init ==
  /\ flash \in Settings /\ flashShots = 0
  /\ record \in Records \cup {NoRecord}
  /\ pc = "off" /\ kind = "none" /\ persist = FALSE /\ restart = "none"
  /\ cfg = Defaults /\ saved = Defaults /\ draft = Defaults
  /\ shots = 0 /\ savedShots = 0 /\ draftShots = 0 /\ next = 1
  /\ faults \in FaultCases

-----------------------------------------------------------------------------
(* Boot. *)

(* Without a record, or with one that cannot be read and so stays for the  *)
(* next boot, the tasks start at once.                                     *)
AfterLoad ==
  {p \in {"wait", "provision"} :
     /\ p = "wait" => record = NoRecord \/ "read" \in faults
     /\ p = "provision" => record # NoRecord}

\* Mutant: the values read are not noted as saved.
LoadUnnoted ==
  /\ pc = "off"
  /\ cfg' = flash /\ saved' = Defaults
  /\ shots' = flashShots /\ savedShots' = 0
  /\ pc' \in AfterLoad
  /\ UNCHANGED <<faults, disk, record, signals, task>>

(* load; what cannot be read keeps its default, and counts as saved.       *)
Load ==
  /\ pc = "off"
  /\ \/ cfg' = flash /\ shots' = flashShots
     \/ /\ "read" \in faults
        /\ \E read \in SUBSET Param :
             cfg' = [p \in Param |-> IF p \in read THEN flash[p] ELSE Default]
        /\ shots' \in {0, flashShots}
  /\ saved' = cfg' /\ savedShots' = shots'
  /\ pc' \in AfterLoad
  /\ UNCHANGED <<faults, disk, record, signals, task>>

(* apply_provisioning: the record over the settings; then it is erased.    *)
Provision ==
  /\ pc = "provision"
  /\ cfg' = [p \in Param |-> IF p \in DOMAIN record THEN record[p] ELSE cfg[p]]
  /\ record' = NoRecord \/ ("erase" \in faults /\ UNCHANGED record)
  /\ draft' = cfg' /\ draftShots' = shots /\ next' = 1
  /\ pc' = "bootSave"
  /\ UNCHANGED <<faults, shots, disk, saved, savedShots, signals, kind>>

-----------------------------------------------------------------------------
(* save *)

\* Mutant: a save at boot ends in a restart.
AfterSaveRestarts == IF pc = "save" THEN "wait" ELSE "reset"

AfterSave == IF pc = "lastSave" THEN "reset" ELSE "wait"

\* Mutant: the setting in force is written, not the one that was copied.
SaveParamLive ==
  /\ pc \in Saving /\ next <= N
  /\ \/ /\ draft[next] = saved[next]
        /\ next' = next + 1 /\ UNCHANGED <<flash, pc>>
     \/ /\ draft[next] # saved[next]
        /\ flash' = [flash EXCEPT ![next] = cfg[next]]
        /\ next' = next + 1 /\ UNCHANGED pc
     \/ /\ draft[next] # saved[next] /\ "write" \in faults
        /\ pc' = AfterSave /\ UNCHANGED <<flash, next>>
  /\ UNCHANGED <<faults, ram, flashShots, record, saved, savedShots, signals, kind,
                 draft, draftShots>>

(* One parameter; an error ends the save and leaves saved as it was. *)
SaveParam ==
  /\ pc \in Saving /\ next <= N
  /\ \/ /\ draft[next] = saved[next]
        /\ next' = next + 1 /\ UNCHANGED <<flash, pc>>
     \/ /\ draft[next] # saved[next]
        /\ flash' = [flash EXCEPT ![next] = draft[next]]
        /\ next' = next + 1 /\ UNCHANGED pc
     \/ /\ draft[next] # saved[next] /\ "write" \in faults
        /\ pc' = AfterSave /\ UNCHANGED <<flash, next>>
  /\ UNCHANGED <<faults, ram, flashShots, record, saved, savedShots, signals, kind,
                 draft, draftShots>>

\* Mutants: the end of a save clears the signal; a failed write of the
\* counter counts as done.
SaveShotsForgets ==
  /\ pc \in Saving /\ next = N + 1
  /\ saved' = draft
  /\ flashShots' = draftShots /\ savedShots' = draftShots
  /\ persist' = FALSE
  /\ pc' = AfterSave
  /\ UNCHANGED <<faults, ram, flash, record, restart, task>>
SaveShotsUnchecked ==
  /\ pc \in Saving /\ next = N + 1
  /\ saved' = draft /\ savedShots' = draftShots
  /\ flashShots' = draftShots \/ ("write" \in faults /\ UNCHANGED flashShots)
  /\ pc' = AfterSave
  /\ UNCHANGED <<faults, ram, flash, record, signals, task>>

(* The counter comes last, after saved has been brought up to date. *)
SaveShots ==
  /\ pc \in Saving /\ next = N + 1
  /\ saved' = draft
  /\ \/ draftShots = savedShots /\ UNCHANGED <<flashShots, savedShots>>
     \/ draftShots # savedShots /\ flashShots' = draftShots /\ savedShots' = draftShots
     \/ draftShots # savedShots /\ "write" \in faults /\ UNCHANGED <<flashShots, savedShots>>
  /\ pc' = AfterSave
  /\ UNCHANGED <<faults, ram, flash, record, signals, task>>

-----------------------------------------------------------------------------
(* run *)

\* Mutant: the settings in force are saved, not those to be saved.
SnapshotLive(c) == draft' = cfg /\ draftShots' = shots /\ next' = 1

(* persist(): the copy is taken under the lock. *)
Snapshot(c) == draft' = c /\ draftShots' = shots /\ next' = 1

(* select polls PERSIST first; waiting on it takes the signal. *)
WakeToSave ==
  /\ pc = "wait" /\ persist
  /\ persist' = FALSE
  /\ pc' = "collect"
  /\ UNCHANGED <<faults, ram, disk, record, saved, savedShots, restart, task>>

(* SAVE_DELAY is over. *)
Save ==
  /\ pc = "collect"
  /\ Snapshot(cfg)
  /\ pc' = "save"
  /\ UNCHANGED <<faults, ram, disk, record, saved, savedShots, signals, kind>>

WakeToRestart ==
  /\ pc = "wait" /\ ~persist /\ restart # "none"
  /\ kind' = restart /\ restart' = "none"
  /\ pc' = "grace"
  /\ UNCHANGED <<faults, ram, disk, record, saved, savedShots, persist, draft, draftShots, next>>

(* The 500 ms for the HTTP response are over. *)
Stop ==
  /\ pc = "grace"
  /\ \/ /\ kind = "Plain"
        /\ Snapshot(cfg) /\ pc' = "lastSave"
        /\ UNCHANGED <<disk, saved, savedShots>>
     \/ /\ kind = "WifiReset"
        /\ Snapshot([p \in Param |-> IF p \in Wifi THEN Default ELSE cfg[p]])
        /\ pc' = "lastSave"
        /\ UNCHANGED <<disk, saved, savedShots>>
     \/ /\ kind = "FactoryReset"
        /\ \/ flash' = Defaults /\ flashShots' = 0
           \/ /\ "erase" \in faults
              /\ \E kept \in SUBSET Param :
                   flash' = [p \in Param |-> IF p \in kept THEN flash[p] ELSE Default]
              /\ flashShots' \in {0, flashShots}
        /\ saved' = Defaults /\ savedShots' = 0
        /\ pc' = "reset"
        /\ UNCHANGED <<draft, draftShots, next>>
  /\ UNCHANGED <<faults, ram, record, signals, kind>>

(* What is in RAM, the signals included, is gone. *)
LoseRam ==
  /\ pc' = "off" /\ kind' = "none" /\ persist' = FALSE /\ restart' = "none"
  /\ cfg' = Defaults /\ saved' = Defaults /\ draft' = Defaults
  /\ shots' = 0 /\ savedShots' = 0 /\ draftShots' = 0 /\ next' = 1
  /\ UNCHANGED <<faults, disk, record>>

(* The last 100 ms are over: software_reset. *)
SoftwareReset == pc = "reset" /\ LoseRam

PowerCut == "power" \in faults /\ pc # "off" /\ LoseRam

-----------------------------------------------------------------------------
(* The machine and the network tasks. *)

\* Mutant: the write does not wake the storage task.
ChangeSettingSilent(p, v) ==
  /\ pc \in Up /\ v # cfg[p]
  /\ cfg' = [cfg EXCEPT ![p] = v]
  /\ UNCHANGED <<faults, shots, disk, record, saved, savedShots, signals, pc, task>>

(* Any write of a setting, by update_config or a command, and the signal.  *)
(* No flash access comes between the two that could take effect: the task  *)
(* that writes goes on before the storage task runs.                       *)
ChangeSetting(p, v) ==
  /\ pc \in Up /\ v # cfg[p]
  /\ cfg' = [cfg EXCEPT ![p] = v]
  /\ persist' = TRUE
  /\ UNCHANGED <<faults, shots, disk, record, saved, savedShots, restart, pc, task>>

(* ShotCounterChanged: a shot counted, or the counter reset. *)
ChangeShots ==
  /\ pc \in Up
  /\ shots' \in {0, shots + 1} /\ shots' \notin {shots, MaxShots + 1}
  /\ persist' = TRUE
  /\ UNCHANGED <<faults, cfg, disk, record, saved, savedShots, restart, pc, task>>

(* restart, factory_reset, wifi_reset, the power switch, the WiFi task: a  *)
(* signal holds the last value only.                                       *)
AskRestart(k) ==
  /\ pc \in Up
  /\ restart' = k
  /\ UNCHANGED <<faults, ram, disk, record, saved, savedShots, persist, pc, task>>

-----------------------------------------------------------------------------

StorageTask == \/ Load \/ Provision \/ SaveParam \/ SaveShots
               \/ WakeToSave \/ Save \/ WakeToRestart \/ Stop \/ SoftwareReset

Next == \/ StorageTask
        \/ PowerCut
        \/ \E p \in Param, v \in Value : ChangeSetting(p, v)
        \/ ChangeShots
        \/ \E k \in RestartKind : AskRestart(k)

(* The executor polls the task whenever one of its futures is ready.       *)
Spec == Init /\ [][Next]_vars /\ WF_vars(StorageTask)

-----------------------------------------------------------------------------
(* Properties. *)

(* The flash makes no errors. *)
Reliable == faults \subseteq {"power"}

InFlash == flash = cfg /\ flashShots = shots

(* Without flash errors, whenever the task waits and has not been woken,   *)
(* flash holds exactly the settings in force: also after a change that     *)
(* came while it was saving, after a power cut in the middle of a save,    *)
(* and at the first wait after a boot.                                     *)
QuietIsSaved == Reliable /\ pc = "wait" /\ ~persist => InFlash

(* ADR 0005: a factory reset erases the partition, a WiFi reset clears     *)
(* only the credentials: every other parameter goes down saved, unless it  *)
(* changed once more under the last save.                                  *)
ResetLeaves ==
  /\ kind = "FactoryReset" => flash = Defaults /\ flashShots = 0
  /\ kind = "WifiReset" =>
       \A p \in Param : IF p \in Wifi THEN flash[p] = Default
                       ELSE flash[p] = cfg[p] \/ persist
ResetsDo == [][Reliable /\ SoftwareReset => ResetLeaves]_vars

(* The counter is the one value the task is never wrong about: whichever   *)
(* writes or erases fail, what it believes to be there is there.           *)
CounterKnown == "read" \notin faults /\ pc \in Up \ {"reset"} => flashShots = savedShots

(* The task goes on.  A value that stays in force reaches the flash,       *)
(* unless the device goes down first; changes elsewhere cannot put it off  *)
(* for ever.  So do the values of a record written over USB, which the     *)
(* next boot applies (the firmware manual).  And the device always comes   *)
(* back, whatever it is asked, in what order and whatever the flash does.  *)
ChangesReachFlash ==
  \A p \in Param, v \in Value :
    Reliable /\ pc \in Up /\ cfg[p] = v ~> flash[p] = v \/ cfg[p] # v \/ pc = "off"
RecordIsSaved ==
  \A r \in Records : faults = {} /\ record = r ~> \A p \in DOMAIN r : flash[p] = r[p]
ComesBack == "power" \notin faults /\ pc = "off" ~> pc = "wait"
StorageGoesOn == ChangesReachFlash /\ RecordIsSaved /\ ComesBack

(* The store as a whole implements Durable: the entries are the parameters *)
(* and the counter; how far the task has got, what it believes to be in    *)
(* flash, its delays and its two signals are not seen.                     *)
Entries == 1..(N + 1)
Of(settings, counter) == [e \in Entries |-> IF e \in Param THEN settings[e] ELSE counter]
Contents == {Of(s, c) : s \in Settings, c \in 0..MaxShots}

Stage == CASE pc = "off" -> "down"
           [] pc = "provision" -> "booting"
           [] pc \in {"wait", "collect", "grace"} -> "idle"
           [] pc \in {"bootSave", "save"} -> "saving"
           [] pc = "lastSave" -> "closing"
           [] pc = "reset" -> "closed"
LastKind == IF pc \in {"lastSave", "reset"} THEN kind ELSE "none"
Owed == persist \/ pc = "collect"

D == INSTANCE Durable WITH
       Entry <- Entries, Initial <- Of(Defaults, 0), Credentials <- Wifi,
       now <- Of(cfg, shots), stored <- Of(flash, flashShots), copy <- Of(draft, draftShots),
       stage <- Stage, kind <- LastKind, owed <- Owed
ImplementsStore == D!Spec

(* What the source says of itself and does not keep; see the runs MCBug... *)

(* The storage task also performs restarts, so a pending save is never     *)
(* lost (storage.rs).                                                      *)
PendingSaveKept == [][SoftwareReset /\ kind = "Plain" => ~persist]_vars

-----------------------------------------------------------------------------
(* The inductive invariant behind QuietIsSaved and ResetsDo.               *)

(* How far a save has got: a power cut or restart leaves each parameter at *)
(* its old or its new value, and the ones already written at the new one.  *)
SavedUpTo ==
  pc \in Saving =>
    \A p \in Param : flash[p] = IF p < next THEN draft[p] ELSE saved[p]

(* The task's picture of the flash is right. *)
PictureRight ==
  /\ pc \in {"provision", "wait", "collect", "grace"} => flash = saved
  /\ pc # "off" => flashShots = savedShots

(* Nobody has changed anything since the copy, or the signal says so.      *)
CopyCurrent ==
  /\ pc \in {"wait", "grace"} => persist \/ (saved = cfg /\ savedShots = shots)
  /\ pc = "provision" => saved = cfg /\ savedShots = shots
  /\ pc = "bootSave" => draft = cfg /\ draftShots = shots
  /\ pc = "save" => persist \/ (draft = cfg /\ draftShots = shots)

(* What a reset in progress will leave behind.                             *)
ResetUnderWay ==
  /\ pc \in {"grace", "lastSave", "reset"} => kind \in RestartKind
  /\ pc = "lastSave" => kind # "FactoryReset"
  /\ pc = "lastSave" /\ kind = "WifiReset" =>
       \A p \in Param : IF p \in Wifi THEN draft[p] = Default ELSE draft[p] = cfg[p] \/ persist
  /\ pc = "reset" => ResetLeaves

Inductive == /\ TypeOK
             /\ Reliable => SavedUpTo /\ PictureRight /\ CopyCurrent /\ ResetUnderWay

=============================================================================
