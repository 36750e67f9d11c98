------------------------- MODULE SettingsStoreProofs -------------------------
(***************************************************************************)
(* Proofs about SettingsStore: while the flash makes no errors, flash and  *)
(* settings agree whenever the storage task rests, and resets leave what   *)
(* they should.  Power may be cut at any step.                             *)
(***************************************************************************)
EXTENDS SettingsStore, TLAPS

USE StoreAssumption

LEMMA DefaultsType == Defaults \in Settings
  BY DEF Defaults, Settings, Param

(* What may go wrong is settled at the start. *)
LEMMA FaultsStay == [Next]_vars => faults' = faults
  BY DEF Next, StorageTask, Load, Provision, SaveParam, SaveShots, WakeToSave, Save,
         WakeToRestart, Stop, SoftwareReset, PowerCut, LoseRam, ChangeSetting, ChangeShots,
         AskRestart, vars

(* Every action keeps the types; this needs no assumption on the flash.    *)
LEMMA TypeStep == TypeOK /\ [Next]_vars => TypeOK'
<1> SUFFICES ASSUME TypeOK, [Next]_vars PROVE TypeOK'
  OBVIOUS
<1>0. faults' \in FaultCases
  BY FaultsStay DEF TypeOK
<1> USE <1>0 DEF TypeOK, ram, disk, signals, task
<1>1. CASE Load
  <2>1. ASSUME NEW read \in SUBSET Param
        PROVE  [p \in Param |-> IF p \in read THEN flash[p] ELSE Default] \in Settings
    BY DEF Settings
  <2>2. cfg' \in Settings /\ saved' = cfg'
    BY <1>1, <2>1 DEF Load
  <2>3. shots' \in 0..MaxShots /\ savedShots' = shots'
    BY <1>1 DEF Load, Reliable
  <2> QED BY <1>1, <2>2, <2>3 DEF Load, AfterLoad, Up, Booting
<1>2. CASE Provision
  <2>1. ASSUME NEW p \in Param
        PROVE  (IF p \in DOMAIN record THEN record[p] ELSE cfg[p]) \in Value
    BY DEF Settings, NoRecord
  <2>2. cfg' \in Settings
    BY <1>2, <2>1 DEF Provision, Settings
  <2> QED BY <1>2, <2>2 DEF Provision, Up, Booting
<1>3. CASE SaveParam
  <2>1. flash' \in Settings
    BY <1>3 DEF SaveParam, Settings, Param
  <2>2. next' \in 1..(N + 1)
    BY <1>3 DEF SaveParam
  <2> QED BY <1>3, <2>1, <2>2 DEF SaveParam, AfterSave, Up, Booting
<1>4. CASE SaveShots
  BY <1>4 DEF SaveShots, AfterSave, Up, Booting
<1>5. CASE WakeToSave
  BY <1>5 DEF WakeToSave, Up, Booting
<1>6. CASE Save
  BY <1>6 DEF Save, Snapshot, Up, Booting
<1>7. CASE WakeToRestart
  BY <1>7 DEF WakeToRestart, Up, Booting
<1>8. CASE Stop
  <2>1. [p \in Param |-> IF p \in Wifi THEN Default ELSE cfg[p]] \in Settings
    BY DEF Settings
  <2>2. ASSUME NEW kept \in SUBSET Param
        PROVE  [p \in Param |-> IF p \in kept THEN flash[p] ELSE Default] \in Settings
    BY DEF Settings
  <2>3. CASE kind = "FactoryReset"
    BY <1>8, <2>2, <2>3, DefaultsType DEF Stop, Up, Booting
  <2>4. CASE kind # "FactoryReset"
    BY <1>8, <2>1, <2>4 DEF Stop, Snapshot, Up, Booting
  <2> QED BY <2>3, <2>4
<1>9. CASE SoftwareReset \/ PowerCut
  <2>1. LoseRam
    BY <1>9 DEF SoftwareReset, PowerCut
  <2>2. {cfg', flash', saved', draft'} \subseteq Settings
    BY <2>1, DefaultsType DEF LoseRam
  <2>3. {shots', flashShots', savedShots', draftShots'} \subseteq 0..MaxShots
    BY <2>1 DEF LoseRam
  <2>4. record' \in Records \cup {NoRecord} /\ persist' \in BOOLEAN
    BY <2>1 DEF LoseRam
  <2>5. restart' = "none" /\ kind' = "none" /\ pc' = "off" /\ next' \in 1..(N + 1)
    BY <2>1 DEF LoseRam
  <2> QED BY <2>2, <2>3, <2>4, <2>5
<1>10. CASE \E p \in Param, v \in Value : ChangeSetting(p, v)
  BY <1>10 DEF ChangeSetting, Settings
<1>11. CASE ChangeShots
  BY <1>11 DEF ChangeShots
<1>12. CASE \E k \in RestartKind : AskRestart(k)
  BY <1>12 DEF AskRestart
<1>13. CASE UNCHANGED vars
  BY <1>13 DEF vars
<1> QED BY <1>1, <1>2, <1>3, <1>4, <1>5, <1>6, <1>7, <1>8, <1>9, <1>10, <1>11, <1>12, <1>13
        DEF Next, StorageTask

LEMMA InitType == Init => TypeOK
<1> SUFFICES ASSUME Init PROVE TypeOK
  OBVIOUS
<1>1. {cfg, flash, saved, draft} \subseteq Settings
  BY DefaultsType DEF Init
<1>2. {shots, flashShots, savedShots, draftShots} \subseteq 0..MaxShots /\ next \in 1..(N + 1)
  BY DEF Init
<1>3. record \in Records \cup {NoRecord} /\ persist \in BOOLEAN
  BY DEF Init
<1>4. pc \in {"off"} \cup Booting \cup Up /\ {restart, kind} \subseteq RestartKind \cup {"none"}
  BY DEF Init
<1>5. faults \in FaultCases
  BY DEF Init
<1> QED BY <1>1, <1>2, <1>3, <1>4, <1>5 DEF TypeOK

(* Types hold whatever the flash does. *)
THEOREM StoreTypes == Spec => []TypeOK
<1> QED BY InitType, TypeStep, PTL DEF Spec

(* How far a save has got: the parameters before next are written.         *)
LEMMA SavedStep ==
  ASSUME Inductive, Reliable, [Next]_vars PROVE SavedUpTo'
<1> USE DEF Inductive, TypeOK, SavedUpTo, ram, disk, signals, task
<1>1. CASE Load
  BY <1>1 DEF Load, AfterLoad, Reliable, Saving
<1>2. CASE Provision
  BY <1>2 DEF Provision, Saving, PictureRight, Param
<1>3. CASE SaveParam
  <2>1. /\ pc \in Saving /\ pc' = pc /\ next \in Param /\ next' = next + 1
        /\ draft' = draft /\ saved' = saved
    BY <1>3 DEF SaveParam, Reliable, Param
  <2>2. ASSUME NEW p \in Param
        PROVE  flash'[p] = IF p < next + 1 THEN draft[p] ELSE saved[p]
    <3>1. CASE p = next
      BY <1>3, <2>1, <3>1 DEF SaveParam, Reliable, Settings, Param
    <3>2. CASE p # next
      BY <1>3, <2>1, <3>2 DEF SaveParam, Reliable, Settings, Param
    <3> QED BY <3>1, <3>2
  <2> QED BY <2>1, <2>2
<1>4. CASE SaveShots
  BY <1>4 DEF SaveShots, AfterSave, Saving
<1>5. CASE WakeToSave
  BY <1>5 DEF WakeToSave, Saving
<1>6. CASE Save
  BY <1>6 DEF Save, Snapshot, Saving, PictureRight, Param
<1>7. CASE WakeToRestart
  BY <1>7 DEF WakeToRestart, Saving
<1>8. CASE Stop
  <2>1. CASE kind = "FactoryReset"
    BY <1>8, <2>1 DEF Stop, Saving
  <2>2. CASE kind # "FactoryReset"
    <3>1. flash' = flash /\ saved' = saved /\ flash = saved /\ next' = 1
      BY <1>8, <2>2 DEF Stop, Snapshot, PictureRight
    <3> QED BY <3>1 DEF Param
  <2> QED BY <2>1, <2>2
<1>9. CASE SoftwareReset \/ PowerCut
  BY <1>9 DEF SoftwareReset, PowerCut, LoseRam, Saving
<1>10. CASE \E p \in Param, v \in Value : ChangeSetting(p, v)
  BY <1>10 DEF ChangeSetting
<1>11. CASE ChangeShots
  BY <1>11 DEF ChangeShots
<1>12. CASE \E k \in RestartKind : AskRestart(k)
  BY <1>12 DEF AskRestart
<1>13. CASE UNCHANGED vars
  BY <1>13 DEF vars
<1> QED BY <1>1, <1>2, <1>3, <1>4, <1>5, <1>6, <1>7, <1>8, <1>9, <1>10, <1>11, <1>12, <1>13
        DEF Next, StorageTask

(* A save that comes to its end has written every parameter. *)
LEMMA SaveEnds ==
  ASSUME TypeOK, SavedUpTo, SaveShots PROVE flash = draft
<1>1. \A p \in Param : flash[p] = draft[p]
  BY DEF SaveShots, SavedUpTo, TypeOK, Param
<1>2. flash \in Settings /\ draft \in Settings
  BY DEF TypeOK
<1> QED BY <1>1, <1>2 DEF Settings

LEMMA PictureStep ==
  ASSUME Inductive, Reliable, [Next]_vars PROVE PictureRight'
<1> USE DEF Inductive, TypeOK, PictureRight, ram, disk, signals, task
<1>1. CASE Load
  BY <1>1 DEF Load, AfterLoad, Reliable
<1>2. CASE Provision
  BY <1>2 DEF Provision
<1>3. CASE SaveParam
  BY <1>3 DEF SaveParam, Reliable, Saving
<1>4. CASE SaveShots
  BY <1>4, SaveEnds DEF SaveShots, Reliable, Saving
<1>5. CASE WakeToSave
  BY <1>5 DEF WakeToSave
<1>6. CASE Save
  BY <1>6 DEF Save
<1>7. CASE WakeToRestart
  BY <1>7 DEF WakeToRestart
<1>8. CASE Stop
  BY <1>8 DEF Stop, Reliable
<1>9. CASE SoftwareReset \/ PowerCut
  BY <1>9 DEF SoftwareReset, PowerCut, LoseRam
<1>10. CASE \E p \in Param, v \in Value : ChangeSetting(p, v)
  BY <1>10 DEF ChangeSetting
<1>11. CASE ChangeShots
  BY <1>11 DEF ChangeShots
<1>12. CASE \E k \in RestartKind : AskRestart(k)
  BY <1>12 DEF AskRestart
<1>13. CASE UNCHANGED vars
  BY <1>13 DEF vars
<1> QED BY <1>1, <1>2, <1>3, <1>4, <1>5, <1>6, <1>7, <1>8, <1>9, <1>10, <1>11, <1>12, <1>13
        DEF Next, StorageTask

LEMMA CopyStep ==
  ASSUME Inductive, Reliable, [Next]_vars PROVE CopyCurrent'
<1> USE DEF Inductive, TypeOK, CopyCurrent, ram, disk, signals, task
<1>1. CASE Load
  BY <1>1 DEF Load, AfterLoad, Reliable
<1>2. CASE Provision
  BY <1>2 DEF Provision
<1>3. CASE SaveParam
  BY <1>3 DEF SaveParam, Reliable, Saving
<1>4. CASE SaveShots
  BY <1>4 DEF SaveShots, Reliable, Saving, AfterSave
<1>5. CASE WakeToSave
  BY <1>5 DEF WakeToSave
<1>6. CASE Save
  BY <1>6 DEF Save, Snapshot
<1>7. CASE WakeToRestart
  BY <1>7 DEF WakeToRestart
<1>8. CASE Stop
  BY <1>8 DEF Stop
<1>9. CASE SoftwareReset \/ PowerCut
  BY <1>9 DEF SoftwareReset, PowerCut, LoseRam
<1>10. CASE \E p \in Param, v \in Value : ChangeSetting(p, v)
  BY <1>10 DEF ChangeSetting, Up
<1>11. CASE ChangeShots
  BY <1>11 DEF ChangeShots, Up
<1>12. CASE \E k \in RestartKind : AskRestart(k)
  BY <1>12 DEF AskRestart
<1>13. CASE UNCHANGED vars
  BY <1>13 DEF vars
<1> QED BY <1>1, <1>2, <1>3, <1>4, <1>5, <1>6, <1>7, <1>8, <1>9, <1>10, <1>11, <1>12, <1>13
        DEF Next, StorageTask

LEMMA ResetStep ==
  ASSUME Inductive, Reliable, [Next]_vars PROVE ResetUnderWay'
<1> USE DEF Inductive, TypeOK, ResetUnderWay, ResetLeaves, ram, disk, signals, task
<1>1. CASE Load
  BY <1>1 DEF Load, AfterLoad, Reliable
<1>2. CASE Provision
  BY <1>2 DEF Provision
<1>3. CASE SaveParam
  BY <1>3 DEF SaveParam, Reliable, Saving
<1>4. CASE SaveShots
  BY <1>4, SaveEnds DEF SaveShots, Reliable, Saving, AfterSave
<1>5. CASE WakeToSave
  BY <1>5 DEF WakeToSave
<1>6. CASE Save
  BY <1>6 DEF Save, Snapshot
<1>7. CASE WakeToRestart
  BY <1>7 DEF WakeToRestart
<1>8. CASE Stop
  <2>1. CASE kind = "WifiReset"
    BY <1>8, <2>1 DEF Stop, Snapshot
  <2>2. CASE kind # "WifiReset"
    BY <1>8, <2>2 DEF Stop, Reliable
  <2> QED BY <2>1, <2>2
<1>9. CASE SoftwareReset \/ PowerCut
  BY <1>9 DEF SoftwareReset, PowerCut, LoseRam
<1>10. CASE \E p \in Param, v \in Value : ChangeSetting(p, v)
  BY <1>10 DEF ChangeSetting
<1>11. CASE ChangeShots
  BY <1>11 DEF ChangeShots
<1>12. CASE \E k \in RestartKind : AskRestart(k)
  BY <1>12 DEF AskRestart
<1>13. CASE UNCHANGED vars
  BY <1>13 DEF vars
<1> QED BY <1>1, <1>2, <1>3, <1>4, <1>5, <1>6, <1>7, <1>8, <1>9, <1>10, <1>11, <1>12, <1>13
        DEF Next, StorageTask

-----------------------------------------------------------------------------

LEMMA InductiveInit == Init => Inductive
<1> SUFFICES ASSUME Init PROVE Inductive
  OBVIOUS
<1> QED BY InitType DEF Init, Inductive, SavedUpTo, PictureRight, CopyCurrent, ResetUnderWay,
                        Saving

(* While the flash makes no errors the task's picture of it is right, its  *)
(* copy of the settings is current or the signal says it is not, and a     *)
(* reset under way leaves what it should.                                  *)
THEOREM StoreInductive == Spec => []Inductive
<1>1. ASSUME Inductive, [Next]_vars PROVE Inductive'
  <2>1. TypeOK'
    BY <1>1, TypeStep DEF Inductive
  <2>2. ASSUME Reliable'
        PROVE  SavedUpTo' /\ PictureRight' /\ CopyCurrent' /\ ResetUnderWay'
    <3>1. Reliable
      BY <1>1, <2>2, FaultsStay DEF Reliable
    <3> QED BY <1>1, <3>1, SavedStep, PictureStep, CopyStep, ResetStep
  <2> QED BY <2>1, <2>2 DEF Inductive
<1>2. QED BY <1>1, InductiveInit, PTL DEF Spec

(* Whenever the storage task rests and has not been woken, flash holds     *)
(* exactly the settings in force.                                          *)
THEOREM RestIsSaved == Spec => []QuietIsSaved
<1>1. Inductive => QuietIsSaved
  BY DEF Inductive, PictureRight, CopyCurrent, QuietIsSaved, InFlash
<1>2. QED BY <1>1, StoreInductive, PTL

(* The counter, other than the settings, survives failed writes in the     *)
(* task's picture: it is noted as written only where it is.                *)
CounterInv == "read" \notin faults /\ pc \notin {"off", "reset"} => flashShots = savedShots

LEMMA CounterStep == TypeOK /\ CounterInv /\ [Next]_vars => CounterInv'
<1> SUFFICES ASSUME TypeOK, CounterInv, [Next]_vars, "read" \notin faults', pc' \notin {"off", "reset"}
             PROVE  flashShots' = savedShots'
  BY DEF CounterInv
<1>0. "read" \notin faults
  BY FaultsStay
<1>i. pc \notin {"off", "reset"} => flashShots = savedShots
  BY <1>0 DEF CounterInv
<1>1. CASE Load
  BY <1>0, <1>1 DEF Load, disk
<1>2. CASE SaveShots
  BY <1>2, <1>i DEF SaveShots, Saving
<1>3. CASE Stop
  BY <1>3, <1>i DEF Stop, disk
<1>4. CASE SoftwareReset \/ PowerCut
  BY <1>4 DEF SoftwareReset, PowerCut, LoseRam
<1>5. CASE Provision \/ SaveParam \/ WakeToSave \/ Save \/ WakeToRestart
  BY <1>5, <1>i DEF Provision, SaveParam, WakeToSave, Save, WakeToRestart, disk, Saving
<1>6. CASE \/ \E p \in Param, v \in Value : ChangeSetting(p, v)
           \/ ChangeShots
           \/ \E k \in RestartKind : AskRestart(k)
           \/ UNCHANGED vars
  BY <1>6, <1>i DEF ChangeSetting, ChangeShots, AskRestart, vars, disk
<1> QED BY <1>1, <1>2, <1>3, <1>4, <1>5, <1>6 DEF Next, StorageTask

(* What the task believes of the counter in flash is so, whichever writes  *)
(* and erases fail and whenever the power is cut.                          *)
THEOREM CounterAlwaysKnown == Spec => []CounterKnown
<1>1. Init => CounterInv
  BY DEF Init, CounterInv
<1>2. CounterInv => CounterKnown
  BY DEF CounterInv, CounterKnown, Up
<1> QED BY <1>1, <1>2, CounterStep, StoreTypes, PTL DEF Spec

(* At the reset a factory reset has erased everything, and a WiFi reset    *)
(* the credentials and nothing else.                                       *)
THEOREM ResetsAreDone == Spec => ResetsDo
<1> DEFINE Done == Reliable /\ SoftwareReset => ResetLeaves
<1>1. Inductive => [Done]_vars
  BY DEF Inductive, ResetUnderWay, SoftwareReset
<1>2. Spec => [][Done]_vars
  BY <1>1, StoreInductive, PTL
<1> QED BY <1>2 DEF ResetsDo

-----------------------------------------------------------------------------
(* The store implements Durable.  An entry is a parameter or the counter.  *)
LEMMA EntriesAre ==
  ASSUME NEW s \in Settings, NEW c \in 0..MaxShots
  PROVE  /\ Of(s, c) \in Contents
         /\ \A e \in Entries : Of(s, c)[e] = IF e \in Param THEN s[e] ELSE c
<1> QED BY DEF Of, Contents

(* Entry by entry between two, if the parameters and the counter are.      *)
LEMMA MixedIs ==
  ASSUME NEW s \in Settings, NEW c \in 0..MaxShots, NEW s1, NEW c1, NEW s2, NEW c2,
         \A p \in Param : s[p] \in {s1[p], s2[p]}, c \in {c1, c2}
  PROVE  D!Mixed(Of(s, c), Of(s1, c1), Of(s2, c2))
<1>1. \A e \in Entries : Of(s, c)[e] \in {Of(s1, c1)[e], Of(s2, c2)[e]}
  BY DEF Of
<1> QED BY <1>1, EntriesAre DEF D!Mixed

(* Each step of the store is one of Durable's, or is not seen there.       *)
LEMMA StoreStep ==
  ASSUME Inductive, [Next]_vars
  PROVE  [D!Next]_D!vars
<1> DEFINE now == Of(cfg, shots)
           stored == Of(flash, flashShots)
           copy == Of(draft, draftShots)
<1>1. TypeOK /\ TypeOK'
  BY TypeStep DEF Inductive
<1>2. /\ now \in Contents /\ now' \in Contents
      /\ stored \in Contents /\ stored' \in Contents
      /\ copy \in Contents /\ copy' \in Contents
  BY <1>1 DEF TypeOK, Contents
<1>3. D!Reliable <=> Reliable
  BY DEF D!Reliable, Reliable
<1>4. faults' = faults
  BY FaultsStay
<1> USE DEF ram, disk, signals, task
<1>5. CASE Load
  <2>1. Stage = "down" /\ Stage' \in {"booting", "idle"} /\ LastKind' = LastKind /\ Owed' = Owed
    BY <1>5 DEF Load, AfterLoad, Stage, LastKind, Owed
  <2>2. stored' = stored /\ copy' = copy
    BY <1>5 DEF Load, Of
  <2>3. now' = stored \/ ("read" \in faults /\ D!Mixed(now', stored, Of(Defaults, 0)))
    <3>1. CASE cfg' = flash /\ shots' = flashShots
      BY <3>1 DEF Of
    <3>2. CASE ~(cfg' = flash /\ shots' = flashShots)
      <4>1. PICK read \in SUBSET Param :
              cfg' = [p \in Param |-> IF p \in read THEN flash[p] ELSE Default]
        BY <1>5, <3>2 DEF Load
      <4>2. \A p \in Param : cfg'[p] \in {flash[p], Defaults[p]}
        BY <4>1 DEF Defaults
      <4>3. "read" \in faults /\ shots' \in {flashShots, 0}
        BY <1>5, <3>2 DEF Load
      <4>4. cfg' \in Settings /\ shots' \in 0..MaxShots
        BY <1>1 DEF TypeOK
      <4> QED BY <4>2, <4>3, <4>4, MixedIs
    <3> QED BY <3>1, <3>2
  <2> QED BY <1>4, <2>1, <2>2, <2>3 DEF D!Next, D!Boot
<1>6. CASE Provision
  <2>1. Stage = "booting" /\ Stage' = "saving" /\ LastKind' = LastKind /\ Owed' = Owed
    BY <1>6 DEF Provision, Stage, LastKind, Owed
  <2>2. stored' = stored /\ copy' = now'
    BY <1>6 DEF Provision, Of
  <2> QED BY <1>2, <1>4, <2>1, <2>2 DEF D!Next, D!Provide
<1>7. CASE SaveParam
  <2>1. pc \in Saving /\ now' = now /\ copy' = copy /\ Owed' = Owed
    BY <1>7 DEF SaveParam, AfterSave, Saving, Owed, Of
  <2>2. Stage = IF pc = "lastSave" THEN "closing" ELSE "saving"
    BY <2>1 DEF Stage, Saving
  <2>3. CASE draft[next] # saved[next] /\ "write" \in faults /\ pc' = AfterSave /\ UNCHANGED <<flash, next>>
    <3>1. Stage' = IF pc = "lastSave" THEN "closed" ELSE "idle"
      BY <2>1, <2>3 DEF Stage, Saving, AfterSave
    <3>2. LastKind' = LastKind
      BY <1>7, <2>1, <2>3 DEF SaveParam, LastKind, Saving, AfterSave
    <3>3. stored' = stored
      BY <1>7, <2>3 DEF SaveParam, Of
    <3>4. D!Mixed(stored', stored, copy)
      BY <1>2, <3>3 DEF D!Mixed
    <3>5. ~D!Reliable
      BY <2>3 DEF D!Reliable
    <3> QED BY <1>4, <2>1, <2>2, <3>1, <3>2, <3>4, <3>5 DEF D!Next, D!Done
  <2>4. CASE pc' = pc /\ flash' = flash
    <3>1. stored' = stored /\ Stage' = Stage /\ LastKind' = LastKind
      BY <1>7, <2>4 DEF SaveParam, Of, Stage, LastKind
    <3> QED BY <1>4, <2>1, <3>1 DEF D!vars
  <2>5. CASE pc' = pc /\ flash' = [flash EXCEPT ![next] = draft[next]]
    <3>1. Stage' = Stage /\ LastKind' = LastKind
      BY <1>7, <2>5 DEF SaveParam, Stage, LastKind
    <3>2. \A p \in Param : flash'[p] \in {flash[p], draft[p]}
      BY <1>1, <2>5 DEF TypeOK, Settings
    <3>3. flash' \in Settings /\ flashShots' \in 0..MaxShots /\ flashShots' = flashShots
      BY <1>1, <1>7 DEF SaveParam, TypeOK
    <3>4. D!Mixed(stored', stored, copy)
      BY <3>2, <3>3, MixedIs
    <3> QED BY <1>4, <2>1, <2>2, <3>1, <3>4 DEF D!Next, D!Write
  <2> QED BY <1>7, <2>3, <2>4, <2>5 DEF SaveParam
<1>8. CASE SaveShots
  <2>1. pc \in Saving /\ now' = now /\ copy' = copy /\ Owed' = Owed
    BY <1>8 DEF SaveShots, AfterSave, Saving, Owed, Of
  <2>2. /\ Stage = IF pc = "lastSave" THEN "closing" ELSE "saving"
        /\ Stage' = IF pc = "lastSave" THEN "closed" ELSE "idle"
    BY <1>8, <2>1 DEF SaveShots, Stage, Saving, AfterSave
  <2>3. LastKind' = LastKind
    BY <1>8, <2>1 DEF SaveShots, LastKind, Saving, AfterSave
  <2>4. flash' = flash /\ flashShots' \in {flashShots, draftShots}
    BY <1>8 DEF SaveShots
  <2>5. flash' \in Settings /\ flashShots' \in 0..MaxShots
    BY <1>1 DEF TypeOK
  <2>6. D!Mixed(stored', stored, copy)
    BY <2>4, <2>5, MixedIs
  <2>7. ASSUME Reliable PROVE stored' = copy
    <3>1. flash = draft
      BY <1>8, <2>7, SaveEnds DEF Inductive
    <3>2. flashShots = savedShots
      BY <2>1, <2>7 DEF Inductive, PictureRight, Saving
    <3>3. flashShots' = draftShots
      BY <1>8, <2>7, <3>2 DEF SaveShots, Reliable
    <3> QED BY <2>4, <3>1, <3>3 DEF Of
  <2> QED BY <1>3, <1>4, <2>1, <2>2, <2>3, <2>6, <2>7 DEF D!Next, D!Done
<1>9. CASE WakeToSave \/ WakeToRestart
  <2>1. Stage' = Stage /\ LastKind' = LastKind
    BY <1>9 DEF WakeToSave, WakeToRestart, Stage, LastKind
  <2>2. Owed' = Owed
    BY <1>1, <1>9 DEF WakeToSave, WakeToRestart, Owed, TypeOK
  <2>3. now' = now /\ stored' = stored /\ copy' = copy
    BY <1>9 DEF WakeToSave, WakeToRestart, Of
  <2> QED BY <1>4, <2>1, <2>2, <2>3 DEF D!vars
<1>10. CASE Save
  <2>1. Stage = "idle" /\ Stage' = "saving" /\ LastKind' = LastKind /\ Owed
    BY <1>10 DEF Save, Stage, LastKind, Owed
  <2>2. Owed' \in BOOLEAN
    BY DEF Owed
  <2>3. now' = now /\ stored' = stored /\ copy' = now
    BY <1>10 DEF Save, Snapshot, Of
  <2> QED BY <1>4, <2>1, <2>2, <2>3 DEF D!Next, D!Save
<1>11. CASE Stop
  <2>1. Stage = "idle" /\ Owed' = Owed /\ now' = now /\ LastKind' = kind
    BY <1>11 DEF Stop, Stage, Owed, LastKind, Of
  <2>2. CASE kind = "Plain"
    <3>1. Stage' = "closing" /\ copy' = now /\ stored' = stored
      BY <1>11, <2>2 DEF Stop, Snapshot, Stage, Of
    <3> QED BY <1>4, <2>1, <2>2, <3>1 DEF D!Next, D!Close
  <2>3. CASE kind = "WifiReset"
    <3>1. Stage' = "closing" /\ stored' = stored
      BY <1>11, <2>3 DEF Stop, Snapshot, Stage, Of
    <3>2. draft' = [p \in Param |-> IF p \in Wifi THEN Default ELSE cfg[p]] /\ draftShots' = shots
      BY <1>11, <2>3 DEF Stop, Snapshot
    <3>3. ASSUME NEW e \in Entries
          PROVE  copy'[e] = IF e \in Wifi THEN Of(Defaults, 0)[e] ELSE now[e]
      BY <3>2 DEF Of, Defaults, Param
    <3>4. copy' = [e \in Entries |-> IF e \in Wifi THEN Of(Defaults, 0)[e] ELSE now[e]]
      BY <3>3 DEF Of
    <3> QED BY <1>4, <2>1, <2>3, <3>1, <3>4 DEF D!Next, D!Close
  <2>4. CASE kind = "FactoryReset"
    <3>1. Stage' = "closed" /\ copy' = copy
      BY <1>11, <2>4 DEF Stop, Stage, Of
    <3>2. stored' = Of(Defaults, 0) \/ ("erase" \in faults /\ D!Mixed(stored', stored, Of(Defaults, 0)))
      <4>1. CASE flash' = Defaults /\ flashShots' = 0
        BY <4>1 DEF Of
      <4>2. CASE ~(flash' = Defaults /\ flashShots' = 0)
        <5>1. PICK kept \in SUBSET Param :
                flash' = [p \in Param |-> IF p \in kept THEN flash[p] ELSE Default]
          BY <1>11, <2>4, <4>2 DEF Stop
        <5>2. \A p \in Param : flash'[p] \in {flash[p], Defaults[p]}
          BY <5>1 DEF Defaults
        <5>3. "erase" \in faults /\ flashShots' \in {flashShots, 0}
          BY <1>11, <2>4, <4>2 DEF Stop
        <5>4. flash' \in Settings /\ flashShots' \in 0..MaxShots
          BY <1>1 DEF TypeOK
        <5> QED BY <5>2, <5>3, <5>4, MixedIs
      <4> QED BY <4>1, <4>2
    <3> QED BY <1>4, <2>1, <2>4, <3>1, <3>2 DEF D!Next, D!Close
  <2> QED BY <1>11, <2>2, <2>3, <2>4 DEF Stop
<1>12. CASE SoftwareReset \/ PowerCut
  <2>1. LoseRam
    BY <1>12 DEF SoftwareReset, PowerCut
  <2>2. Stage = "closed" \/ ("power" \in faults /\ Stage # "down")
    BY <1>1, <1>12 DEF SoftwareReset, PowerCut, Stage, TypeOK, Booting, Up
  <2>3. Stage' = "down" /\ LastKind' = "none" /\ Owed' = FALSE
    BY <2>1 DEF LoseRam, Stage, LastKind, Owed
  <2>4. now' = Of(Defaults, 0) /\ copy' = Of(Defaults, 0) /\ stored' = stored
    BY <2>1 DEF LoseRam, Of
  <2> QED BY <1>4, <2>2, <2>3, <2>4 DEF D!Next, D!Down
<1>13. CASE ChangeShots \/ \E p \in Param, v \in Value : ChangeSetting(p, v)
  <2>1. pc \in Up /\ pc' = pc /\ kind' = kind /\ persist' = TRUE
    BY <1>13 DEF ChangeShots, ChangeSetting
  <2>2. Stage \in {"idle", "saving", "closing", "closed"} /\ Stage' = Stage
    BY <2>1 DEF Stage, Up
  <2>3. LastKind' = LastKind /\ Owed' = TRUE
    BY <2>1 DEF LastKind, Owed
  <2>4. stored' = stored /\ copy' = copy
    BY <1>13 DEF ChangeShots, ChangeSetting, Of
  <2> QED BY <1>2, <1>4, <2>2, <2>3, <2>4 DEF D!Next, D!Change
<1>14. CASE (\E k \in RestartKind : AskRestart(k)) \/ UNCHANGED vars
  <2>1. pc' = pc /\ kind' = kind /\ persist' = persist
    BY <1>14 DEF AskRestart, vars
  <2>2. Stage' = Stage /\ LastKind' = LastKind /\ Owed' = Owed
    BY <2>1 DEF Stage, LastKind, Owed
  <2>3. now' = now /\ stored' = stored /\ copy' = copy
    BY <1>14 DEF AskRestart, vars, Of
  <2> QED BY <1>4, <2>2, <2>3 DEF D!vars
<1> QED BY <1>5, <1>6, <1>7, <1>8, <1>9, <1>10, <1>11, <1>12, <1>13, <1>14
        DEF Next, StorageTask

(* Seen from outside, the store is the durable one of module Durable: its  *)
(* saves, interrupted by changes, by errors and by power cuts between any  *)
(* two entries, leave each entry at its old or its new value, a save that  *)
(* meets no error leaves all of them as they were at one moment, and what  *)
(* a restart leaves behind is what its kind says.                          *)
THEOREM StoreImplementsDurable == Spec => ImplementsStore
<1>1. Init => D!Init
  <2> SUFFICES ASSUME Init PROVE D!Init
    OBVIOUS
  <2>1. Of(flash, flashShots) \in Contents
    BY InitType DEF TypeOK, Contents
  <2>2. Of(cfg, shots) = Of(Defaults, 0) /\ Of(draft, draftShots) = Of(Defaults, 0)
    BY DEF Init
  <2>3. Stage = "down" /\ LastKind = "none" /\ Owed = FALSE
    BY DEF Init, Stage, LastKind, Owed
  <2> QED BY <2>1, <2>2, <2>3 DEF D!Init
<1> QED BY <1>1, StoreInductive, StoreStep, PTL DEF Spec, ImplementsStore, D!Spec

=============================================================================
