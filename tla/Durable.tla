------------------------------- MODULE Durable -------------------------------
(***************************************************************************)
(* What the settings store promises (docs/decisions/0005, storage.rs).     *)
(* Entries are in force and are stored; whoever changes one is owed a      *)
(* save.  A save brings down what was in force at one moment, entry by     *)
(* entry: cut short, it leaves each entry at its old or its new value and  *)
(* never at a third one; done, it leaves them all as they were then.  Who  *)
(* goes down by a restart has stored before what that restart should       *)
(* leave.  Flash errors weaken this, each at its place.                    *)
(***************************************************************************)
CONSTANTS
  Entry,          (* the settings and the shot counter                      *)
  Contents,       (* what the entries may be                                *)
  Initial,        (* the defaults                                           *)
  Credentials     (* the entries a WiFi reset clears                        *)

VARIABLES
  now,            (* the entries in force                                   *)
  stored,         (* the entries in flash                                   *)
  copy,           (* what the last save began with                          *)
  stage,          (* "down", "booting", "idle", "saving", "closing", "closed" *)
  kind,           (* the restart that closes the store, or "none"           *)
  owed,           (* something has changed that no save has begun with      *)
  faults          (* what may go wrong; constant                            *)

vars == <<now, stored, copy, stage, kind, owed, faults>>

Reliable == faults \subseteq {"power"}

Init == /\ now = Initial /\ copy = Initial /\ stored \in Contents
        /\ stage = "down" /\ kind = "none" /\ owed = FALSE

(* Each entry is that of one or of the other. *)
Mixed(entries, a, b) ==
  entries \in Contents /\ \A e \in Entry : entries[e] \in {a[e], b[e]}

Boot ==
  /\ stage = "down" /\ stage' \in {"booting", "idle"}
  /\ now' = stored \/ ("read" \in faults /\ Mixed(now', stored, Initial))
  /\ UNCHANGED <<stored, copy, kind, owed, faults>>

(* Settings that are brought in before anything runs are saved at once.    *)
Provide ==
  /\ stage = "booting" /\ stage' = "saving"
  /\ now' \in Contents /\ copy' = now'
  /\ UNCHANGED <<stored, kind, owed, faults>>

Change ==
  /\ stage \in {"idle", "saving", "closing", "closed"}
  /\ owed' = TRUE
  /\ UNCHANGED <<stage, kind, faults, stored, copy>>
  /\ now' \in Contents

(* A save may be followed by one more than is needed. *)
Save ==
  /\ stage = "idle" /\ owed /\ stage' = "saving"
  /\ copy' = now /\ owed' \in BOOLEAN
  /\ UNCHANGED <<now, stored, kind, faults>>

Write ==
  /\ stage \in {"saving", "closing"}
  /\ Mixed(stored', stored, copy)
  /\ UNCHANGED <<now, copy, stage, kind, owed, faults>>

Done ==
  /\ \/ stage = "saving" /\ stage' = "idle"
     \/ stage = "closing" /\ stage' = "closed"
  /\ Mixed(stored', stored, copy) /\ (Reliable => stored' = copy)
  /\ UNCHANGED <<now, copy, kind, owed, faults>>

(* A restart saves once more, without the credentials if it is to clear    *)
(* them, or erases everything.                                             *)
Close ==
  /\ stage = "idle"
  /\ \/ /\ kind' = "Plain" /\ copy' = now
        /\ stage' = "closing" /\ UNCHANGED stored
     \/ /\ kind' = "WifiReset"
        /\ copy' = [e \in Entry |-> IF e \in Credentials THEN Initial[e] ELSE now[e]]
        /\ stage' = "closing" /\ UNCHANGED stored
     \/ /\ kind' = "FactoryReset"
        /\ stored' = Initial \/ ("erase" \in faults /\ Mixed(stored', stored, Initial))
        /\ stage' = "closed" /\ UNCHANGED copy
  /\ UNCHANGED <<now, owed, faults>>

(* Down it goes when it is closed, or when the power is cut. *)
Down ==
  /\ stage = "closed" \/ ("power" \in faults /\ stage # "down")
  /\ stage' = "down" /\ kind' = "none" /\ now' = Initial /\ copy' = Initial /\ owed' = FALSE
  /\ UNCHANGED <<stored, faults>>

Next == Boot \/ Provide \/ Change \/ Save \/ Write \/ Done \/ Close \/ Down

Spec == Init /\ [][Next]_vars

=============================================================================
