--------------------------- MODULE MCSettingsStore ---------------------------
(***************************************************************************)
(* Instances of SettingsStore for TLC.                                     *)
(***************************************************************************)
EXTENDS SettingsStore

(* Parameter 1 is the SSID, 2 anything else; 0 is the default.             *)
Values == {0, 1}
WifiParams == {1}

(* The record sets both.                                                   *)
OneRecord == {[p \in 1..2 |-> 1]}
NoRecords == {}

(* No faults; power cuts; failing writes and erases; failing reads.        *)
Faults == {{}, {"power"}, {"write", "erase"}, {"read"}}
WorkingFlash == {{}}

=============================================================================
