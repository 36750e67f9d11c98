------------------------------- MODULE MCDevice -------------------------------
(***************************************************************************)
(* An instance of the machine's hardware for TLC.                          *)
(***************************************************************************)
EXTENDS Device

(* The ends of the TSIC's range, alternating bits, and a half.             *)
MCRawValues == {0, 255, 1365, 2047}

(* The defaults of the gains in small, and without an integral part        *)
(* (pid.regular.tn = 0); brew detection and steam have none.               *)
MCRegular == {[kp |-> 1, ki |-> i, kd |-> 1] : i \in {0, 1}}
MCBrewing == [kp |-> 1, ki |-> 0, kd |-> 1]
MCSteaming == [kp |-> 3, ki |-> 0, kd |-> 0]

(* A template with every screen, and a state of each kind.                 *)
MCChoices == {[template |-> "upright", fullBrew |-> TRUE, fullFlush |-> TRUE, fullHotWater |-> TRUE,
               heatingLogo |-> TRUE, offLogo |-> TRUE]}
Reports(s) == [state |-> s, hotWater |-> s = "Steam", cold |-> s = "PidNormal", off |-> s = "Standby"]
MCStatuses == {Reports(s) : s \in {"Init", "BrewRunning", "EmergencyStop", "Standby"}}
=============================================================================
