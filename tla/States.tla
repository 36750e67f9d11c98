------------------------------- MODULE States -------------------------------
(***************************************************************************)
(* The machine states and their classification                             *)
(* (src/crates/core/src/state.rs).                                         *)
(***************************************************************************)

State == {"Init", "PidNormal",
          "BrewPreinfusion", "BrewPreinfusionPause", "BrewRunning", "BrewFinished",
          "ManualFlush", "Steam",
          "BackflushIdle", "BackflushFilling", "BackflushFlushing", "BackflushFinished",
          "WaterTankEmpty", "EmergencyStop", "PidDisabled", "Standby", "SensorError"}

(* A brew that is still pumping or soaking. *)
BrewActive == {"BrewPreinfusion", "BrewPreinfusionPause", "BrewRunning"}

(* Any brew phase, including the finished display. *)
Brew == BrewActive \cup {"BrewFinished"}

Backflush == {"BackflushIdle", "BackflushFilling", "BackflushFlushing", "BackflushFinished"}

(* States in which water flows through the group: only these open the valve. *)
WaterFlow == BrewActive \cup {"ManualFlush", "BackflushFilling"}

(* Operations that abort when the PID is switched off. *)
NeedsPid == State \ {"PidDisabled", "PidNormal", "Standby", "Init",
                     "EmergencyStop", "SensorError", "WaterTankEmpty"}

(* The heater may run in this state; keep is the tank's "keep heater on".  *)
AllowsHeating(s, keep) ==
  \/ s = "WaterTankEmpty" /\ keep
  \/ s \in {"PidNormal", "Steam", "ManualFlush"} \cup Brew

=============================================================================
