------------------------------ MODULE MCMachine ------------------------------
(***************************************************************************)
(* Instances of MachineHistory for TLC: settings and inputs of each run.   *)
(***************************************************************************)
EXTENDS MachineHistory

(* Everything is well and nobody touches a switch. *)
Quiet == [temp |-> "safe", fault |-> FALSE, tank |-> TRUE, ota |-> FALSE,
          brew |-> FALSE, steam |-> FALSE, hotWater |-> FALSE, power |-> FALSE,
          target |-> FALSE, counts |-> FALSE, calibrated |-> 0]

Basic == [pidEnabled |-> TRUE, automatic |-> FALSE,
          preInfusion |-> FALSE, preInfusionTime |-> 1, preInfusionPause |-> 1,
          byTime |-> FALSE, targetTime |-> 1, pidDelay |-> 2,
          standbyEnabled |-> FALSE, standbyTime |-> 2,
          backflushCycles |-> 2, fillTime |-> 1, flushTime |-> 1,
          keepHeaterOnEmpty |-> FALSE, setpoint |-> 1,
          scaleEnabled |-> FALSE, scaleFactor |-> 1]
BasicConfigs == {Basic}

(* MCShot: manual shots and shots with preinfusion, steam and hot water.   *)
ShotInputs == {[Quiet EXCEPT !.brew = b, !.steam = s, !.hotWater = h] : b, s, h \in BOOLEAN}
TimedShot == [Basic EXCEPT !.automatic = TRUE, !.preInfusion = TRUE]
ShotConfigs == {Basic, TimedShot}

(* MCBackflush: brew switch and tank; the setting allows two cycles or     *)
(* more.  The shots between the runs end by time or by weight.             *)
BackflushInputs == {[Quiet EXCEPT !.brew = b, !.tank = f, !.target = t] : b, f, t \in BOOLEAN}
BackflushConfigs == {Basic, [TimedShot EXCEPT !.byTime = TRUE, !.preInfusionPause = 0,
                                              !.backflushCycles = 3]}

(* MCSleep: every class of reading, hard faults, an empty tank, an update. *)
(* The driver reports a fault instead of a reading, never with one.        *)
SensorInputs == {[Quiet EXCEPT !.temp = t] : t \in Reading}
                \cup {[Quiet EXCEPT !.temp = "none", !.fault = TRUE]}
SleepInputs == SensorInputs \cup {[Quiet EXCEPT !.tank = FALSE], [Quiet EXCEPT !.ota = TRUE]}
SleepConfigs == {[Basic EXCEPT !.standbyEnabled = TRUE]}

(* MCPid: the power switch, missing and impossible readings, the tank, and *)
(* a calibration that ends in any tick, also the one of the switch.        *)
PidInputs == {[Quiet EXCEPT !.temp = t, !.power = p, !.tank = w] :
                t \in {"none", "safe", "implausible"}, p, w \in BOOLEAN}
             \cup {[Quiet EXCEPT !.power = p, !.calibrated = 2] : p \in BOOLEAN}
PidConfigs == {Basic, [Basic EXCEPT !.pidEnabled = FALSE, !.scaleEnabled = TRUE],
               [Basic EXCEPT !.keepHeaterOnEmpty = TRUE, !.setpoint = 2]}

=============================================================================
