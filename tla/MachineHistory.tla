--------------------------- MODULE MachineHistory ---------------------------
(***************************************************************************)
(* The machine with history variables, and what it promises.               *)
(*                                                                         *)
(* The history variables only watch: they record how long something the    *)
(* user can see has lasted, or what happened since, so that a property can *)
(* speak about it without using the machine's own timers and flags.        *)
(***************************************************************************)
EXTENDS Machine

VARIABLES
  brewing,      (* ticks since this run of brew states began, None outside  *)
  dispensing,   (* ticks the hot-water pump has run without a break         *)
  asleep,       (* fell into standby and nobody has asked for anything since *)
  fills,        (* fillings since this backflush run began                  *)
  sensorFault   (* a fault the sensor has not recovered from: "shown" as a  *)
                (* sensor error, or "hidden" behind an emergency stop       *)

history == <<brewing, dispensing, asleep, fills, sensorFault>>
hvars == <<vars, history>>

HTypeOK ==
  /\ brewing \in Age(MaxBrew + 1)
  /\ dispensing \in Age(MaxHotWater + 1)
  /\ asleep \in BOOLEAN
  /\ fills \in 0..(Horizon + 1)      \* counted up to the Horizon
  /\ sensorFault \in {"none", "shown", "hidden"}

HInit ==
  /\ Init
  /\ brewing = None /\ dispensing = None
  /\ asleep = FALSE /\ fills = 0 /\ sensorFault = "none"

(* What the user asks for in a tick: an edge the machine takes note of, or *)
(* a request left by a command.                                            *)
Asked(inp) == UserEdge(inp) \/ PowerWakes(inp) \/ req # {}

HotWaterRuns == pump /\ state \in {"PidNormal", "Steam"}

(* The age of a condition: None while it does not hold. *)
Watch(age, holds, limit) ==
  IF ~holds THEN None ELSE IF age = None THEN 0 ELSE Aged(age, limit)

Observe(inp) ==
  /\ brewing' = Watch(brewing, state' \in BrewActive, MaxBrew + 1)
  /\ dispensing' = Watch(dispensing, HotWaterRuns', MaxHotWater + 1)
  /\ asleep' = (Enters("Standby") \/ (asleep /\ ~Asked(inp) /\ ~Enters("EmergencyStop")))
  /\ fills' = IF state' \notin Running \cup {"BackflushFinished"} THEN 0
              ELSE IF ~Enters("BackflushFilling") THEN fills
              ELSE IF state = "BackflushFlushing" THEN Aged(fills, Horizon) ELSE 1
  /\ sensorFault' =
       IF ~tempFault' /\ tempGood' > SensorRecovery THEN "none"
       ELSE IF tempFault' \/ (sensorFault # "none" /\ state' = "EmergencyStop")
         THEN IF state' = "SensorError" THEN "shown" ELSE "hidden"
       ELSE sensorFault

HTick(inp) == Tick(inp) /\ Observe(inp)

HNext == \/ \E inp \in Inputs : HTick(inp)
         \/ UserCommand /\ UNCHANGED history

HSpec == HInit /\ [][HNext]_hvars /\ WF_hvars(\E inp \in Inputs : HTick(inp))

-----------------------------------------------------------------------------
(* Safety. *)

(* The safety cap of a shot (MAX_BREW_MS) bounds the whole shot, whatever  *)
(* phases it goes through, who started it and what the settings are        *)
(* changed to meanwhile.                                                   *)
ShotCapped == state \in BrewActive => brewing <= MaxBrew

(* Hot water never runs longer than MAX_HOT_WATER_MS without a break, also *)
(* when the machine goes from heating to steam and back under it.          *)
HotWaterCapped == dispensing <= MaxHotWater

(* Manual flush has no timer: the water runs only as long as somebody      *)
(* holds the brew switch.                                                  *)
FlushHeld == state = "ManualFlush" => brewWas

(* A machine that fell asleep stays cold until somebody asks for something *)
(* or an emergency stop intervenes; a sensor error and its recovery do not *)
(* wake it.                                                                *)
AsleepIsCold == asleep => ~heater /\ ~pump

(* A sensor error that was shown keeps the heater off until the sensor has *)
(* been good for SENSOR_RECOVERY_MS.                                       *)
FaultKeepsCold == sensorFault = "shown" => ~heater

(* A PID that is on in the settings is on in the machine, wherever the     *)
(* setting is in force: none of the places that write the flag loses it.   *)
PidOnHolds ==
  state \notin {"Standby", "EmergencyStop"} /\ pidCfgSeen /\ cfg.pidEnabled => pidRuntime

(* After a tick no operation that needs the PID goes on without it, and    *)
(* the machine does not idle at temperature.                               *)
PidOffHolds == req = {} /\ ~pidRuntime => state \notin NeedsPid \cup {"PidNormal"}
PidHolds == PidOnHolds /\ PidOffHolds

(* A backflush counts as finished, and clears the shot counter, only after *)
(* the set number of fillings.                                             *)
BackflushComplete ==
  [][Enters("BackflushFinished") => fills >= cfg.backflushCycles]_hvars

(* Every place that changes what is stored announces it, so that the       *)
(* storage task writes it: a calibration that ends, the power switch, a    *)
(* shot, a finished backflush, a command; in one tick or apart.            *)
ChangesAnnounced ==
  [][/\ cfg' # cfg => "ConfigChanged" \in events'
     /\ shots' # shots => "ShotCounterChanged" \in events']_hvars

(* Liveness. *)

(* The pump stops without anybody's help: every shot ends, by its target,  *)
(* the user or the cap, and so does every filling of a backflush.          *)
ShotEnds == state \in BrewActive ~> state \notin BrewActive
FillingEnds == state = "BackflushFilling" ~> state # "BackflushFilling"
PumpingEnds == ShotEnds /\ FillingEnds

(* A machine nobody touches does not stay in a state it may fall asleep    *)
(* from: the state changes, something is asked of it, or it sleeps.        *)
FallsAsleep ==
  []<>(state \notin MayIdle \/ elapsed = 0 \/ standby.age = 0 \/ ~cfg.standbyEnabled)

-----------------------------------------------------------------------------
(* The inductive invariant: how the history and the machine's own timers   *)
(* and flags agree.  The safety properties above follow from it, and       *)
(* MachineProofs shows that every step keeps it.                           *)

(* The cap's timer is set exactly while a shot runs, and is its age.       *)
ShotTimed ==
  /\ brewing = IF state \in BrewActive THEN brewStarted ELSE None
  /\ state \in BrewActive => brewStarted \in 0..MaxBrew

(* Water that flows has been flowing no longer than the machine counts.    *)
HotWaterTimed ==
  dispensing # None => 0 <= dispensing /\ dispensing <= hotWater /\ hotWater <= MaxHotWater

(* The setting the machine has noted is the one it runs with.              *)
PidKept == state \notin {"Standby", "EmergencyStop"} /\ pidCfgSeen => pidRuntime

(* Asleep means standby, or an error that goes back to it.                 *)
AsleepWhere ==
  asleep => /\ state \in {"Standby", "SensorError"} /\ ~heater /\ ~pump
            /\ state = "SensorError" => faultFromStandby

(* The cycle counter never runs ahead of the fillings.                     *)
FillsCounted ==
  /\ state \in {"BackflushIdle", "BackflushFinished"} => backflushCycle = 1
  /\ state \in Running => fills >= 1 /\ (fills >= backflushCycle \/ fills > Horizon)
  /\ cfg.backflushCycles <= Horizon

FaultShown == sensorFault = "shown" => state = "SensorError" /\ ~heater

Inductive == /\ TypeOK /\ HTypeOK
             /\ ShotTimed /\ HotWaterTimed /\ FlushHeld
             /\ PidKept /\ PidOffHolds /\ AsleepWhere /\ FaultShown /\ FillsCounted

-----------------------------------------------------------------------------
(* What the documentation says and the code does not keep: each of these   *)
(* has a run that shows the counterexample.                                *)

(* A recovered sensor must stay good for SENSOR_RECOVERY_MS before heating *)
(* resumes (machine.rs): also when the fault was hidden behind an          *)
(* emergency stop.                                                         *)
HeatsAfterRecovery == sensorFault # "none" => ~heater

=============================================================================
