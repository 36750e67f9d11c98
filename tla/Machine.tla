------------------------------- MODULE Machine -------------------------------
(***************************************************************************)
(* The espresso machine: switches, state machine, temperature supervision  *)
(* and actuators (src/crates/core/src/machine.rs).                         *)
(*                                                                         *)
(* The control loop calls tick() every 10 ms with the hardware readings;   *)
(* the web and MQTT tasks call command() between ticks.  Both run under    *)
(* one lock, so each is one action.  Tick(inp) is the whole of tick(): its *)
(* conjuncts follow the order of the calls in the code, and a value that   *)
(* several of those calls change passes through named intermediate         *)
(* operators (PidFollowed, PidSwitched, ...).                              *)
(*                                                                         *)
(* Time is counted in ticks and kept as ages, see Timers.  Readings and    *)
(* weights are reduced to the classes the code compares them with.  The    *)
(* PID's duty is abstracted to its worst case: heater means that the       *)
(* heater output may be on in this tick.                                   *)
(***************************************************************************)
EXTENDS States, Timers

CONSTANTS
  BrewSwitch, SteamSwitch, PowerSwitch,  (* "none", "toggle" or "momentary" *)
  HotWaterSwitch,                        (* is the switch fitted?           *)
  TempTimeout, SensorRecovery, FinishedDisplay, MaxBrew, MaxHotWater,
  LongPress, RebootHold, RebootArm, MinCountedShot,    (* ages, in ticks    *)
  EmergencyDebounce,
  MaxShots,        (* where the shot counter saturates (u32::MAX)           *)
  Configs,         (* the settings a user may write                         *)
  Inputs,          (* the readings one tick may bring                       *)
  Commands         (* the commands the network tasks may send               *)

(* Classes of a temperature reading: implausible (outside 0..200 C), safe  *)
(* (up to 100 C), warm, in the hysteresis band below the emergency         *)
(* temperature, over it.  "none": no new reading.                          *)
Reading == {"none", "implausible", "safe", "warm", "band", "over"}

SwitchKind == {"none", "toggle", "momentary"}

Config == [pidEnabled : BOOLEAN, automatic : BOOLEAN,
           preInfusion : BOOLEAN, preInfusionTime : Nat, preInfusionPause : Nat,
           byTime : BOOLEAN, targetTime : Nat, pidDelay : Nat,
           standbyEnabled : BOOLEAN, standbyTime : Nat,
           backflushCycles : Nat, fillTime : Nat, flushTime : Nat,
           keepHeaterOnEmpty : BOOLEAN, setpoint : Nat,
           scaleEnabled : BOOLEAN, scaleFactor : Nat]

(* target: brew by weight is on and a working scale shows the target       *)
(* weight.  counts: the scale shows a weight that makes the shot count.    *)
(* calibrated: the factor that a calibration would end with on the reading *)
(* of this tick, 0 if it does not end; Scale has the calibration itself.   *)
Input == [temp : Reading, fault : BOOLEAN, tank : BOOLEAN, ota : BOOLEAN,
          brew : BOOLEAN, steam : BOOLEAN, hotWater : BOOLEAN, power : BOOLEAN,
          target : BOOLEAN, counts : BOOLEAN, calibrated : Nat]

CommandName == {"SetPid", "SetSteam", "SetBackflush", "SetBrewSetpoint", "Wake",
                "Sleep", "ResetShotCounter", "WriteConfig"}

Event == {"ConfigChanged", "ShotCounterChanged", "Reboot"}

ASSUME MachineAssumption ==
  /\ {BrewSwitch, SteamSwitch, PowerSwitch} \subseteq SwitchKind
  /\ HotWaterSwitch \in BOOLEAN
  /\ TempTimeout \in Nat /\ SensorRecovery \in Nat /\ FinishedDisplay \in Nat
  /\ MaxBrew \in Nat /\ MaxHotWater \in Nat /\ MinCountedShot \in Nat
  /\ LongPress \in Nat /\ RebootHold \in Nat /\ RebootArm \in Nat
  /\ LongPress <= RebootHold
  /\ EmergencyDebounce \in Nat \ {0}
  /\ MaxShots \in Nat
  /\ Configs \subseteq Config
  /\ Inputs \subseteq Input
  /\ Commands \subseteq CommandName

(* What the bounds of a run must satisfy for Horizon to lose nothing.      *)
ASSUME HorizonAssumption ==
  /\ FinishedDisplay <= Horizon
  /\ \A c \in Configs :
       /\ c.standbyTime > 0 /\ c.standbyTime + DisplayOff <= Horizon
       /\ {c.preInfusionTime, c.preInfusionPause, c.targetTime, c.pidDelay,
           c.fillTime, c.flushTime, c.backflushCycles} \subseteq 0..Horizon

VARIABLES
  cfg,               (* the settings                                        *)
  state, elapsed,    (* the state and its age                               *)
  req,               (* requests of commands, for the next tick             *)
  standbyRequested, faultFromStandby,
  pidRuntime, pidCfgSeen,
  backflushMode, backflushCycle,
  brewWas, brewHeld, steamWas, hotWaterWas, powerWas,
  pressPending,      (* backflush_press_pending                             *)
  powerPress, uptime,
  emergency, overCount,
  rawTemp, tempAge, tempFault, tempGood,
  tankFull,
  brewTime, brewTarget, brewStarted,
  hotWater, hotWaterTimedOut,
  standby,
  shots,
  heater, pump, valve,
  events             (* what the last tick or command pushed                *)

tempVars == <<emergency, overCount, rawTemp, tempAge, tempFault, tempGood, tankFull>>
switchVars == <<brewWas, brewHeld, steamWas, hotWaterWas, powerWas, pressPending,
                powerPress, uptime>>
shotVars == <<brewTime, brewTarget, brewStarted, hotWater, hotWaterTimedOut>>
outputVars == <<heater, pump, valve>>

vars == <<cfg, state, elapsed, req, standbyRequested, faultFromStandby, pidRuntime,
          pidCfgSeen, backflushMode, backflushCycle, switchVars, tempVars, shotVars,
          standby, shots, outputVars, events>>

TypeOK ==
  /\ cfg \in Config
  /\ state \in State /\ elapsed \in 0..(Horizon + 1)
  /\ req \subseteq {"steam_start", "steam_stop", "normal_operation"}
  /\ {standbyRequested, faultFromStandby, pidRuntime, pidCfgSeen} \subseteq BOOLEAN
  /\ backflushMode \in BOOLEAN /\ backflushCycle \in Nat
  /\ {brewWas, steamWas, hotWaterWas, powerWas, pressPending} \subseteq BOOLEAN
  /\ brewHeld \in 0..(LongPress + 1)
  /\ powerPress \in Age(RebootHold) /\ uptime \in 0..(RebootArm + 1)
  /\ emergency \in BOOLEAN /\ overCount \in 0..EmergencyDebounce
  /\ rawTemp \in Reading /\ tempAge \in 0..(TempTimeout + 1)
  /\ tempFault \in BOOLEAN /\ tempGood \in Age(SensorRecovery)
  /\ tankFull \in BOOLEAN
  /\ brewTime \in Nat /\ brewTarget \in Nat /\ brewStarted \in Age(MaxBrew)
  /\ hotWater \in Age(MaxHotWater) /\ hotWaterTimedOut \in BOOLEAN
  /\ standby \in StandbyTimer
  /\ shots \in 0..MaxShots
  /\ {heater, pump, valve} \subseteq BOOLEAN
  /\ events \subseteq Event

Init ==
  /\ cfg \in Configs
  /\ state = "Init" /\ elapsed = 0
  /\ req = {}
  /\ standbyRequested = FALSE /\ faultFromStandby = FALSE
  /\ pidRuntime = cfg.pidEnabled /\ pidCfgSeen = cfg.pidEnabled
  /\ backflushMode = FALSE /\ backflushCycle = 1
  /\ brewWas = FALSE /\ steamWas = FALSE /\ hotWaterWas = FALSE /\ powerWas = FALSE
  /\ brewHeld = 0 /\ pressPending = FALSE /\ powerPress = None /\ uptime = 0
  /\ emergency = FALSE /\ overCount = 0
  /\ rawTemp = "none" /\ tempAge = 0 /\ tempFault = FALSE /\ tempGood = None
  /\ tankFull = TRUE
  /\ brewTime = 0 /\ brewTarget = 0 /\ brewStarted = None
  /\ hotWater = None /\ hotWaterTimedOut = FALSE
  /\ standby = StandbyDefault
  /\ shots = 0        \* the stored counter; zero is as good as any
  /\ heater = FALSE /\ pump = FALSE /\ valve = FALSE
  /\ events = {}

-----------------------------------------------------------------------------
(* follow_pid_setting: the runtime flag after a setting changed elsewhere. *)

\* Mutant: a setting changed elsewhere is not followed.
PidUnfollowed == pidRuntime

PidFollowed ==
  IF cfg.pidEnabled # pidCfgSeen /\ state \notin {"Standby", "EmergencyStop"}
    THEN cfg.pidEnabled ELSE pidRuntime

(* read_sensors and Emergency::on_reading. *)

OnReading(t) ==
  \/ /\ t = "implausible"
     /\ emergency' = TRUE /\ UNCHANGED overCount
  \/ /\ t = "over"
     \* saturating_add; beyond the debounce count only "at least" matters
     /\ overCount' = IF overCount < EmergencyDebounce THEN overCount + 1 ELSE overCount
     /\ emergency' = (emergency \/ overCount' >= EmergencyDebounce)
  \/ /\ t \in {"warm", "safe"}
     /\ overCount' = 0 /\ emergency' = (emergency /\ t # "safe")
  \/ /\ t \in {"band", "none"}
     /\ UNCHANGED <<emergency, overCount>>

(* ScaleState::on_reading has written a new factor to the settings. *)
Calibrates(inp) == cfg.scaleEnabled /\ inp.calibrated # 0

ReadSensors(inp) ==
  /\ rawTemp' = IF inp.temp = "none" THEN rawTemp ELSE inp.temp
  /\ tempAge' = IF inp.temp = "none" THEN Aged(tempAge, TempTimeout) ELSE 0
  /\ OnReading(inp.temp)
  /\ tempFault' = (inp.fault \/ tempAge' > TempTimeout)
  /\ tempGood' = IF tempFault' THEN None
                 ELSE IF tempGood = None /\ rawTemp' # "none" THEN 0
                 ELSE Aged(tempGood, SensorRecovery)
  /\ tankFull' = inp.tank

-----------------------------------------------------------------------------
(* handle_switches: the levels are the debounced ones. *)

SteamEdge(inp) == SteamSwitch # "none" /\ inp.steam # steamWas
PowerEdge(inp) == PowerSwitch # "none" /\ inp.power # powerWas
HotWaterEdge(inp) == HotWaterSwitch /\ inp.hotWater # hotWaterWas
BrewLevelEdge(inp) == BrewSwitch # "none" /\ inp.brew # brewWas

(* An edge while the tank is empty is noticed and dropped. *)
BrewEdge(inp) == BrewLevelEdge(inp) /\ state # "WaterTankEmpty"

UserEdge(inp) == SteamEdge(inp) \/ HotWaterEdge(inp) \/ BrewEdge(inp)

(* on_power_edge: a momentary switch acts on the press alone. *)
PowerActs(inp) == PowerEdge(inp) /\ (PowerSwitch = "toggle" \/ inp.power)
PowerOn(inp) == IF PowerSwitch = "toggle" THEN inp.power ELSE state = "Standby"
PowerWakes(inp) == /\ PowerActs(inp) /\ PowerOn(inp)
                   /\ state \in {"Standby", "PidDisabled"}
EnablesPid(inp) == PowerWakes(inp) /\ ~cfg.pidEnabled
PowerSleeps(inp) == PowerActs(inp) /\ ~PowerOn(inp) /\ state # "Standby"

(* A momentary press held since backflush idle. *)
\* Mutant: is_long_press does not ask whether the switch is still down.
LongBrewPressEver(inp) == /\ BrewSwitch = "momentary" /\ ~BrewLevelEdge(inp)
                          /\ Aged(brewHeld, LongPress) >= LongPress /\ pressPending

LongBrewPress(inp) == /\ BrewSwitch = "momentary" /\ ~BrewLevelEdge(inp)
                      /\ brewWas /\ Aged(brewHeld, LongPress) >= LongPress
                      /\ pressPending

(* In these the brew switch drives the backflush, not a shot. *)
BrewSwitchFlushes == backflushMode \/ state \in Backflush \cup {"ManualFlush"}

Running == {"BackflushFilling", "BackflushFlushing"}

\* Mutants: the cap bounds each phase; the cap forgets the last phase.
BrewCapPerPhase == state \in BrewActive /\ Aged(elapsed, Horizon) >= MaxBrew
BrewCapBeforeRunning ==
  state \in BrewActive \ {"BrewRunning"} /\ Aged(brewStarted, MaxBrew) > MaxBrew

BrewCapReached == state \in BrewActive /\ Aged(brewStarted, MaxBrew) > MaxBrew

(* The requests the state machine sees in this tick. *)
Requests(inp) ==
  LET momentary == BrewSwitch = "momentary"
      press == BrewEdge(inp) /\ inp.brew
      release == BrewEdge(inp) /\ ~inp.brew
      shot == BrewEdge(inp) /\ ~BrewSwitchFlushes
      flush == BrewEdge(inp) /\ BrewSwitchFlushes
      steaming == state = "Steam"
  IN [normal_operation |->
        "normal_operation" \in req \/ UserEdge(inp) \/ PowerWakes(inp),
      steam_start |->
        "steam_start" \in req \/ (SteamEdge(inp) /\ inp.steam /\ ~steaming),
      steam_stop |->
        \/ "steam_stop" \in req
        \/ SteamEdge(inp) /\ steaming /\ inp.steam = (SteamSwitch = "momentary"),
      brew_start |-> shot /\ press /\ state \notin BrewActive,
      brew_stop |->
        \/ shot /\ state \in BrewActive /\ inp.brew = momentary
        \/ BrewCapReached,
      flush_start |-> LongBrewPress(inp),
      flush_stop |-> release /\ state = "ManualFlush",
      backflush_cycle_start |->
        \/ flush /\ press /\ state = "BackflushFinished"
        \/ flush /\ press /\ state = "BackflushIdle" /\ ~momentary
        \/ flush /\ release /\ state # "ManualFlush" /\ pressPending,
      backflush_stop |->
        \/ flush /\ press /\ state \in Running
        \/ flush /\ release /\ state \in Running /\ ~momentary /\ ~pressPending]

PidSwitched(inp) == PowerWakes(inp) \/ PidFollowed

StandbyAsked(inp) == (standbyRequested \/ PowerSleeps(inp)) /\ ~PowerWakes(inp)

(* The standby countdown after the switches (steam, power, hot water, brew *)
(* in this order) and its own update.                                      *)
StandbySwitched(inp) ==
  LET aged == [standby EXCEPT !.age = Aged(@, Horizon)]
      steam == IF SteamEdge(inp) THEN Reset(aged, cfg) ELSE aged
      power == IF PowerWakes(inp) THEN Reset(steam, cfg)
               ELSE IF PowerSleeps(inp) THEN Expire(steam) ELSE steam
  IN Update(IF HotWaterEdge(inp) \/ BrewEdge(inp) THEN Reset(power, cfg) ELSE power, cfg)

(* is_long_press holds by then: RebootHold >= LongPress. *)
RebootDue == /\ powerWas' /\ powerPress # None
             /\ Aged(powerPress, RebootHold) > RebootHold

HandleSwitches(inp) ==
  /\ steamWas' = IF SteamEdge(inp) THEN inp.steam ELSE steamWas
  /\ hotWaterWas' = IF HotWaterEdge(inp) THEN inp.hotWater ELSE hotWaterWas
  /\ brewWas' = IF BrewLevelEdge(inp) THEN inp.brew ELSE brewWas
  /\ powerWas' = IF PowerEdge(inp) THEN inp.power ELSE powerWas
  /\ brewHeld' = IF brewWas /\ brewWas' /\ BrewSwitch = "momentary"
                   THEN Aged(brewHeld, LongPress) ELSE 0
  /\ pressPending' =
       IF BrewEdge(inp) /\ BrewSwitchFlushes
         THEN IF inp.brew
                THEN pressPending \/ (BrewSwitch = "momentary" /\ state = "BackflushIdle")
                ELSE pressPending /\ state = "ManualFlush"
         ELSE pressPending /\ ~LongBrewPress(inp)
  /\ uptime' = Aged(uptime, RebootArm)
  /\ powerPress' =
       IF PowerEdge(inp) /\ PowerSwitch = "momentary"
         THEN IF inp.power /\ uptime' > RebootArm THEN 0 ELSE None
         ELSE IF RebootDue THEN None ELSE Aged(powerPress, RebootHold)
  /\ cfg' = [cfg EXCEPT !.pidEnabled = @ \/ PowerWakes(inp),
                        !.scaleFactor = IF Calibrates(inp) THEN inp.calibrated ELSE @]

-----------------------------------------------------------------------------
(* update_state_data: shot time and hot water. *)

PreinfusionBase ==
  IF cfg.preInfusion THEN cfg.preInfusionTime + cfg.preInfusionPause ELSE 0

TargetBrew ==
  IF cfg.automatic /\ cfg.byTime THEN PreinfusionBase + cfg.targetTime ELSE 0

RunningBase == IF cfg.automatic THEN PreinfusionBase ELSE 0

Elapsed == Aged(elapsed, Horizon)

BrewTimeNow ==
  IF state \in {"BrewPreinfusion", "ManualFlush"} THEN Elapsed
  ELSE IF state = "BrewPreinfusionPause" THEN cfg.preInfusionTime + Elapsed
  ELSE IF state = "BrewRunning" THEN RunningBase + Elapsed
  ELSE brewTime

Dispensing == /\ hotWaterWas' /\ ~hotWaterTimedOut
              /\ state \in {"PidNormal", "Steam"} /\ tankFull'

\* Mutant: the hot-water timer is the state's own.
UpdateHotWaterPerState ==
  /\ hotWater' = IF ~Dispensing THEN None
                 ELSE IF hotWater = None \/ elapsed = 0 THEN 0 ELSE Aged(hotWater, MaxHotWater)
  /\ hotWaterTimedOut' = (\/ Dispensing /\ hotWater' > MaxHotWater
                          \/ hotWaterTimedOut /\ hotWaterWas')

UpdateHotWater ==
  /\ hotWater' = IF ~Dispensing THEN None
                 ELSE IF hotWater = None THEN 0 ELSE Aged(hotWater, MaxHotWater)
  /\ hotWaterTimedOut' = (\/ Dispensing /\ hotWater' > MaxHotWater
                          \/ hotWaterTimedOut /\ hotWaterWas')

-----------------------------------------------------------------------------
(* next_state: the state after this tick, the present one if none is due. *)

PidState == IF cfg'.pidEnabled THEN "PidNormal" ELSE "PidDisabled"

FinishReached(inp) ==
  /\ cfg.automatic
  /\ \/ cfg.byTime /\ brewTarget > 0 /\ BrewTimeNow >= brewTarget
     \/ inp.target

\* Mutant: one good reading is enough.
RecoveredAtOnce == tempGood' # None

Recovered == tempGood' > SensorRecovery

BrewRule(inp, r) ==
  IF state = "BrewPreinfusion" THEN
    IF r.brew_stop THEN PidState
    ELSE IF ~cfg.automatic \/ ~cfg.preInfusion THEN "BrewRunning"
    ELSE IF Elapsed < cfg.preInfusionTime THEN state
    ELSE IF cfg.preInfusionPause > 0 THEN "BrewPreinfusionPause" ELSE "BrewRunning"
  ELSE IF state = "BrewPreinfusionPause" THEN
    IF r.brew_stop THEN PidState
    ELSE IF ~cfg.automatic \/ Elapsed >= cfg.preInfusionPause THEN "BrewRunning" ELSE state
  ELSE IF state = "BrewRunning" THEN
    IF r.brew_stop \/ FinishReached(inp) THEN "BrewFinished" ELSE state
  ELSE \* BrewFinished
    IF r.brew_start THEN "BrewPreinfusion"
    ELSE IF Elapsed >= FinishedDisplay THEN PidState ELSE state

BackflushRule(r) ==
  IF ~backflushMode THEN PidState
  ELSE IF state = "BackflushIdle" THEN
    IF r.flush_start THEN "ManualFlush"
    ELSE IF r.backflush_cycle_start THEN "BackflushFilling" ELSE state
  ELSE IF r.backflush_stop THEN "BackflushIdle"
  ELSE IF state = "BackflushFilling" THEN
    IF Elapsed >= cfg.fillTime THEN "BackflushFlushing" ELSE state
  ELSE IF state = "BackflushFlushing" THEN
    IF Elapsed < cfg.flushTime THEN state
    ELSE IF backflushCycle < cfg.backflushCycles THEN "BackflushFilling"
    ELSE "BackflushFinished"
  ELSE \* BackflushFinished
    IF r.backflush_cycle_start THEN "BackflushFilling"
    ELSE IF Elapsed >= FinishedDisplay THEN "BackflushIdle" ELSE state

(* The state's own rules, but for the way into standby. *)
Rule(inp, r) ==
  IF state \in Brew THEN BrewRule(inp, r)
  ELSE IF state \in Backflush THEN BackflushRule(r)
  ELSE IF state = "Init" THEN
    IF rawTemp' = "none" THEN state
    ELSE IF PidSwitched(inp) THEN "PidNormal" ELSE "PidDisabled"
  ELSE IF state = "PidNormal" THEN
    IF ~PidSwitched(inp) THEN "PidDisabled"
    ELSE IF r.brew_start THEN IF cfg.automatic THEN "BrewPreinfusion" ELSE "BrewRunning"
    ELSE IF r.steam_start THEN "Steam"
    ELSE IF r.flush_start THEN "ManualFlush"
    ELSE IF backflushMode THEN "BackflushIdle" ELSE state
  ELSE IF state = "PidDisabled" THEN
    IF PidSwitched(inp) THEN "PidNormal" ELSE state
  ELSE IF state = "ManualFlush" THEN
    IF ~r.flush_stop THEN state
    ELSE IF backflushMode THEN "BackflushIdle" ELSE PidState
  ELSE IF state = "Steam" THEN
    IF r.steam_stop THEN PidState ELSE state
  ELSE IF state = "WaterTankEmpty" THEN
    IF tankFull' THEN PidState ELSE state
  ELSE IF state = "EmergencyStop" THEN
    IF rawTemp' = "safe" /\ ~emergency' THEN "Init" ELSE state
  ELSE IF state = "Standby" THEN
    IF r.normal_operation \/ r.brew_start \/ r.steam_start THEN PidState ELSE state
  ELSE \* SensorError
    IF ~Recovered THEN state ELSE IF faultFromStandby' THEN "Standby" ELSE PidState

(* The safety checks come first. *)
Urgent(inp, r) ==
  IF emergency' /\ state # "EmergencyStop" THEN "EmergencyStop"
  ELSE IF tempFault' /\ state \notin {"SensorError", "EmergencyStop"} THEN "SensorError"
  ELSE IF ~tankFull'
          /\ state \notin {"WaterTankEmpty", "Standby", "EmergencyStop", "SensorError"}
    THEN "WaterTankEmpty"
  ELSE IF state \in NeedsPid /\ ~PidSwitched(inp) THEN "PidDisabled"
  ELSE Rule(inp, r)

MayIdle == {"PidNormal", "PidDisabled", "WaterTankEmpty"}

(* Nothing else is due in a state the machine falls asleep from. *)
Idle(inp, r) == state \in MayIdle /\ Urgent(inp, r) = state

StandbyNow(inp, r) ==
  IF Idle(inp, r) /\ ~StandbyAsked(inp) THEN Arm(StandbySwitched(inp), cfg)
  ELSE StandbySwitched(inp)

NextState(inp, r) ==
  IF Idle(inp, r) /\ (StandbyAsked(inp) \/ ShouldEnter(StandbyNow(inp, r), cfg))
    THEN "Standby" ELSE Urgent(inp, r)

-----------------------------------------------------------------------------
(* transition: exit and entry actions, from state to state'. *)

Enters(s) == state' = s /\ state # s

ShotCounts(inp) == Enters("BrewFinished")
                   /\ (BrewTimeNow >= MinCountedShot \/ inp.counts)

NextBrewStarted ==
  IF \/ Enters("BrewPreinfusion")
     \/ Enters("BrewRunning") /\ state \notin BrewActive THEN 0
  ELSE IF state' # state /\ state' \notin BrewActive THEN None
  ELSE Aged(brewStarted, MaxBrew)

\* Mutant: a finished run leaves its count to the next one.
NextCycleKept ==
  IF Enters("BackflushFilling") /\ state = "BackflushFlushing"
    THEN backflushCycle + 1 ELSE backflushCycle

NextCycle ==
  IF Enters("BackflushFilling") /\ state = "BackflushFlushing" THEN backflushCycle + 1
  ELSE IF Enters("BackflushIdle") \/ Enters("BackflushFinished") THEN 1
  ELSE backflushCycle

Transition(inp) ==
  /\ elapsed' = IF state' = state THEN Elapsed ELSE 0
  /\ pidRuntime' =
       IF state' = state THEN PidSwitched(inp)
       ELSE /\ state' \notin {"PidDisabled", "Standby", "EmergencyStop"}
            /\ IF state \in {"Standby", "EmergencyStop"} THEN cfg'.pidEnabled
               ELSE PidSwitched(inp)
  /\ standbyRequested' = (StandbyAsked(inp) /\ ~Enters("Standby"))
  /\ brewTime' = IF Enters("BrewPreinfusion") \/ Enters("ManualFlush") THEN 0
                 ELSE IF Enters("BrewPreinfusionPause") THEN cfg.preInfusionTime
                 ELSE IF Enters("BrewRunning") THEN RunningBase
                 ELSE BrewTimeNow
  /\ brewTarget' = IF Enters("BrewPreinfusion") \/ Enters("BrewRunning")
                     THEN TargetBrew ELSE brewTarget
  /\ brewStarted' = NextBrewStarted
  /\ backflushCycle' = NextCycle
  /\ shots' = IF ShotCounts(inp) /\ shots < MaxShots THEN shots + 1
              ELSE IF Enters("BackflushFinished") THEN 0 ELSE shots

\* Mutant: a recovered sensor wakes the machine.
FromStandbyForgotten(r) == FALSE

(* fault_from_standby: set on the way into the error, cleared when a wake  *)
(* arrives during it.                                                      *)
FromStandby(r) ==
  IF tempFault' /\ ~emergency' /\ state \notin {"SensorError", "EmergencyStop"}
    THEN state = "Standby"
    ELSE faultFromStandby
         /\ ~(/\ state = "SensorError" /\ ~emergency'
              /\ r.normal_operation \/ r.brew_start \/ r.steam_start)

(* control_temperature and compute_outputs. *)

BrewDelayActive == state' \in Brew /\ brewTime' > 0 /\ brewTime' < cfg.pidDelay

Heat == /\ AllowsHeating(state', cfg.keepHeaterOnEmpty)
        /\ ~BrewDelayActive /\ ~tempFault' /\ ~emergency' /\ rawTemp' # "none"

Halt(inp) == emergency' \/ inp.ota \/ state' = "EmergencyStop"

ComputeOutputs(inp) ==
  /\ heater' = (Heat /\ ~Halt(inp))
  /\ pump' = /\ \/ state' \in WaterFlow \ {"BrewPreinfusionPause"}
                \/ /\ state' \in {"PidNormal", "Steam"} /\ hotWaterWas'
                   /\ hotWater' # None /\ ~hotWaterTimedOut'
             /\ ~Halt(inp) /\ tankFull'
  /\ valve' = (state' \in WaterFlow /\ ~Halt(inp))

(* Where tick() pushes ConfigChanged: read_sensors and on_power_edge. *)
\* Mutants: the one or the other writes a setting without a word.
SilentCalibration(inp) == EnablesPid(inp)
SilentPowerSwitch(inp) == Calibrates(inp)
ConfigPushed(inp) == Calibrates(inp) \/ EnablesPid(inp)

Tick(inp) ==
  LET r == Requests(inp) IN
  /\ ReadSensors(inp)
  /\ HandleSwitches(inp)
  /\ UpdateHotWater
  /\ faultFromStandby' = FromStandby(r)
  /\ state' = NextState(inp, r)
  /\ standby' = StandbyNow(inp, r)
  /\ Transition(inp)
  /\ ComputeOutputs(inp)
  /\ pidCfgSeen' = cfg.pidEnabled
  /\ req' = {}
  /\ events' = {e \in Event :
                  \/ e = "ConfigChanged" /\ ConfigPushed(inp)
                  \/ e = "Reboot" /\ RebootDue
                  \/ e = "ShotCounterChanged"
                     /\ (ShotCounts(inp) \/ (Enters("BackflushFinished") /\ shots # 0))}
  /\ UNCHANGED backflushMode

-----------------------------------------------------------------------------
(* command *)

commandFrame == <<state, elapsed, faultFromStandby, backflushCycle,
                  switchVars, tempVars, shotVars, outputVars>>

(* activity(), with the requests the command itself raises. *)
Activity(raised) ==
  /\ req' = req \cup {"normal_operation"} \cup raised
  /\ standby' = Reset(standby, cfg')

(* SetPid and TogglePid, which sets the opposite of the runtime flag. *)
SetPid(on) ==
  /\ "SetPid" \in Commands
  /\ cfg' = [cfg EXCEPT !.pidEnabled = on]
  /\ events' = IF cfg.pidEnabled # on THEN {"ConfigChanged"} ELSE {}
  /\ pidRuntime' = on /\ pidCfgSeen' = on
  /\ Activity({})
  /\ UNCHANGED <<commandFrame, standbyRequested, backflushMode, shots>>

(* SetSteam and ToggleSteam, which asks for Steam unless it is the state. *)
SetSteam(on) ==
  /\ "SetSteam" \in Commands
  /\ cfg' = cfg
  /\ Activity({IF on THEN "steam_start" ELSE "steam_stop"})
  /\ events' = {}
  /\ UNCHANGED <<commandFrame, standbyRequested, pidRuntime, pidCfgSeen, backflushMode, shots>>

(* SetBackflush and ToggleBackflush. *)
SetBackflush(on) ==
  /\ "SetBackflush" \in Commands
  /\ on # backflushMode
  /\ on => cfg.backflushCycles > 0
  /\ cfg' = cfg
  /\ backflushMode' = on /\ backflushCycle' = 1
  /\ Activity({})
  /\ events' = {}
  /\ UNCHANGED <<state, elapsed, faultFromStandby, standbyRequested, pidRuntime, pidCfgSeen,
                 switchVars, tempVars, shotVars, outputVars, shots>>

SetBrewSetpoint(t) ==
  /\ "SetBrewSetpoint" \in Commands
  /\ cfg' = [cfg EXCEPT !.setpoint = t]
  /\ Activity({})
  /\ events' = {"ConfigChanged"}
  /\ UNCHANGED <<commandFrame, standbyRequested, pidRuntime, pidCfgSeen, backflushMode, shots>>

(* Wake, and the scale commands as far as this module sees them. *)
Wake ==
  /\ "Wake" \in Commands
  /\ cfg' = cfg
  /\ Activity({})
  /\ events' = {}
  /\ UNCHANGED <<commandFrame, standbyRequested, pidRuntime, pidCfgSeen, backflushMode, shots>>

Sleep ==
  /\ "Sleep" \in Commands
  /\ standbyRequested' = TRUE
  /\ events' = {}
  /\ UNCHANGED <<commandFrame, cfg, req, standby, pidRuntime, pidCfgSeen, backflushMode, shots>>

\* Mutant: the counter is reset without a word.
ResetShotCounterSilent ==
  /\ "ResetShotCounter" \in Commands
  /\ shots' = 0 /\ events' = {}
  /\ standby' = Reset(standby, cfg)
  /\ UNCHANGED <<commandFrame, cfg, req, standbyRequested, pidRuntime, pidCfgSeen, backflushMode>>

ResetShotCounter ==
  /\ "ResetShotCounter" \in Commands
  /\ shots' = 0
  /\ events' = IF shots # 0 THEN {"ShotCounterChanged"} ELSE {}
  /\ standby' = Reset(standby, cfg)
  /\ UNCHANGED <<commandFrame, cfg, req, standbyRequested, pidRuntime, pidCfgSeen, backflushMode>>

(* Parameters written through the registry, then ConfigUpdated. *)
WriteConfig(c) ==
  /\ "WriteConfig" \in Commands
  /\ c # cfg
  /\ cfg' = c
  /\ Activity({})
  /\ events' = {"ConfigChanged"}
  /\ UNCHANGED <<commandFrame, standbyRequested, pidRuntime, pidCfgSeen, backflushMode, shots>>

UserCommand ==
  \/ \E on \in BOOLEAN : SetPid(on) \/ SetSteam(on) \/ SetBackflush(on)
  \/ \E c \in Configs : SetBrewSetpoint(c.setpoint)
  \/ Wake
  \/ Sleep
  \/ ResetShotCounter
  \/ \E c \in Configs : WriteConfig(c)

Next == (\E inp \in Inputs : Tick(inp)) \/ UserCommand

(* The control loop is ticked by a timer; nobody has to send a command. *)
Spec == Init /\ [][Next]_vars /\ WF_vars(\E inp \in Inputs : Tick(inp))

=============================================================================
