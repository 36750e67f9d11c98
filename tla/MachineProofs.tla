---------------------------- MODULE MachineProofs ----------------------------
(***************************************************************************)
(* Proofs about the machine, for every wiring, every bound and every set   *)
(* of settings and readings.                                               *)
(***************************************************************************)
EXTENDS MachineHistory, TLAPS

-----------------------------------------------------------------------------
(* Ages. *)

LEMMA AgedType ==
  ASSUME NEW limit \in Nat, NEW age \in Age(limit)
  PROVE  /\ Aged(age, limit) \in Age(limit)
         /\ age # None => Aged(age, limit) \in 0..(limit + 1)
         /\ age # None /\ age <= limit => Aged(age, limit) = age + 1
  BY DEF Age, Aged, None

LEMMA ResetType ==
  ASSUME TimersAssumption, NEW t \in StandbyTimer, NEW c \in Config
  PROVE  /\ Reset(t, c) \in StandbyTimer
         /\ Arm(t, c) \in StandbyTimer
         /\ Expire(t) \in StandbyTimer
         /\ Update(t, c) \in StandbyTimer
  <1>1. Reset(t, c) \in StandbyTimer
    BY DEF Reset, StandbyTimer, Config, TimersAssumption, Age, None
  <1>2. Arm(t, c) \in StandbyTimer
    BY <1>1 DEF Arm
  <1>3. Expire(t) \in StandbyTimer
    BY DEF Expire, StandbyTimer
  <1>4. Update(t, c) \in StandbyTimer
    <2>1. ASSUME NEW n \in Nat
          PROVE  SaturatingSub(n, t.age) \in Nat \/ t.age = None
      BY <2>1 DEF SaturatingSub, StandbyTimer, Age, None
    <2>2. c.standbyTime \in Nat /\ c.standbyTime + DisplayOff \in Nat
      BY DEF Config, TimersAssumption
    <2> QED BY <2>1, <2>2 DEF Update, StandbyTimer
  <1> QED BY <1>1, <1>2, <1>3, <1>4

-----------------------------------------------------------------------------
(* A tick keeps the types, stage by stage. *)

LEMMA ReadSensorsType ==
  ASSUME TypeOK, NEW inp \in Inputs, ReadSensors(inp)
  PROVE  /\ emergency' \in BOOLEAN /\ overCount' \in 0..EmergencyDebounce
         /\ rawTemp' \in Reading /\ tempAge' \in 0..(TempTimeout + 1)
         /\ tempFault' \in BOOLEAN /\ tempGood' \in Age(SensorRecovery)
         /\ tankFull' \in BOOLEAN
  <1>1. inp \in Input
    BY MachineAssumption DEF MachineAssumption
  <1>2. inp.temp \in Reading /\ inp.fault \in BOOLEAN /\ inp.tank \in BOOLEAN
    BY <1>1 DEF Input
  <1>3. rawTemp' \in Reading /\ tankFull' \in BOOLEAN
    BY <1>2 DEF ReadSensors, TypeOK
  <1>4. tempAge' \in 0..(TempTimeout + 1)
    BY MachineAssumption DEF MachineAssumption, ReadSensors, TypeOK, Aged, None
  <1>5. tempFault' \in BOOLEAN
    BY <1>2, Zenon DEF ReadSensors
  <1>6. overCount' \in 0..EmergencyDebounce
    BY <1>2, MachineAssumption DEF MachineAssumption, ReadSensors, OnReading, TypeOK, Reading
  <1>7. emergency' \in BOOLEAN
    BY <1>2 DEF ReadSensors, OnReading, TypeOK, Reading
  <1>8. tempGood' \in Age(SensorRecovery)
    <2>1. Aged(tempGood, SensorRecovery) \in Age(SensorRecovery)
      BY AgedType, MachineAssumption DEF MachineAssumption, TypeOK
    <2>2. {None, 0} \subseteq Age(SensorRecovery)
      BY MachineAssumption DEF MachineAssumption, Age, None
    <2> QED BY <1>5, <2>1, <2>2 DEF ReadSensors
  <1> QED BY <1>3, <1>4, <1>5, <1>6, <1>7, <1>8

LEMMA HandleSwitchesType ==
  ASSUME TypeOK, NEW inp \in Inputs, HandleSwitches(inp)
  PROVE  /\ {brewWas', steamWas', hotWaterWas', powerWas', pressPending'} \subseteq BOOLEAN
         /\ brewHeld' \in 0..(LongPress + 1)
         /\ powerPress' \in Age(RebootHold) /\ uptime' \in 0..(RebootArm + 1)
         /\ cfg' \in Config
  <1>1. inp \in Input
    BY MachineAssumption DEF MachineAssumption
  <1>2. {inp.brew, inp.steam, inp.hotWater, inp.power} \subseteq BOOLEAN
    BY <1>1 DEF Input
  <1>3. {brewWas', steamWas', hotWaterWas', powerWas'} \subseteq BOOLEAN
    BY <1>2 DEF HandleSwitches, TypeOK
  <1>4. pressPending' \in BOOLEAN
    BY Zenon DEF HandleSwitches, TypeOK
  <1>5. brewHeld' \in 0..(LongPress + 1)
    BY MachineAssumption DEF MachineAssumption, HandleSwitches, TypeOK, Aged, None
  <1>6. uptime' \in 0..(RebootArm + 1)
    BY MachineAssumption DEF MachineAssumption, HandleSwitches, TypeOK, Aged, None
  <1>7. powerPress' \in Age(RebootHold)
    <2>1. Aged(powerPress, RebootHold) \in Age(RebootHold)
      BY AgedType, MachineAssumption DEF MachineAssumption, TypeOK
    <2>2. {None, 0} \subseteq Age(RebootHold)
      BY MachineAssumption DEF MachineAssumption, Age, None
    <2> QED BY <2>1, <2>2 DEF HandleSwitches
  <1>8. cfg' \in Config
    <2> DEFINE pid == cfg.pidEnabled \/ PowerWakes(inp)
               factor == IF Calibrates(inp) THEN inp.calibrated ELSE cfg.scaleFactor
    <2>1. cfg' = [cfg EXCEPT !.pidEnabled = pid, !.scaleFactor = factor]
      BY DEF HandleSwitches
    <2>2. pid \in BOOLEAN /\ factor \in Nat
      BY <1>1 DEF TypeOK, Config, Input
    <2> HIDE DEF pid, factor
    <2> QED BY <2>1, <2>2 DEF TypeOK, Config
  <1> QED BY <1>3, <1>4, <1>5, <1>6, <1>7, <1>8

LEMMA UpdateHotWaterType ==
  ASSUME TypeOK, UpdateHotWater
  PROVE  hotWater' \in Age(MaxHotWater) /\ hotWaterTimedOut' \in BOOLEAN
  <1>1. Aged(hotWater, MaxHotWater) \in Age(MaxHotWater)
    BY AgedType, MachineAssumption DEF MachineAssumption, TypeOK
  <1>2. {None, 0} \subseteq Age(MaxHotWater)
    BY MachineAssumption DEF MachineAssumption, Age, None
  <1>3. hotWater' \in Age(MaxHotWater)
    BY <1>1, <1>2 DEF UpdateHotWater
  <1>4. hotWaterTimedOut' \in BOOLEAN
    BY Zenon DEF UpdateHotWater
  <1> QED BY <1>3, <1>4

LEMMA PidSwitchedType ==
  ASSUME TypeOK, NEW inp \in Inputs
  PROVE  PidSwitched(inp) \in BOOLEAN /\ StandbyAsked(inp) \in BOOLEAN
  BY DEF PidSwitched, StandbyAsked

(* Where a tick may lead. *)
LEMMA UrgentType ==
  ASSUME TypeOK, NEW inp, NEW r
  PROVE  Urgent(inp, r) \in State /\ NextState(inp, r) \in State
  <1>1. PidState \in State
    BY DEF PidState, State
  <1>2. ASSUME state \in Brew PROVE BrewRule(inp, r) \in State
    BY <1>1, <1>2 DEF BrewRule, TypeOK, State
  <1>3. BackflushRule(r) \in State
    BY <1>1 DEF BackflushRule, TypeOK, State
  <1>4. Rule(inp, r) \in State
    BY <1>1, <1>2, <1>3 DEF Rule, TypeOK, State
  <1>5. Urgent(inp, r) \in State
    BY <1>4 DEF Urgent, State
  <1>6. NextState(inp, r) \in State
    BY <1>5 DEF NextState, State
  <1> QED BY <1>5, <1>6

LEMMA StandbyNowType ==
  ASSUME TypeOK, NEW inp, NEW r
  PROVE  StandbyNow(inp, r) \in StandbyTimer
  <1>c. cfg \in Config /\ TimersAssumption
    BY TimersAssumption DEF TypeOK
  <1> DEFINE aged == [standby EXCEPT !.age = Aged(@, Horizon)]
             steam == IF SteamEdge(inp) THEN Reset(aged, cfg) ELSE aged
             power == IF PowerWakes(inp) THEN Reset(steam, cfg)
                      ELSE IF PowerSleeps(inp) THEN Expire(steam) ELSE steam
             brew == IF HotWaterEdge(inp) \/ BrewEdge(inp) THEN Reset(power, cfg) ELSE power
  <1>1. aged \in StandbyTimer
    <2>1. standby.age \in Age(Horizon)
      BY DEF TypeOK, StandbyTimer
    <2>2. Aged(standby.age, Horizon) \in Age(Horizon)
      BY <2>1, AgedType, TimersAssumption DEF TimersAssumption
    <2> QED BY <2>2 DEF TypeOK, StandbyTimer
  <1> HIDE DEF aged
  <1>2. steam \in StandbyTimer
    BY <1>c, <1>1, ResetType
  <1> HIDE DEF steam
  <1>3. power \in StandbyTimer
    BY <1>c, <1>2, ResetType
  <1> HIDE DEF power
  <1>4. brew \in StandbyTimer
    BY <1>c, <1>3, ResetType
  <1>5. StandbySwitched(inp) = Update(brew, cfg)
    BY DEF StandbySwitched, brew, power, steam, aged
  <1> HIDE DEF brew
  <1>6. StandbySwitched(inp) \in StandbyTimer
    BY <1>c, <1>4, <1>5, ResetType
  <1> QED BY <1>c, <1>6, ResetType DEF StandbyNow

LEMMA TransitionType ==
  ASSUME TypeOK, NEW inp \in Inputs, Transition(inp), state' \in State, cfg' \in Config
  PROVE  /\ elapsed' \in 0..(Horizon + 1)
         /\ {standbyRequested', pidRuntime'} \subseteq BOOLEAN
         /\ brewTime' \in Nat /\ brewTarget' \in Nat /\ brewStarted' \in Age(MaxBrew)
         /\ backflushCycle' \in Nat /\ shots' \in 0..MaxShots
  <1>1. Elapsed \in 0..(Horizon + 1)
    BY TimersAssumption DEF TimersAssumption, TypeOK, Elapsed, Aged, None
  <1>2. elapsed' \in 0..(Horizon + 1)
    BY <1>1, TimersAssumption DEF TimersAssumption, Transition
  <1>3. standbyRequested' \in BOOLEAN
    BY Zenon DEF Transition
  <1>4. pidRuntime' \in BOOLEAN
    BY PidSwitchedType DEF Transition, Config
  <1>5. PreinfusionBase \in Nat /\ TargetBrew \in Nat /\ RunningBase \in Nat
    BY DEF PreinfusionBase, TargetBrew, RunningBase, TypeOK, Config
  <1>6. BrewTimeNow \in Nat
    BY <1>1, <1>5, TimersAssumption DEF TimersAssumption, BrewTimeNow, TypeOK, Config
  <1>7. brewTime' \in Nat /\ brewTarget' \in Nat
    BY <1>5, <1>6 DEF Transition, TypeOK, Config
  <1>8. brewStarted' \in Age(MaxBrew)
    <2>1. Aged(brewStarted, MaxBrew) \in Age(MaxBrew)
      BY AgedType, MachineAssumption DEF MachineAssumption, TypeOK
    <2>2. {None, 0} \subseteq Age(MaxBrew)
      BY MachineAssumption DEF MachineAssumption, Age, None
    <2> QED BY <2>1, <2>2 DEF Transition, NextBrewStarted
  <1>9. backflushCycle' \in Nat
    BY DEF Transition, NextCycle, TypeOK
  <1>10. shots' \in 0..MaxShots
    BY MachineAssumption DEF MachineAssumption, Transition, TypeOK
  <1> QED BY <1>2, <1>3, <1>4, <1>7, <1>8, <1>9, <1>10

LEMMA TickType ==
  ASSUME TypeOK, NEW inp \in Inputs, Tick(inp)
  PROVE  TypeOK'
  <1> DEFINE r == Requests(inp)
  <1>1. /\ ReadSensors(inp) /\ HandleSwitches(inp) /\ UpdateHotWater
        /\ Transition(inp) /\ ComputeOutputs(inp)
    BY DEF Tick
  <1>2. state' \in State /\ standby' \in StandbyTimer
    BY UrgentType, StandbyNowType DEF Tick
  <1>3. cfg' \in Config /\ brewHeld' \in 0..(LongPress + 1)
        /\ {brewWas', steamWas', hotWaterWas', powerWas', pressPending'} \subseteq BOOLEAN
        /\ powerPress' \in Age(RebootHold) /\ uptime' \in 0..(RebootArm + 1)
    BY <1>1, HandleSwitchesType
  <1>4. {heater', pump', valve'} \subseteq BOOLEAN
    BY <1>1 DEF ComputeOutputs
  <1>5. {faultFromStandby', pidCfgSeen', backflushMode'} \subseteq BOOLEAN
    <2>1. faultFromStandby' \in BOOLEAN
      BY Zenon DEF Tick, FromStandby
    <2> QED BY <2>1 DEF Tick, TypeOK, Config
  <1>6. req' \subseteq {"steam_start", "steam_stop", "normal_operation"} /\ events' \subseteq Event
    BY DEF Tick
  <1>7. /\ elapsed' \in 0..(Horizon + 1)
        /\ {standbyRequested', pidRuntime'} \subseteq BOOLEAN
        /\ brewTime' \in Nat /\ brewTarget' \in Nat /\ brewStarted' \in Age(MaxBrew)
        /\ backflushCycle' \in Nat /\ shots' \in 0..MaxShots
    BY <1>1, <1>2, <1>3, TransitionType
  <1>8. hotWater' \in Age(MaxHotWater) /\ hotWaterTimedOut' \in BOOLEAN
    BY <1>1, UpdateHotWaterType
  <1>9. /\ emergency' \in BOOLEAN /\ overCount' \in 0..EmergencyDebounce
        /\ rawTemp' \in Reading /\ tempAge' \in 0..(TempTimeout + 1)
        /\ tempFault' \in BOOLEAN /\ tempGood' \in Age(SensorRecovery)
        /\ tankFull' \in BOOLEAN
    BY <1>1, ReadSensorsType
  <1> QED BY <1>2, <1>3, <1>4, <1>5, <1>6, <1>7, <1>8, <1>9 DEF TypeOK

(* The commands keep them too: most of the state is out of their reach. *)
LEMMA CommandType ==
  ASSUME TypeOK, UserCommand
  PROVE  TypeOK'
  <1> USE DEF commandFrame, switchVars, tempVars, shotVars, outputVars
  <1>c. cfg \in Config /\ standby \in StandbyTimer /\ MachineAssumption /\ TimersAssumption
    BY MachineAssumption, TimersAssumption DEF TypeOK
  <1>a. ASSUME NEW raised \in SUBSET {"steam_start", "steam_stop"}, Activity(raised), cfg' \in Config
        PROVE  /\ req' \subseteq {"steam_start", "steam_stop", "normal_operation"}
               /\ standby' \in StandbyTimer
    BY <1>c, <1>a, ResetType DEF Activity, TypeOK
  <1>1. ASSUME NEW on \in BOOLEAN, SetPid(on) PROVE TypeOK'
    <2>1. cfg' \in Config
      BY <1>c, <1>1 DEF SetPid, Config
    <2>2. events' \subseteq Event
      BY <1>1 DEF SetPid, Event
    <2> QED BY <1>1, <1>a, <2>1, <2>2 DEF SetPid, TypeOK
  <1>2. ASSUME NEW on \in BOOLEAN, SetSteam(on) PROVE TypeOK'
    BY <1>2, <1>a DEF SetSteam, TypeOK
  <1>3. ASSUME NEW on \in BOOLEAN, SetBackflush(on) PROVE TypeOK'
    BY <1>3, <1>a DEF SetBackflush, TypeOK
  <1>4. ASSUME NEW c \in Configs, SetBrewSetpoint(c.setpoint) PROVE TypeOK'
    <2>1. c.setpoint \in Nat
      BY MachineAssumption DEF MachineAssumption, Config
    <2>2. cfg' \in Config
      BY <1>4, <1>c, <2>1 DEF SetBrewSetpoint, Config
    <2> QED BY <1>4, <1>a, <2>2 DEF SetBrewSetpoint, TypeOK, Event
  <1>5. CASE Wake
    BY <1>5, <1>a DEF Wake, TypeOK
  <1>6. CASE Sleep
    BY <1>6 DEF Sleep, TypeOK
  <1>7. CASE ResetShotCounter
    <2>1. standby' \in StandbyTimer
      BY <1>7, <1>c, ResetType DEF ResetShotCounter
    <2>2. events' \subseteq Event
      BY <1>7 DEF ResetShotCounter, Event
    <2> QED BY <1>7, <1>c, <2>1, <2>2 DEF ResetShotCounter, TypeOK, MachineAssumption
  <1>8. ASSUME NEW c \in Configs, WriteConfig(c) PROVE TypeOK'
    <2>1. cfg' \in Config
      BY <1>8, MachineAssumption DEF WriteConfig, MachineAssumption
    <2> QED BY <1>8, <1>a, <2>1 DEF WriteConfig, TypeOK, Event
  <1> QED BY <1>1, <1>2, <1>3, <1>4, <1>5, <1>6, <1>7, <1>8 DEF UserCommand

LEMMA InitType == Init => TypeOK
  <1> SUFFICES ASSUME Init PROVE TypeOK
    OBVIOUS
  <1>1. cfg \in Config
    BY MachineAssumption DEF Init, MachineAssumption
  <1>2. standby \in StandbyTimer
    BY TimersAssumption DEF Init, StandbyTimer, StandbyDefault, Age, None, TimersAssumption
  <1>3. {pidRuntime, pidCfgSeen} \subseteq BOOLEAN
    BY <1>1 DEF Init, Config
  <1>4. state \in State /\ rawTemp \in Reading
    BY DEF Init, State, Reading
  <1>5. tempGood \in Age(SensorRecovery) /\ powerPress \in Age(RebootHold)
        /\ brewStarted \in Age(MaxBrew) /\ hotWater \in Age(MaxHotWater)
    BY MachineAssumption DEF MachineAssumption, Init, Age, None
  <1>6. /\ elapsed \in 0..(Horizon + 1) /\ brewHeld \in 0..(LongPress + 1)
        /\ uptime \in 0..(RebootArm + 1) /\ overCount \in 0..EmergencyDebounce
        /\ tempAge \in 0..(TempTimeout + 1) /\ shots \in 0..MaxShots
    BY MachineAssumption, TimersAssumption DEF MachineAssumption, TimersAssumption, Init
  <1>7. /\ {standbyRequested, faultFromStandby, backflushMode, brewWas, steamWas, hotWaterWas,
            powerWas, pressPending, hotWaterTimedOut, heater, pump, valve} \subseteq BOOLEAN
        /\ emergency \in BOOLEAN /\ tempFault \in BOOLEAN /\ tankFull \in BOOLEAN
    BY DEF Init
  <1>8. req = {} /\ events = {} /\ backflushCycle = 1 /\ brewTime = 0 /\ brewTarget = 0
    BY DEF Init
  <1> QED
    BY <1>1, <1>2, <1>3, <1>4, <1>5, <1>6, <1>7, <1>8 DEF TypeOK

(* The machine's variables keep their types, whatever is wired and set.    *)
THEOREM MachineTypes == Spec => []TypeOK
  <1>1. TypeOK /\ [Next]_vars => TypeOK'
    <2> SUFFICES ASSUME TypeOK, [Next]_vars PROVE TypeOK'
      OBVIOUS
    <2>1. CASE \E inp \in Inputs : Tick(inp)
      BY <2>1, TickType
    <2>2. CASE UserCommand
      BY <2>2, CommandType
    <2>3. CASE UNCHANGED vars
      BY <2>3 DEF vars, switchVars, tempVars, shotVars, outputVars, TypeOK
    <2> QED BY <2>1, <2>2, <2>3 DEF Next
  <1> QED BY <1>1, InitType, PTL DEF Spec

-----------------------------------------------------------------------------
(* The inductive invariant, one part at a time: a tick keeps it. *)

LEMMA HistoryType ==
  ASSUME TypeOK, HTypeOK, TypeOK', NEW inp \in Inputs, Observe(inp)
  PROVE  HTypeOK'
  <1>m. MachineAssumption /\ TimersAssumption
    BY MachineAssumption, TimersAssumption
  <1>1. ASSUME NEW limit \in Nat, NEW age \in Age(limit), NEW b
        PROVE  Watch(age, b, limit) \in Age(limit)
    <2>1. Aged(age, limit) \in Age(limit) /\ {None, 0} \subseteq Age(limit)
      BY <1>1, AgedType DEF Age, None
    <2> QED BY <2>1 DEF Watch
  <1>2. brewing' \in Age(MaxBrew + 1) /\ dispensing' \in Age(MaxHotWater + 1)
    <2>1. MaxBrew + 1 \in Nat /\ MaxHotWater + 1 \in Nat
      BY <1>m DEF MachineAssumption
    <2>2. Watch(brewing, state' \in BrewActive, MaxBrew + 1) \in Age(MaxBrew + 1)
      BY <1>1, <2>1 DEF HTypeOK
    <2>3. Watch(dispensing, HotWaterRuns', MaxHotWater + 1) \in Age(MaxHotWater + 1)
      BY <1>1, <2>1 DEF HTypeOK
    <2> QED BY <2>2, <2>3 DEF Observe
  <1>3. asleep' \in BOOLEAN
    BY Zenon DEF Observe
  <1>4. fills' \in 0..(Horizon + 1)
    BY <1>m DEF TimersAssumption, Observe, HTypeOK, Aged, None
  <1>5. sensorFault' \in {"none", "shown", "hidden"}
    BY DEF Observe, HTypeOK
  <1> QED BY <1>2, <1>3, <1>4, <1>5 DEF HTypeOK

(* A shot is entered from outside only with a fresh timer, and left when   *)
(* the timer is over the cap.                                              *)
LEMMA ShotSteps ==
  ASSUME TypeOK, NEW inp \in Inputs, Tick(inp), state' \in BrewActive
  PROVE  IF state \in BrewActive
           THEN ~BrewCapReached /\ (state' = "BrewPreinfusion" => state' = state)
           ELSE state' \in {"BrewPreinfusion", "BrewRunning"}
  <1> DEFINE r == Requests(inp)
  <1>1. PidState \notin BrewActive
    BY DEF PidState, BrewActive
  <1>2. state' = NextState(inp, r)
    BY DEF Tick
  <1>3. state' = Urgent(inp, r)
    BY <1>2 DEF NextState, BrewActive
  <1>4. state' = Rule(inp, r)
    BY <1>3 DEF Urgent, BrewActive
  <1>5. CASE state \in Brew
    <2>1. state' = BrewRule(inp, r)
      BY <1>4, <1>5 DEF Rule
    <2>2. BrewCapReached => r.brew_stop
      BY DEF Requests
    <2> HIDE DEF r
    <2> QED BY <1>1, <1>5, <2>1, <2>2 DEF BrewRule, Brew, BrewActive
  <1>6. CASE state \in Backflush
    <2>1. state' = BackflushRule(r)
      BY <1>4, <1>6 DEF Rule, Brew, BrewActive, Backflush
    <2> HIDE DEF r
    <2> QED BY <1>1, <1>6, <2>1 DEF BackflushRule, BrewActive, Backflush
  <1>7. CASE state \notin Brew \cup Backflush
    <2> HIDE DEF r
    <2> QED BY <1>1, <1>4, <1>7 DEF Rule, Brew, BrewActive
  <1> QED BY <1>5, <1>6, <1>7

LEMMA ShotStep ==
  ASSUME TypeOK, HTypeOK, ShotTimed, NEW inp \in Inputs, HTick(inp)
  PROVE  ShotTimed'
  <1>m. MachineAssumption
    BY MachineAssumption
  <1>1. Tick(inp) /\ Observe(inp) /\ Transition(inp)
    BY DEF HTick, Tick
  <1>2. CASE state' \notin BrewActive
    BY <1>1, <1>2 DEF Observe, Watch, ShotTimed
  <1>3. CASE state' \in BrewActive /\ state \notin BrewActive
    <2>1. state' \in {"BrewPreinfusion", "BrewRunning"}
      BY <1>1, <1>3, ShotSteps
    <2>2. brewStarted' = 0
      BY <1>1, <1>3, <2>1 DEF Transition, NextBrewStarted, Enters
    <2>3. brewing' = 0
      BY <1>1, <1>3 DEF Observe, Watch, ShotTimed
    <2> QED BY <1>3, <1>m, <2>2, <2>3 DEF ShotTimed, MachineAssumption
  <1>4. CASE state' \in BrewActive /\ state \in BrewActive
    <2>1. ~BrewCapReached /\ (state' = "BrewPreinfusion" => state' = state)
      BY <1>1, <1>4, ShotSteps
    <2>2. brewStarted \in 0..MaxBrew /\ brewing = brewStarted
      BY <1>4 DEF ShotTimed
    <2>3. brewStarted + 1 <= MaxBrew
      BY <1>4, <1>m, <2>1, <2>2 DEF BrewCapReached, Aged, None, MachineAssumption
    <2>4. brewStarted' = brewStarted + 1
      BY <1>1, <1>4, <1>m, <2>1, <2>2 DEF Transition, NextBrewStarted, Enters, Aged, None, MachineAssumption
    <2>5. brewing' = brewing + 1
      BY <1>1, <1>4, <1>m, <2>2 DEF Observe, Watch, Aged, None, MachineAssumption
    <2> QED BY <1>4, <1>m, <2>2, <2>3, <2>4, <2>5 DEF ShotTimed, MachineAssumption
  <1> QED BY <1>2, <1>3, <1>4

LEMMA HotWaterStep ==
  ASSUME TypeOK, HTypeOK, HotWaterTimed, NEW inp \in Inputs, HTick(inp)
  PROVE  HotWaterTimed'
  <1>m. MachineAssumption
    BY MachineAssumption
  <1>1. Observe(inp) /\ UpdateHotWater /\ ComputeOutputs(inp)
    BY DEF HTick, Tick
  <1>2. CASE ~HotWaterRuns'
    BY <1>1, <1>2 DEF Observe, Watch, HotWaterTimed
  <1>3. CASE HotWaterRuns'
    <2>1. hotWater' # None /\ ~hotWaterTimedOut'
      BY <1>1, <1>3 DEF HotWaterRuns, ComputeOutputs, WaterFlow, BrewActive
    <2>2. Dispensing /\ ~(hotWater' > MaxHotWater)
      BY <1>1, <2>1 DEF UpdateHotWater
    <2>3. hotWater' = IF hotWater = None THEN 0 ELSE Aged(hotWater, MaxHotWater)
      BY <1>1, <2>2 DEF UpdateHotWater
    <2>4. dispensing' = IF dispensing = None THEN 0 ELSE Aged(dispensing, MaxHotWater + 1)
      BY <1>1, <1>3 DEF Observe, Watch
    <2>5. hotWater \in Age(MaxHotWater) /\ dispensing \in Age(MaxHotWater + 1)
      BY DEF TypeOK, HTypeOK
    <2> QED
      BY <1>m, <2>2, <2>3, <2>4, <2>5 DEF HotWaterTimed, Aged, Age, None, MachineAssumption
  <1> QED BY <1>2, <1>3

LEMMA FlushStep ==
  ASSUME TypeOK, FlushHeld, NEW inp \in Inputs, Tick(inp)
  PROVE  FlushHeld'
  <1> DEFINE r == Requests(inp)
  <1> SUFFICES ASSUME state' = "ManualFlush" PROVE brewWas'
    BY DEF FlushHeld
  <1>1. HandleSwitches(inp) /\ state' = NextState(inp, r)
    BY DEF Tick
  <1>2. PidState # "ManualFlush"
    BY DEF PidState
  <1>3. state' = Rule(inp, r)
    BY <1>1 DEF NextState, Urgent
  <1>4. r.flush_start => brewWas'
    BY <1>1 DEF Requests, LongBrewPress, HandleSwitches
  <1>5. state = "ManualFlush" /\ ~brewWas' => r.flush_stop
    BY <1>1 DEF FlushHeld, Requests, HandleSwitches, BrewEdge, BrewLevelEdge
  <1> HIDE DEF r
  <1>6. state \in Brew => BrewRule(inp, r) # "ManualFlush"
    BY <1>2 DEF BrewRule, Brew, BrewActive
  <1>7. state \in Backflush /\ BackflushRule(r) = "ManualFlush" => r.flush_start
    BY <1>2 DEF BackflushRule, Backflush
  <1> QED BY <1>2, <1>3, <1>4, <1>5, <1>6, <1>7 DEF Rule

(* Which way the PID flag goes in a tick. *)
LEMMA PidSwitchedFacts ==
  ASSUME TypeOK, PidKept, NEW inp \in Inputs, Tick(inp)
  PROVE  /\ state \notin {"Standby", "EmergencyStop"} /\ ~PidSwitched(inp) => ~cfg.pidEnabled /\ ~cfg'.pidEnabled
         /\ pidCfgSeen' = cfg.pidEnabled
         /\ cfg.pidEnabled => cfg'.pidEnabled
  <1>1. pidCfgSeen' = cfg.pidEnabled /\ HandleSwitches(inp)
    BY DEF Tick
  <1>2. cfg'.pidEnabled = (cfg.pidEnabled \/ PowerWakes(inp))
    BY <1>1 DEF HandleSwitches, TypeOK, Config
  <1>3. ~PidSwitched(inp) => ~PowerWakes(inp) /\ ~PidFollowed
    BY DEF PidSwitched
  <1> QED BY <1>1, <1>2, <1>3 DEF PidFollowed, PidKept

LEMMA PidKeptStep ==
  ASSUME TypeOK, TypeOK', PidKept, NEW inp \in Inputs, Tick(inp)
  PROVE  PidKept'
  <1> DEFINE r == Requests(inp)
  <1> SUFFICES ASSUME state' \notin {"Standby", "EmergencyStop"}, cfg.pidEnabled
               PROVE  pidRuntime'
    BY PidSwitchedFacts DEF PidKept
  <1>1. Transition(inp) /\ state' = NextState(inp, r) /\ cfg'.pidEnabled
    BY PidSwitchedFacts DEF Tick
  <1>2. CASE state \in {"Standby", "EmergencyStop"}
    <2>1. state' # state
      BY <1>2
    <2>2. state' # "PidDisabled"
      <3>1. state' = Urgent(inp, r)
        BY <1>1 DEF NextState
      <3> HIDE DEF r
      <3> QED BY <1>1, <1>2, <3>1 DEF Urgent, Rule, Brew, BrewActive, Backflush, NeedsPid, PidState
    <2> QED BY <1>1, <1>2, <2>1, <2>2 DEF Transition
  <1>3. CASE state \notin {"Standby", "EmergencyStop"}
    <2>1. PidSwitched(inp)
      BY <1>3, PidSwitchedFacts
    <2>2. state' = state \/ state' # "PidDisabled"
      <3>1. state' = Urgent(inp, r)
        BY <1>1 DEF NextState
      <3>2. PidState = "PidNormal"
        BY <1>1 DEF PidState
      <3> HIDE DEF r
      <3>3. state \in Brew => BrewRule(inp, r) \in {state, "PidNormal"} \cup Brew
        BY <3>2 DEF BrewRule, Brew, BrewActive
      <3>4. state \in Backflush =>
              BackflushRule(r) \in {state, "PidNormal", "ManualFlush"} \cup Backflush
        BY <3>2 DEF BackflushRule, Backflush
      <3> QED BY <2>1, <3>1, <3>2, <3>3, <3>4 DEF Urgent, Rule, Brew, BrewActive, Backflush
    <2> QED BY <1>1, <1>3, <2>1, <2>2 DEF Transition
  <1> QED BY <1>2, <1>3

LEMMA PidOffStep ==
  ASSUME TypeOK, TypeOK', PidKept, NEW inp \in Inputs, Tick(inp)
  PROVE  PidOffHolds'
  <1> DEFINE r == Requests(inp)
  <1> SUFFICES ASSUME ~pidRuntime', state' \in NeedsPid \cup {"PidNormal"} PROVE FALSE
    BY DEF PidOffHolds
  <1>1. Transition(inp) /\ state' = NextState(inp, r)
    BY DEF Tick
  <1>2. state' \notin {"PidDisabled", "Standby", "EmergencyStop", "WaterTankEmpty", "SensorError", "Init"}
    BY DEF NeedsPid
  <1>3. state' = Urgent(inp, r)
    BY <1>1, <1>2 DEF NextState
  <1>4. state' = Rule(inp, r) /\ ~(state \in NeedsPid /\ ~PidSwitched(inp))
    BY <1>2, <1>3 DEF Urgent
  <1>5. CASE state \in {"Standby", "EmergencyStop"}
    <2>1. ~cfg'.pidEnabled
      BY <1>1, <1>2, <1>5 DEF Transition
    <2> HIDE DEF r
    <2> QED BY <1>2, <1>4, <1>5, <2>1 DEF Rule, PidState, Brew, BrewActive, Backflush
  <1>6. CASE state \notin {"Standby", "EmergencyStop"}
    <2>1. ~PidSwitched(inp)
      BY <1>1, <1>2, <1>6 DEF Transition
    <2>2. ~cfg'.pidEnabled
      BY <1>6, <2>1, PidSwitchedFacts
    <2>3. state \in {"PidNormal", "PidDisabled", "Init", "SensorError", "WaterTankEmpty"}
      BY <1>4, <1>6, <2>1 DEF TypeOK, NeedsPid
    <2> HIDE DEF r
    <2> QED BY <1>2, <1>4, <2>1, <2>2, <2>3 DEF Rule, PidState, Brew, BrewActive, Backflush
  <1> QED BY <1>5, <1>6

(* Nothing was asked: the machine sees no request to wake. *)
LEMMA NotAsked ==
  ASSUME NEW inp \in Inputs, ~Asked(inp)
  PROVE  LET r == Requests(inp) IN ~r.normal_operation /\ ~r.brew_start /\ ~r.steam_start
  BY DEF Asked, UserEdge, Requests

LEMMA AsleepStep ==
  ASSUME TypeOK, TypeOK', AsleepWhere, NEW inp \in Inputs, HTick(inp)
  PROVE  AsleepWhere'
  <1> DEFINE r == Requests(inp)
  <1> SUFFICES ASSUME asleep'
               PROVE  /\ state' \in {"Standby", "SensorError"} /\ ~heater' /\ ~pump'
                      /\ state' = "SensorError" => faultFromStandby'
    BY DEF AsleepWhere
  <1>1. Tick(inp) /\ Observe(inp) /\ ComputeOutputs(inp) /\ state' = NextState(inp, r)
    BY DEF HTick, Tick
  <1>2. state' \in {"Standby", "SensorError"} => ~heater' /\ ~pump'
    BY <1>1 DEF ComputeOutputs, Heat, AllowsHeating, Brew, WaterFlow, BrewActive
  <1>3. CASE Enters("Standby")
    BY <1>2, <1>3 DEF Enters
  <1>4. CASE ~Enters("Standby")
    <2>1. asleep /\ ~Asked(inp) /\ ~Enters("EmergencyStop")
      BY <1>1, <1>4 DEF Observe
    <2>2. ~r.normal_operation /\ ~r.brew_start /\ ~r.steam_start
      BY <2>1, NotAsked
    <2>3. state \in {"Standby", "SensorError"} /\ (state = "SensorError" => faultFromStandby)
      BY <2>1 DEF AsleepWhere
    <2>4. ~emergency'
      BY <1>1, <2>1, <2>3 DEF NextState, Idle, MayIdle, Urgent, Enters
    <2>5. state' = Urgent(inp, r)
      BY <1>1, <2>3 DEF NextState, Idle, MayIdle
    <2>6. faultFromStandby' =
            IF tempFault' /\ ~emergency' /\ state \notin {"SensorError", "EmergencyStop"}
              THEN state = "Standby"
              ELSE faultFromStandby
                   /\ ~(/\ state = "SensorError" /\ ~emergency'
                        /\ r.normal_operation \/ r.brew_start \/ r.steam_start)
      BY <1>1 DEF Tick, FromStandby
    <2> HIDE DEF r
    <2>7. CASE state = "Standby"
      <3>1. state' = IF tempFault' THEN "SensorError" ELSE "Standby"
        BY <2>2, <2>4, <2>5, <2>7 DEF Urgent, Rule, NeedsPid, Brew, BrewActive, Backflush
      <3> QED BY <1>2, <2>4, <2>6, <2>7, <3>1
    <2>8. CASE state = "SensorError"
      <3>1. faultFromStandby'
        BY <2>2, <2>3, <2>6, <2>8
      <3>2. state' = IF Recovered THEN "Standby" ELSE "SensorError"
        BY <2>4, <2>5, <2>8, <3>1 DEF Urgent, Rule, NeedsPid, Brew, BrewActive, Backflush
      <3> QED BY <1>2, <3>1, <3>2
    <2> QED BY <2>3, <2>7, <2>8
  <1> QED BY <1>3, <1>4

LEMMA FaultShownStep ==
  ASSUME TypeOK, TypeOK', FaultShown, NEW inp \in Inputs, HTick(inp)
  PROVE  FaultShown'
  <1> DEFINE r == Requests(inp)
  <1> SUFFICES ASSUME sensorFault' = "shown" PROVE state' = "SensorError" /\ ~heater'
    BY DEF FaultShown
  <1>1. Observe(inp) /\ ComputeOutputs(inp) /\ state' = NextState(inp, r)
    BY DEF HTick, Tick
  <1>2. state' = "SensorError" => ~heater'
    BY <1>1 DEF ComputeOutputs, Heat, AllowsHeating, Brew, BrewActive
  <1>3. CASE state' = "SensorError"
    BY <1>2, <1>3
  <1>4. CASE state' # "SensorError"
    <2>1. sensorFault = "shown" /\ ~tempFault' /\ ~(tempGood' > SensorRecovery)
          /\ state' # "EmergencyStop"
      BY <1>1, <1>4 DEF Observe
    <2>2. state = "SensorError" /\ ~Recovered
      BY <2>1 DEF FaultShown, Recovered
    <2> HIDE DEF r
    <2>3. state' = "SensorError"
      BY <1>1, <2>1, <2>2 DEF NextState, Idle, MayIdle, Urgent, Rule, NeedsPid, Brew, BrewActive, Backflush
    <2> QED BY <1>4, <2>3
  <1> QED BY <1>3, <1>4

(* Where a tick may enter the backflush states from. *)
LEMMA BackflushSteps ==
  ASSUME TypeOK, NEW inp \in Inputs, Tick(inp), state' # state
  PROVE  /\ state' = "BackflushFilling" =>
              state \in {"BackflushIdle", "BackflushFlushing", "BackflushFinished"}
         /\ state' = "BackflushFlushing" => state = "BackflushFilling"
         /\ state' = "BackflushFinished" =>
              state = "BackflushFlushing" /\ ~(backflushCycle < cfg.backflushCycles)
  <1> DEFINE r == Requests(inp)
  <1> SUFFICES ASSUME state' \in Running \cup {"BackflushFinished"}
               PROVE  /\ state \in Backflush
                      /\ state' = BackflushRule(r)
    BY DEF BackflushRule, PidState, Backflush, Running
  <1>1. state' = NextState(inp, r)
    BY DEF Tick
  <1>2. state' = Rule(inp, r)
    BY <1>1 DEF NextState, Urgent, Running
  <1> HIDE DEF r
  <1>3. PidState \notin Backflush
    BY DEF PidState, Backflush
  <1>4. state \in Brew => BrewRule(inp, r) \notin Backflush
    BY <1>3 DEF BrewRule, Backflush, Brew, BrewActive
  <1> QED BY <1>2, <1>3, <1>4 DEF Rule, Backflush, Running

LEMMA FillsStep ==
  ASSUME TypeOK, TypeOK', HTypeOK, FillsCounted, NEW inp \in Inputs, HTick(inp)
  PROVE  FillsCounted'
  <1>1. Tick(inp) /\ Observe(inp) /\ Transition(inp) /\ HandleSwitches(inp)
    BY DEF HTick, Tick
  <1>2. cfg'.backflushCycles = cfg.backflushCycles
    BY <1>1 DEF HandleSwitches, TypeOK, Config
  <1>3. ASSUME state' \in {"BackflushIdle", "BackflushFinished"} PROVE backflushCycle' = 1
    BY <1>1, <1>3 DEF Transition, NextCycle, Enters, FillsCounted
  <1>4. ASSUME state' \in Running
        PROVE  fills' >= 1 /\ (fills' >= backflushCycle' \/ fills' > Horizon)
    <2>t. fills \in 0..(Horizon + 1) /\ backflushCycle \in Nat /\ Horizon \in Nat
      BY TimersAssumption DEF TypeOK, HTypeOK, TimersAssumption
    <2>1. CASE state' = state
      BY <1>1, <1>4, <2>1 DEF Observe, Transition, NextCycle, Enters, FillsCounted, Running
    <2>2. CASE state' # state /\ state' = "BackflushFilling" /\ state = "BackflushFlushing"
      <3>1. fills' = Aged(fills, Horizon) /\ backflushCycle' = backflushCycle + 1
        BY <1>1, <2>2 DEF Observe, Transition, NextCycle, Enters, Running
      <3> QED BY <2>t, <2>2, <3>1 DEF FillsCounted, Running, Aged, None
    <2>3. CASE state' # state /\ state' = "BackflushFilling" /\ state # "BackflushFlushing"
      <3>1. fills' = 1 /\ backflushCycle' = backflushCycle
        BY <1>1, <2>3 DEF Observe, Transition, NextCycle, Enters, Running
      <3> QED BY <1>1, <2>3, <3>1, BackflushSteps DEF FillsCounted
    <2>4. CASE state' # state /\ state' = "BackflushFlushing"
      <3>1. fills' = fills /\ backflushCycle' = backflushCycle
        BY <1>1, <2>4 DEF Observe, Transition, NextCycle, Enters, Running
      <3>2. state \in Running
        BY <1>1, <2>4, BackflushSteps DEF Running
      <3> QED BY <3>1, <3>2 DEF FillsCounted
    <2> QED BY <1>4, <2>1, <2>2, <2>3, <2>4 DEF Running
  <1> QED BY <1>2, <1>3, <1>4 DEF FillsCounted

(* What no command touches: the state, its timers, the sensors and the     *)
(* outputs.  Only SetPid changes the PID's flags.                          *)
LEMMA CommandFrame ==
  ASSUME TypeOK, UserCommand
  PROVE  /\ UNCHANGED <<state, faultFromStandby, brewStarted, hotWater, brewWas, heater, pump>>
         /\ \/ UNCHANGED <<pidRuntime, pidCfgSeen>> /\ (req = {} \/ req' # {})
            \/ req' # {} /\ pidRuntime' = pidCfgSeen'
  <1> USE DEF commandFrame, switchVars, tempVars, shotVars, outputVars
  <1>1. ASSUME NEW on \in BOOLEAN, SetPid(on) PROVE req' # {} /\ pidRuntime' = pidCfgSeen'
    BY <1>1 DEF SetPid, Activity
  <1>2. ASSUME NEW raised, Activity(raised) PROVE req' # {}
    BY <1>2 DEF Activity
  <1>3. ASSUME NEW on \in BOOLEAN, SetPid(on) \/ SetSteam(on) \/ SetBackflush(on)
        PROVE  UNCHANGED <<state, faultFromStandby, brewStarted, hotWater, brewWas, heater, pump>>
    BY <1>3 DEF SetPid, SetSteam, SetBackflush
  <1>4. ASSUME NEW on \in BOOLEAN, SetSteam(on) \/ SetBackflush(on)
        PROVE  UNCHANGED <<pidRuntime, pidCfgSeen>> /\ req' # {}
    BY <1>4, <1>2 DEF SetSteam, SetBackflush
  <1>5. ASSUME NEW c \in Configs, SetBrewSetpoint(c.setpoint) \/ WriteConfig(c)
        PROVE  /\ UNCHANGED <<state, faultFromStandby, brewStarted, hotWater, brewWas, heater, pump>>
               /\ UNCHANGED <<pidRuntime, pidCfgSeen>> /\ req' # {}
    BY <1>5, <1>2 DEF SetBrewSetpoint, WriteConfig
  <1>6. ASSUME Wake
        PROVE  /\ UNCHANGED <<state, faultFromStandby, brewStarted, hotWater, brewWas, heater, pump>>
               /\ UNCHANGED <<pidRuntime, pidCfgSeen>> /\ req' # {}
    BY <1>6, <1>2 DEF Wake
  <1>7. ASSUME Sleep \/ ResetShotCounter
        PROVE  /\ UNCHANGED <<state, faultFromStandby, brewStarted, hotWater, brewWas, heater, pump>>
               /\ UNCHANGED <<pidRuntime, pidCfgSeen>> /\ (req = {} \/ req' # {})
    BY <1>7 DEF Sleep, ResetShotCounter
  <1> QED BY <1>1, <1>3, <1>4, <1>5, <1>6, <1>7 DEF UserCommand

(* Switching backflush mode restarts the count; written settings are ones  *)
(* of Configs.                                                             *)
LEMMA FillsCommand ==
  ASSUME TypeOK, HTypeOK, FillsCounted, UserCommand, UNCHANGED <<state, fills>>
  PROVE  FillsCounted'
  <1>1. backflushCycle' \in {1, backflushCycle}
    BY DEF UserCommand, SetPid, SetSteam, SetBackflush, SetBrewSetpoint, Wake, Sleep,
           ResetShotCounter, WriteConfig, commandFrame
  <1>2. cfg'.backflushCycles <= Horizon
    <2>1. ASSUME NEW c \in Configs, WriteConfig(c) PROVE cfg'.backflushCycles <= Horizon
      BY <2>1, HorizonAssumption, TimersAssumption DEF HorizonAssumption, TimersAssumption, WriteConfig
    <2>2. ASSUME NEW on \in BOOLEAN, SetPid(on) PROVE cfg'.backflushCycles = cfg.backflushCycles
      BY <2>2 DEF SetPid, TypeOK, Config
    <2>3. ASSUME NEW t, SetBrewSetpoint(t) PROVE cfg'.backflushCycles = cfg.backflushCycles
      BY <2>3 DEF SetBrewSetpoint, TypeOK, Config
    <2>4. \/ cfg' = cfg
          \/ \E on \in BOOLEAN : SetPid(on)
          \/ \E c \in Configs : SetBrewSetpoint(c.setpoint)
          \/ \E c \in Configs : WriteConfig(c)
      BY DEF UserCommand, SetSteam, SetBackflush, Wake, Sleep, ResetShotCounter
    <2> QED BY <2>1, <2>2, <2>3, <2>4 DEF FillsCounted
  <1> QED BY <1>1, <1>2 DEF FillsCounted

LEMMA InductiveCommand ==
  ASSUME Inductive, UserCommand, UNCHANGED history
  PROVE  Inductive'
  <1>1. TypeOK'
    BY CommandType DEF Inductive
  <1>2. /\ UNCHANGED <<state, faultFromStandby, brewStarted, hotWater, brewWas, heater, pump>>
        /\ UNCHANGED <<brewing, dispensing, asleep, fills, sensorFault>>
    BY CommandFrame DEF Inductive, history
  <1>3. HTypeOK' /\ ShotTimed' /\ HotWaterTimed' /\ FlushHeld' /\ AsleepWhere' /\ FaultShown'
    BY <1>2 DEF Inductive, HTypeOK, ShotTimed, HotWaterTimed, FlushHeld, AsleepWhere, FaultShown
  <1>4. PidKept' /\ PidOffHolds'
    BY <1>2, CommandFrame DEF Inductive, PidKept, PidOffHolds
  <1>5. FillsCounted'
    BY <1>2, FillsCommand DEF Inductive
  <1> QED BY <1>1, <1>3, <1>4, <1>5 DEF Inductive

LEMMA InductiveTick ==
  ASSUME Inductive, NEW inp \in Inputs, HTick(inp)
  PROVE  Inductive'
  <1>1. Tick(inp) /\ Observe(inp)
    BY DEF HTick
  <1>2. TypeOK' /\ HTypeOK'
    BY <1>1, TickType, HistoryType DEF Inductive
  <1>3. ShotTimed' /\ HotWaterTimed' /\ FlushHeld'
    BY <1>1, ShotStep, HotWaterStep, FlushStep DEF Inductive
  <1>4. PidKept' /\ PidOffHolds'
    BY <1>1, <1>2, PidKeptStep, PidOffStep DEF Inductive
  <1>5. AsleepWhere' /\ FaultShown' /\ FillsCounted'
    BY <1>2, AsleepStep, FaultShownStep, FillsStep DEF Inductive
  <1> QED BY <1>2, <1>3, <1>4, <1>5 DEF Inductive

LEMMA InductiveInit == HInit => Inductive
  <1> SUFFICES ASSUME HInit PROVE Inductive
    OBVIOUS
  <1>1. TypeOK
    BY InitType DEF HInit
  <1>2. HTypeOK
    <2>1. brewing \in Age(MaxBrew + 1) /\ dispensing \in Age(MaxHotWater + 1)
      BY MachineAssumption DEF HInit, Age, None, MachineAssumption
    <2>2. fills \in 0..(Horizon + 1)
      BY MachineAssumption, TimersAssumption DEF HInit, MachineAssumption, TimersAssumption
    <2> QED BY <2>1, <2>2 DEF HInit, HTypeOK
  <1>3. ShotTimed /\ HotWaterTimed /\ FlushHeld /\ PidKept /\ PidOffHolds /\ AsleepWhere /\ FaultShown
    BY DEF HInit, Init, ShotTimed, HotWaterTimed, FlushHeld, PidKept, PidOffHolds,
           AsleepWhere, FaultShown, BrewActive, NeedsPid, State
  <1>4. FillsCounted
    BY HorizonAssumption, TimersAssumption
    DEF HorizonAssumption, TimersAssumption, HInit, Init, FillsCounted, Running
  <1> QED BY <1>1, <1>2, <1>3, <1>4 DEF Inductive

(* The machine, its timers and what the user sees agree in every state.    *)
THEOREM MachineInductive == HSpec => []Inductive
  <1>1. Inductive /\ [HNext]_hvars => Inductive'
    <2> SUFFICES ASSUME Inductive, [HNext]_hvars PROVE Inductive'
      OBVIOUS
    <2>1. ASSUME NEW inp \in Inputs, HTick(inp) PROVE Inductive'
      BY <2>1, InductiveTick
    <2>2. CASE UserCommand /\ UNCHANGED history
      BY <2>2, InductiveCommand
    <2>3. CASE UNCHANGED hvars
      BY <2>3 DEF hvars, vars, history, switchVars, tempVars, shotVars, outputVars, Inductive,
                  TypeOK, HTypeOK, ShotTimed, HotWaterTimed, FlushHeld, PidKept, PidOffHolds,
                  AsleepWhere, FaultShown, FillsCounted
    <2> QED BY <2>1, <2>2, <2>3 DEF HNext
  <1> QED BY <1>1, InductiveInit, PTL DEF HSpec

-----------------------------------------------------------------------------
(* What follows for the machine's user, for every wiring, threshold, set   *)
(* of settings and sequence of readings and commands.                      *)

(* MAX_BREW_MS bounds every shot (handle_switches, next_state).            *)
THEOREM EveryShotCapped == HSpec => []ShotCapped
  <1>1. Inductive => ShotCapped
    BY MachineAssumption DEF Inductive, ShotTimed, ShotCapped, MachineAssumption
  <1> QED BY <1>1, MachineInductive, PTL

(* MAX_HOT_WATER_MS bounds every stretch of hot water (update_state_data). *)
THEOREM HotWaterAlwaysCapped == HSpec => []HotWaterCapped
  <1>1. Inductive => HotWaterCapped
    BY MachineAssumption
    DEF Inductive, HotWaterTimed, HotWaterCapped, HTypeOK, TypeOK, Age, None, MachineAssumption
  <1> QED BY <1>1, MachineInductive, PTL

(* Manual flush runs only under a pressed switch (on_brew_edge).           *)
THEOREM FlushAlwaysHeld == HSpec => []FlushHeld
  <1>1. Inductive => FlushHeld
    BY DEF Inductive
  <1> QED BY <1>1, MachineInductive, PTL

(* None of the places that write the PID's flag loses a setting that is on *)
(* (follow_pid_setting, on_power_edge, transition, command); and with the  *)
(* PID off nothing that needs it goes on after a tick.                     *)
THEOREM PidNeverLost == HSpec => []PidHolds
  <1>1. Inductive => PidHolds
    BY DEF Inductive, PidKept, PidOnHolds, PidHolds
  <1> QED BY <1>1, MachineInductive, PTL

(* A sleeping machine stays cold, through sensor errors and their end      *)
(* (fault_from_standby).                                                   *)
THEOREM SleepsCold == HSpec => []AsleepIsCold
  <1>1. Inductive => AsleepIsCold
    BY DEF Inductive, AsleepWhere, AsleepIsCold
  <1> QED BY <1>1, MachineInductive, PTL

(* A sensor error keeps the heater off until the sensor has recovered.     *)
THEOREM FaultStaysCold == HSpec => []FaultKeepsCold
  <1>1. Inductive => FaultKeepsCold
    BY DEF Inductive, FaultShown, FaultKeepsCold
  <1> QED BY <1>1, MachineInductive, PTL

(* A backflush counts as finished only after the set number of fillings    *)
(* (backflush_cycle), also when the mode or the setting changes under it.  *)
THEOREM BackflushAlwaysComplete == HSpec => BackflushComplete
  <1>1. ASSUME Inductive, [HNext]_hvars
        PROVE  [Enters("BackflushFinished") => fills >= cfg.backflushCycles]_hvars
    <2> SUFFICES ASSUME Enters("BackflushFinished"), HNext
                 PROVE  fills >= cfg.backflushCycles
      BY <1>1
    <2>1. PICK inp \in Inputs : HTick(inp)
      <3>1. UserCommand => UNCHANGED state
        BY <1>1, CommandFrame DEF Inductive
      <3> QED BY <3>1 DEF HNext, Enters
    <2>2. state = "BackflushFlushing" /\ ~(backflushCycle < cfg.backflushCycles)
      BY <1>1, <2>1, BackflushSteps DEF HTick, Enters, Inductive
    <2>3. fills \in 0..(Horizon + 1) /\ backflushCycle \in Nat /\ cfg.backflushCycles \in Nat
      BY <1>1 DEF Inductive, TypeOK, HTypeOK, Config
    <2>4. (fills >= backflushCycle \/ fills > Horizon) /\ cfg.backflushCycles <= Horizon
      BY <1>1, <2>2 DEF Inductive, FillsCounted, Running
    <2> QED BY <2>2, <2>3, <2>4, TimersAssumption DEF TimersAssumption
  <1> QED BY <1>1, MachineInductive, PTL DEF HSpec, BackflushComplete

(* No change of what is stored goes unannounced to the storage task: the   *)
(* events that the code pushes where it calibrates, enables the PID and    *)
(* counts (Event::ConfigChanged, Event::ShotCounterChanged) cover every    *)
(* change of settings and counter.                                         *)
THEOREM EveryChangeAnnounced == HSpec => ChangesAnnounced
  <1> DEFINE A == /\ cfg' # cfg => "ConfigChanged" \in events'
                  /\ shots' # shots => "ShotCounterChanged" \in events'
  <1>1. ASSUME TypeOK, [HNext]_hvars PROVE [A]_hvars
    <2> SUFFICES ASSUME HNext PROVE A
      BY <1>1
    <2>1. ASSUME NEW inp \in Inputs, HTick(inp) PROVE A
      <3>1. events' = {e \in Event :
                         \/ e = "ConfigChanged" /\ ConfigPushed(inp)
                         \/ e = "Reboot" /\ RebootDue
                         \/ e = "ShotCounterChanged"
                            /\ (ShotCounts(inp) \/ (Enters("BackflushFinished") /\ shots # 0))}
        BY <2>1 DEF HTick, Tick
      <3>2. shots' # shots => ShotCounts(inp) \/ (Enters("BackflushFinished") /\ shots # 0)
        BY <2>1 DEF HTick, Tick, Transition
      <3>3. cfg' # cfg => ConfigPushed(inp)
        <4> SUFFICES ASSUME ~ConfigPushed(inp) PROVE cfg' = cfg
          OBVIOUS
        <4>1. cfg' = [cfg EXCEPT !.pidEnabled = cfg.pidEnabled \/ PowerWakes(inp),
                                 !.scaleFactor = IF Calibrates(inp) THEN inp.calibrated
                                                 ELSE cfg.scaleFactor]
          BY <2>1 DEF HTick, Tick, HandleSwitches
        <4>2. ~Calibrates(inp) /\ (PowerWakes(inp) => cfg.pidEnabled = TRUE)
          BY <1>1 DEF ConfigPushed, EnablesPid, TypeOK, Config
        <4>3. (cfg.pidEnabled \/ PowerWakes(inp)) = cfg.pidEnabled
          BY <1>1, <4>2 DEF TypeOK, Config
        <4> QED BY <1>1, <4>1, <4>2, <4>3 DEF TypeOK, Config
      <3> QED BY <3>1, <3>2, <3>3 DEF Event
    <2>2. CASE UserCommand
      <3>1. ASSUME NEW on \in BOOLEAN, SetPid(on) PROVE A
        <4>1. cfg.pidEnabled = on => cfg' = cfg
          BY <1>1, <3>1 DEF SetPid, TypeOK, Config
        <4> QED BY <3>1, <4>1 DEF SetPid
      <3>2. ASSUME NEW on \in BOOLEAN, SetSteam(on) \/ SetBackflush(on) PROVE A
        BY <3>2 DEF SetSteam, SetBackflush, commandFrame
      <3>3. ASSUME NEW t, SetBrewSetpoint(t) PROVE A
        BY <3>3 DEF SetBrewSetpoint
      <3>3a. CASE Wake \/ Sleep \/ ResetShotCounter
        BY <3>3a DEF Wake, Sleep, ResetShotCounter
      <3>4. ASSUME NEW c \in Configs, WriteConfig(c) PROVE A
        BY <3>4 DEF WriteConfig
      <3> QED BY <2>2, <3>1, <3>2, <3>3, <3>3a, <3>4 DEF UserCommand
    <2> QED BY <2>1, <2>2 DEF HNext
  <1>2. Inductive => TypeOK
    BY DEF Inductive
  <1> QED BY <1>1, <1>2, MachineInductive, PTL DEF HSpec, ChangesAnnounced

=============================================================================
