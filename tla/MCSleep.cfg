SPECIFICATION HSpec
CONSTANTS
  BrewSwitch = "none"
  SteamSwitch = "none"
  PowerSwitch = "none"
  HotWaterSwitch = FALSE
  TempTimeout = 1
  SensorRecovery = 2
  FinishedDisplay = 1
  MaxBrew = 4
  MaxHotWater = 2
  LongPress = 1
  RebootHold = 1
  RebootArm = 1
  MinCountedShot = 2
  EmergencyDebounce = 3
  MaxShots = 2
  DisplayOff = 1
  Horizon = 3
  Configs <- SleepConfigs
  Inputs <- SleepInputs
  Commands = {"Sleep", "Wake", "SetBrewSetpoint"}
INVARIANTS
  Inductive
  AsleepIsCold
  FaultKeepsCold
PROPERTIES
  FallsAsleep
