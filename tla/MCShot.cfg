SPECIFICATION HSpec
CONSTANTS
  BrewSwitch = "toggle"
  SteamSwitch = "momentary"
  PowerSwitch = "none"
  HotWaterSwitch = TRUE
  TempTimeout = 1
  SensorRecovery = 2
  FinishedDisplay = 1
  MaxBrew = 4
  MaxHotWater = 2
  LongPress = 1
  RebootHold = 1
  RebootArm = 1
  MinCountedShot = 2
  EmergencyDebounce = 3
  MaxShots = 2
  DisplayOff = 1
  Horizon = 3
  Configs <- ShotConfigs
  Inputs <- ShotInputs
  Commands = {"SetPid", "SetSteam"}
INVARIANTS
  ShotCapped
  HotWaterCapped
