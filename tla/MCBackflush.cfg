SPECIFICATION HSpec
CONSTANTS
  BrewSwitch = "momentary"
  SteamSwitch = "none"
  PowerSwitch = "none"
  HotWaterSwitch = FALSE
  TempTimeout = 1
  SensorRecovery = 2
  FinishedDisplay = 1
  MaxBrew = 4
  MaxHotWater = 2
  LongPress = 1
  RebootHold = 1
  RebootArm = 1
  MinCountedShot = 2
  EmergencyDebounce = 3
  MaxShots = 2
  DisplayOff = 1
  Horizon = 3
  Configs <- BackflushConfigs
  Inputs <- BackflushInputs
  Commands = {"SetBackflush", "WriteConfig", "ResetShotCounter"}
INVARIANTS
  FlushHeld
PROPERTIES
  BackflushComplete
  PumpingEnds
  ChangesAnnounced
