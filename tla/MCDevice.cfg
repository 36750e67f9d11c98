SPECIFICATION DeviceSpec
CONSTANTS
  Debounce = 2
  LongPress = 5
  Bounce = 2
  MaxGap = 2
  RawValues <- MCRawValues
  Strobes = {50, 62, 125}
  Stubs = {1, 30, 48}
  Right = {2, 3}
  Wrong = {1, 4}
  SilenceMax = 3
  Timeout = 2
  ErrorsMax = 2
  DallasMax = 2
  Samples = 2
  Gain = 2
  KnownWeight = 1
  CalibrationTare = 1
  CalibrationPlace = 1
  AutoTareTimeout = 2
  MaxLoad = 1
  HeartbeatPeriod = 2
  MaxPacketPeriod = 3
  Pause = 2
  Temps = {0, 3, 4}
  Setpoint = 1
  SteamSetpoint = 2
  Offset = 1
  OutMax = 3
  Regular <- MCRegular
  Brewing <- MCBrewing
  Steaming <- MCSteaming
  Limits = {2}
  NewLimit = 3
  Alpha = 1
  Parts = 2
  SampleTicks = 2
  Choices <- MCChoices
  Statuses <- MCStatuses
  PostBrew = 1
  ResultShown = 1
INVARIANTS
  FramesDecode
  ReadingsTrue
  WeightTells
  SessionKept
  PanelTrue
PROPERTIES
  SwitchTells
  HeatEnds
  WaitsEnd
