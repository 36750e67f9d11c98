SPECIFICATION Spec
CONSTANTS
  N = 2
  Value <- Values
  Default = 0
  Wifi <- WifiParams
  MaxShots = 1
  FaultCases <- WorkingFlash
  Records <- NoRecords
PROPERTIES
  PendingSaveKept
