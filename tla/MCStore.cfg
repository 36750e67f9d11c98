SPECIFICATION Spec
CONSTANTS
  N = 2
  Value <- Values
  Default = 0
  Wifi <- WifiParams
  MaxShots = 1
  FaultCases <- Faults
  Records <- OneRecord
INVARIANTS
  Inductive
  QuietIsSaved
  CounterKnown
PROPERTIES
  ResetsDo
  ImplementsStore
  StorageGoesOn
