SPECIFICATION Spec
CONSTANTS
  Workers <- TwoWorkers
  None = None
  Sectors = 2
  PerSector = 2
  MaxRead = 2
  MaxUnits = 5
INVARIANTS
  Inductive
  InterlockRight
  RunsComplete
PROPERTIES
  ActivatedIsWhole
  ImplementsUpdate
  UploadEnds
