SPECIFICATION ConnectionSpec
CONSTANTS
  Workers = {w1, w2}
  Phones = {p1, p2}
  Names = {"auth", "brew"}
  Levels = {"none", "one"}
  Forms <- MCForms
  Needs = {scale}
  Shown = {v1, v2}
  FallbackAfter = 2
  Retry = 1
  RetryWithAp = 2
  KeepAlive = 4
  Interval = 1
  Discovery = 3
  Reconnect = 1
  Keys <- MCKeys
  Values <- MCValues
  Texts <- MCTexts
  Refused <- MCRefused
  MaxDepth = 3
  Characters = {"r", "n", "-", "b", "x", "f", "g"}
  Boundary <- MCBoundary
  Uploads <- MCUploads
  Preambles <- MCPreambles
  ChunkMax = 4
  HeadersMax = 6
  Capacity = 4
  Lengths = {0, 1, 2, 6}
  LineMax = 5
  TotalMax = 10
  Length = 3
  Every = 2
  Second = 3
  Late = 2
  SamplesMax = 10
INVARIANTS
  SlotsKept
  PhonesCounted
  BrokerTold
  UploadsWhole
  FilesRestore
  AnswersTrue
PROPERTIES
  Reachable
  RequestsChecked
CHECK_DEADLOCK FALSE
