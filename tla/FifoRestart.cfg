SPECIFICATION Spec
CONSTANTS
  Writers = {"up"}
  Selection <- OneSelection
  Waits = {"up"}
  KnownMetrics <- MCKnown
  Garbled = "ab"
  MaxMetrics = 2
  BufferFields = 4
  MaxTries = 2
  Container = TRUE
  Faults = {}
  MaxBoots = 3
  MaxCrashes = 1
PROPERTY ServesAgain
CHECK_DEADLOCK FALSE
