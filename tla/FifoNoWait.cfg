SPECIFICATION Spec
CONSTANTS
  Writers = {"up"}
  Selection <- OneSelection
  Waits = {}
  KnownMetrics <- MCKnown
  Garbled = "ab"
  MaxMetrics = 2
  BufferFields = 4
  MaxTries = 2
  Container = TRUE
  Faults = {}
  MaxBoots = 3
  MaxCrashes = 0
PROPERTY DoneTakesEffect
CHECK_DEADLOCK FALSE
