SPECIFICATION Spec
CONSTANTS
  Writers = {"up", "again"}
  Selection <- SameSelection
  Waits = {"up", "again"}
  KnownMetrics <- MCKnown
  Garbled = "ab"
  MaxMetrics = 2
  BufferFields = 4
  MaxTries = 2
  Container = TRUE
  Faults = {}
  MaxBoots = 2
  MaxCrashes = 0
PROPERTY DoneTakesEffect
CHECK_DEADLOCK FALSE
