SPECIFICATION Safe
CONSTANTS
  Writers = {"up", "ci", "op"}
  Selection <- MixedSelection
  Waits = {"up"}
  KnownMetrics <- MCKnown
  Garbled = "ab"
  MaxMetrics = 2
  BufferFields = 4
  MaxTries = 2
  Container = FALSE
  Faults = {"mkfifo", "fopen", "pthread_create"}
  MaxBoots = 2
  MaxCrashes = 1
INVARIANT TypeOK
INVARIANT ServedFromOneWriter
INVARIANT StatusTellsTheTruth
PROPERTY ImplementsConfiguration
CHECK_DEADLOCK FALSE
