SPECIFICATION Spec
CONSTANTS
  Writers = {"up", "op"}
  Selection <- MCSelection
  Waits = {"up"}
  Garbled = "garbled"
  MaxMetrics = 2
  BufferFields = 4
  MaxTries = 2
  Container = TRUE
  Faults = {"pthread_create", "daemon"}
  MaxBoots = 2
  MaxCrashes = 1
  NoSample = NoSample
INVARIANT ValuesAreOfOneSelection
PROPERTY ImplementsFifo
PROPERTY DoneIsServed
PROPERTY WritersFinish
CHECK_DEADLOCK FALSE
