SPECIFICATION Spec
CONSTANTS
  Selections <- StartupSelections
  Faulty = {"get_cpu_usage", "get_context_switches", "get_cpu_fan_speed"}
  StartFaults = {"pthread_create", "daemon"}
  StackInts <- MCStackInts
  Uninitialised = Uninitialised
  NoSample = NoSample
  NullGauge = {"ignored", "crash"}
  ULLMax = 255
  MaxClock = 2
INVARIANT TypeOK
INVARIANT RejectedNeverSampled
INVARIANT EndsOnlyForAReason
PROPERTY RegistryFrozenOnceServed
PROPERTY ImplementsConfiguration
PROPERTY EveryMetricServed
CHECK_DEADLOCK FALSE
