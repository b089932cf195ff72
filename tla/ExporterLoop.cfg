SPECIFICATION Safe
CONSTANTS
  Selections <- LoopSelections
  Faulty = {"get_memory_usage", "get_cpu_temperature", "get_battery_current", "get_cpu_fan_speed", "get_gpu_fan_speed", "get_disk_stats", "get_total_memory"}
  StartFaults = {}
  StackInts <- MCStackInts
  Uninitialised = Uninitialised
  NoSample = NoSample
  NullGauge = {"ignored"}
  ULLMax = 255
  MaxClock = 3
INVARIANT CycleRefreshesAll
INVARIANT GroupConsistentWhenUnlocked
PROPERTY ImplementsGaugeBoard
INVARIANT MutexDiscipline
