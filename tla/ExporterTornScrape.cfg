SPECIFICATION Safe
CONSTANTS
  Selections <- GroupSelections
  Faulty = {}
  StartFaults = {}
  StackInts <- MCStackInts
  Uninitialised = Uninitialised
  NoSample = NoSample
  NullGauge = {"ignored"}
  ULLMax = 255
  MaxClock = 3
INVARIANT ScrapeGroupConsistent
