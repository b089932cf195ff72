SPECIFICATION Safe
CONSTANTS
  Parts = {"cpu", "network", "scan", "memory", "disk", "parse", "alert", "sensors"}
  Word = 6
  MaxDrop = 2
  Interfaces = {"eth0", "wlp4s0"}
  Loopback = "lo"
  NETWORK_INTERFACE = "wlp4s0"
  Settings = {"", "eth0"}
  Unset = ""
  Zeros = "zeros"
  Failed = "failed"
  Pids = {1, 2}
  Comm <- MCComm
  Gone = "gone"
  MemTotal = 2
  Word64 = 100
  Devices = {"sda", "sda1"}
  SectorsPerIO = 2
  MaxIO = 2
  NameChars = {"a"}
  MaxNames = 2
  MaxText = 7
  Gauges = {"rx", "tx"}
  Window = 3
  Readings = {0, 1}
  Missed = Missed
  Followed = {"cpu_temperature_celsius", "battery_current_amperes", "cpu_fan_speed_rpm"}
  Contents <- MCContents
  Unreadable = Unreadable
  NoValue = NoValue
INVARIANT ShareIsTrue
INVARIANT OneInterface
INVARIANT ScanIsBounded
INVARIANT WithinTotals
INVARIANT NamesAreFields
INVARIANT GaugeInItsUnit
INVARIANT FiringNeedsTwoChanges
CHECK_DEADLOCK FALSE
