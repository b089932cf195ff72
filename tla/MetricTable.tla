----------------------------- MODULE MetricTable -----------------------------
(***************************************************************************)
(* The static data of the exporter: the table all_metrics, and the body of *)
(* every update function as the sequence of steps that other threads can   *)
(* observe.  A body is made of four kinds of step:                         *)
(*                                                                         *)
(*   check(p)    call probe p; the function returns if the result is < 0   *)
(*   measure(p)  call probe p and go on whatever it returns                *)
(*   lock/unlock pthread_mutex_lock / pthread_mutex_unlock on `lock'       *)
(*   set(g)      prom_gauge_set on gauge g, with the value last measured   *)
(*                                                                         *)
(* A gauge goes by the name of the table row that owns it.                 *)
(***************************************************************************)
EXTENDS Integers, Sequences

Row(name, fn) == [name |-> name, update_function |-> fn]

\* MetricInfo all_metrics[] without the description; the last row of the
\* array is a sentinel and not a metric.
all_metrics == <<
  Row("rx_bytes_total",          "update_network_traffic_metric"),
  Row("tx_bytes_total",          "update_network_traffic_metric"),
  Row("rx_errors_total",         "update_network_traffic_metric"),
  Row("tx_errors_total",         "update_network_traffic_metric"),
  Row("dropped_packets_total",   "update_network_traffic_metric"),
  Row("io_time_ms",              "update_disk_stats_metrics"),
  Row("writes_completed_total",  "update_disk_stats_metrics"),
  Row("reads_completed_total",   "update_disk_stats_metrics"),
  Row("total_memory_mb",         "update_memory_metrics"),
  Row("used_memory_mb",          "update_memory_metrics"),
  Row("available_memory_mb",     "update_memory_metrics"),
  Row("context_switches",        "update_context_switches_metric"),
  Row("cpu_usage_percentage",    "update_cpu_gauge"),
  Row("memory_usage_percentage", "update_memory_gauge"),
  Row("disk_usage_percentage",   "update_disk_gauge"),
  Row("running_processes_total", "update_running_processes_gauge"),
  Row("cpu_temperature_celsius", "update_cpu_temperature"),
  Row("battery_voltage_volts",   "update_battery_voltage"),
  Row("battery_current_amperes", "update_battery_current"),
  Row("cpu_frequency_megahertz", "update_cpu_frequency"),
  Row("cpu_fan_speed_rpm",       "update_cpu_fan_speed"),
  Row("gpu_fan_speed_rpm",       "update_gpu_fan_speed"),
  Row("total_processes",         "update_process_states_gauge"),
  Row("suspended_processes",     "update_process_states_gauge"),
  Row("ready_processes",         "update_process_states_gauge"),
  Row("blocked_processes",       "update_process_states_gauge") >>

Metrics == {all_metrics[i].name : i \in DOMAIN all_metrics}

\* A mutated form: the row after the one that matched.
update_function_NextRow(name) ==
  LET i == CHOOSE i \in DOMAIN all_metrics : all_metrics[i].name = name
  IN  all_metrics[i + 1].update_function

\* The strcmp search; no two rows have the same name.
update_function(name) ==
  LET i == CHOOSE i \in DOMAIN all_metrics : all_metrics[i].name = name
  IN  all_metrics[i].update_function

-----------------------------------------------------------------------------
measure(p) == [op |-> "measure", arg |-> p]
check(p)   == [op |-> "check",   arg |-> p]
set(g)     == [op |-> "set",     arg |-> g]
lock_      == [op |-> "lock",    arg |-> "lock"]
unlock_    == [op |-> "unlock",  arg |-> "lock"]

Steps == [op : {"measure", "check", "set", "lock", "unlock"}, arg : STRING]

\* Mutated forms: the result is not tested; the mutex is taken before the probe
\* and the early return keeps it.
update_checked_Untested(p, g)    == << measure(p), lock_, set(g), unlock_ >>
update_checked_LocksFirst(p, g) == << lock_, check(p), set(g), unlock_ >>

\* The shape of the nine functions that measure one number, drop it when it
\* is negative and otherwise hand it to update_gauge.
update_checked(p, g) == << check(p), lock_, set(g), unlock_ >>

ProcessGauges == {"total_processes", "suspended_processes",
                  "ready_processes", "blocked_processes"}

update_cpu_gauge       == update_checked("get_cpu_usage", "cpu_usage_percentage")
update_memory_gauge    == update_checked("get_memory_usage", "memory_usage_percentage")
update_disk_gauge      == update_checked("get_disk_usage", "disk_usage_percentage")
update_cpu_temperature == update_checked("get_cpu_temperature", "cpu_temperature_celsius")
update_battery_voltage == update_checked("get_battery_voltage", "battery_voltage_volts")
update_battery_current == update_checked("get_battery_current", "battery_current_amperes")
update_cpu_frequency   == update_checked("get_cpu_frequency", "cpu_frequency_megahertz")
update_cpu_fan_speed   == update_checked("get_cpu_fan_speed", "cpu_fan_speed_rpm")
update_gpu_fan_speed   == update_checked("get_gpu_fan_speed", "gpu_fan_speed_rpm")

\* Reads /proc/stat itself; its early return on a failed fopen is the check.
update_running_processes_gauge ==
  update_checked("procs_running", "running_processes_total")

\* A mutated form: one critical section for each gauge.
update_process_states_gauge_Split ==
  << measure("get_process_states"),
     lock_, set("total_processes"), unlock_, lock_, set("suspended_processes"), unlock_,
     lock_, set("ready_processes"), unlock_, lock_, set("blocked_processes"), unlock_ >>

\* One critical section for the four gauges, unlike every other function.
update_process_states_gauge ==
  << measure("get_process_states"), lock_,
     set("total_processes"), set("suspended_processes"),
     set("ready_processes"), set("blocked_processes"), unlock_ >>

\* Three independent readings of /proc/meminfo, none of them tested.
update_memory_metrics ==
  << measure("get_total_memory"),     lock_, set("total_memory_mb"),     unlock_,
     measure("get_used_memory"),      lock_, set("used_memory_mb"),      unlock_,
     measure("get_available_memory"), lock_, set("available_memory_mb"), unlock_ >>

update_network_traffic_metric ==
  << measure("get_network_traffic"),
     lock_, set("rx_bytes_total"),        unlock_,
     lock_, set("tx_bytes_total"),        unlock_,
     lock_, set("rx_errors_total"),       unlock_,
     lock_, set("tx_errors_total"),       unlock_,
     lock_, set("dropped_packets_total"), unlock_ >>

update_context_switches_metric ==
  << measure("get_context_switches"), lock_, set("context_switches"), unlock_ >>

\* A mutated form: the last gauge is forgotten and the second set twice.
update_disk_stats_metrics_Copied ==
  << check("get_disk_stats"),
     lock_, set("io_time_ms"),             unlock_,
     lock_, set("writes_completed_total"), unlock_,
     lock_, set("writes_completed_total"), unlock_ >>

\* The test `stats.io_time >= 0' is in the code, on an unsigned value.
update_disk_stats_metrics ==
  << check("get_disk_stats"),
     lock_, set("io_time_ms"),             unlock_,
     lock_, set("writes_completed_total"), unlock_,
     lock_, set("reads_completed_total"),  unlock_ >>

\* What the function pointers of the table point to.
Body ==
  [update_cpu_gauge               |-> update_cpu_gauge,
   update_memory_gauge            |-> update_memory_gauge,
   update_disk_gauge              |-> update_disk_gauge,
   update_running_processes_gauge |-> update_running_processes_gauge,
   update_process_states_gauge    |-> update_process_states_gauge,
   update_cpu_temperature         |-> update_cpu_temperature,
   update_battery_voltage         |-> update_battery_voltage,
   update_battery_current         |-> update_battery_current,
   update_cpu_frequency           |-> update_cpu_frequency,
   update_cpu_fan_speed           |-> update_cpu_fan_speed,
   update_gpu_fan_speed           |-> update_gpu_fan_speed,
   update_memory_metrics          |-> update_memory_metrics,
   update_network_traffic_metric  |-> update_network_traffic_metric,
   update_context_switches_metric |-> update_context_switches_metric,
   update_disk_stats_metrics      |-> update_disk_stats_metrics]

UpdateFunctions == DOMAIN Body
=============================================================================
