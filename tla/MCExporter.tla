----------------------------- MODULE MCExporter ------------------------------
(***************************************************************************)
(* Instances of Exporter for TLC: the metric selections of the runs.  The  *)
(* faults that a run injects are given in its .cfg.                        *)
(***************************************************************************)
EXTENDS Exporter

\* Legal and illegal selections: a single metric, part of a group, an unknown
\* name first or last, a name twice, an unknown name twice.
StartupSelections == {
  << "cpu_usage_percentage" >>,
  << "context_switches", "cpu_fan_speed_rpm" >>,
  << "cpu_usage_percentage", "context_switches" >>,
  << "io_time_ms", "cpu_usage_percentage" >>,
  << "cpu_usage_percentage", "typo" >>,
  << "typo", "cpu_usage_percentage" >>,
  << "typo", "typo" >>,
  << "cpu_usage_percentage", "cpu_usage_percentage" >>,
  << "cpu_usage_percentage", "context_switches", "cpu_usage_percentage" >> }

ProcessStates == << "total_processes", "suspended_processes",
                    "ready_processes", "blocked_processes" >>
\* The four-gauge group next to a metric of its own.
GroupSelections == {
  ProcessStates,
  << "running_processes_total", "total_processes", "blocked_processes" >> }

\* Every metric and so every update function, together with the group.
LoopSelections == GroupSelections \cup {
  << "cpu_usage_percentage", "memory_usage_percentage", "disk_usage_percentage" >>,
  << "running_processes_total", "cpu_temperature_celsius", "battery_voltage_volts" >>,
  << "battery_current_amperes", "cpu_frequency_megahertz", "cpu_fan_speed_rpm" >>,
  << "gpu_fan_speed_rpm", "context_switches", "tx_bytes_total" >>,
  << "reads_completed_total", "io_time_ms" >>, << "writes_completed_total" >>,
  << "total_memory_mb", "available_memory_mb" >>, << "used_memory_mb" >>,
  << "rx_bytes_total", "tx_errors_total" >>,
  << "dropped_packets_total" >>, << "rx_errors_total" >> }

\* An int on the stack: zero or anything else.
MCStackInts == {0, 999}
=============================================================================
