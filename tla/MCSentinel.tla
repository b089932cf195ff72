----------------------------- MODULE MCSentinel ------------------------------
(***************************************************************************)
(* An instance of Sentinel for TLC: up.sh with a list that is too long for *)
(* MAX_METRICS and for the buffer, and an operator who repeats a metric,   *)
(* so that alone it makes must_register end the process.  A name that is   *)
(* not in the table comes about when the texts of the two meet.            *)
(***************************************************************************)
EXTENDS Sentinel

MCSelection ==
  [up |-> << "cpu_usage_percentage", "", "context_switches", "disk_usage_percentage" >>,
   op |-> << "battery_voltage_volts", "battery_voltage_volts" >>]
=============================================================================
