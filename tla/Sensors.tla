------------------------------- MODULE Sensors -------------------------------
(***************************************************************************)
(* The six sensors: read_value, the functions of metrics.c that call it    *)
(* and the update functions that publish their results.  A sensor goes by  *)
(* the name of its gauge.  Numbers are in thousandths of the gauge's unit, *)
(* which is what the files of temperature, voltage, current and frequency  *)
(* hold; those of the fans hold whole revolutions.                         *)
(***************************************************************************)
EXTENDS Integers

CONSTANTS
  Followed,    \* the sensors that are followed
  Contents,    \* the numbers that the files may hold
  Unreadable,  \* a file that is not there, or holds no number
  NoValue      \* a gauge that was never set, a sensor that was never read

Sensors == {"cpu_temperature_celsius", "battery_voltage_volts", "battery_current_amperes",
            "cpu_frequency_megahertz", "cpu_fan_speed_rpm", "gpu_fan_speed_rpm"}
Fans == {"cpu_fan_speed_rpm", "gpu_fan_speed_rpm"}

ASSUME SensorsAssumption ==
  /\ Followed \subseteq Sensors /\ Contents \subseteq Int
  /\ Unreadable \notin Int /\ NoValue \notin Int

VARIABLES
  shown,    \* what each gauge shows
  measured  \* history: the last number that each file gave

sensorVars == << shown, measured >>

SensorInit == /\ shown = [s \in Followed |-> NoValue]
              /\ measured = [s \in Followed |-> NoValue]

UNIT_CONVERSION == 1000

\* value / 1000, or -1.
read_value(content) == IF content = Unreadable THEN -1 * UNIT_CONVERSION ELSE content

\* A mutated form: the fans are not converted back.
get_sensor_Unconverted(s, content) == read_value(content)

\* The six functions, of which those of the fans undo the conversion.
get_sensor(s, content) ==
  IF s \in Fans THEN read_value(content) * UNIT_CONVERSION ELSE read_value(content)

\* A negative result is an error, whatever it comes from.
update_sensor(s, content) ==
  /\ IF get_sensor(s, content) >= 0
       THEN shown' = [shown EXCEPT ![s] = get_sensor(s, content)]
       ELSE UNCHANGED shown
  /\ measured' = IF content = Unreadable THEN measured ELSE [measured EXCEPT ![s] = content]

SensorNext == \E s \in Followed, content \in Contents \cup {Unreadable} : update_sensor(s, content)

SensorSafe == SensorInit /\ [][SensorNext]_sensorVars

-----------------------------------------------------------------------------
(* Properties.                                                             *)

\* However often a sensor fails in between, its gauge shows the last number that
\* its file gave, in the unit that the gauge is named for; only a number below zero
\* is lost, as if the sensor had failed: frost, or a battery that is discharged
\* (expose_metrics.c:165, 191).
GaugeInItsUnit ==
  \A s \in Followed :
    \/ measured[s] = NoValue /\ shown[s] = NoValue
    \/ measured[s] # NoValue /\
       (measured[s] < 0 \/ shown[s] = measured[s] * (IF s \in Fans THEN UNIT_CONVERSION ELSE 1))
=============================================================================
