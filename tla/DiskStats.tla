------------------------------ MODULE DiskStats ------------------------------
(***************************************************************************)
(* get_disk_stats: the sums of three fields over the lines of              *)
(* /proc/diskstats.  The line of a device counts completed reads and       *)
(* writes, the sectors of both, and the milliseconds the device was busy.  *)
(***************************************************************************)
EXTENDS Integers, FiniteSets, FiniteSetsExt

CONSTANTS
  Devices,       \* the lines
  SectorsPerIO,  \* sectors of one operation
  MaxIO          \* bound on the operations of a device

ASSUME DevicesAssumption ==
  IsFiniteSet(Devices) /\ SectorsPerIO \in Nat \ {0} /\ MaxIO \in Nat

VARIABLES
  line,   \* the line of each device
  stats   \* the result of the last call that succeeded

diskVars == << line, stats >>

DiskInit ==
  /\ line = [d \in Devices |->
               [reads |-> 0, sectors_read |-> 0, writes |-> 0, sectors_written |-> 0, ms |-> 0]]
  /\ stats = [io_time |-> 0, writes_completed |-> 0, reads_completed |-> 0]

\* The kernel: an operation completes, in some milliseconds.
ReadCompletes(d, ms) ==
  /\ line[d].reads + line[d].writes < MaxIO
  /\ line' = [line EXCEPT ![d].reads = @ + 1, ![d].sectors_read = @ + SectorsPerIO,
                          ![d].ms = @ + ms]
  /\ UNCHANGED stats

WriteCompletes(d, ms) ==
  /\ line[d].reads + line[d].writes < MaxIO
  /\ line' = [line EXCEPT ![d].writes = @ + 1, ![d].sectors_written = @ + SectorsPerIO,
                          ![d].ms = @ + ms]
  /\ UNCHANGED stats

Total(field) == MapThenSumSet(LAMBDA d : line[d][field], Devices)

\* The third conversion of the sscanf stands at the place of the sectors written.
get_disk_stats ==
  /\ stats' = [io_time          |-> Total("sectors_written"),
               writes_completed |-> Total("writes"),
               reads_completed  |-> Total("reads")]
  /\ UNCHANGED line

DiskNext == \/ \E d \in Devices, ms \in 0 .. 1 : ReadCompletes(d, ms) \/ WriteCompletes(d, ms)
            \/ get_disk_stats

DiskSafe == DiskInit /\ [][DiskNext]_diskVars

-----------------------------------------------------------------------------
(* Properties.                                                             *)

\* The I/O time that is published is what the devices were busy: it is never more
\* than the milliseconds they count by now (include/metrics.h:197).
IoTimeIsMilliseconds == stats.io_time <= Total("ms")
=============================================================================
