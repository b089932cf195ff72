------------------------------ MODULE MCParts --------------------------------
(***************************************************************************)
(* The parts of SystemSentinel that share no state with one another, for   *)
(* TLC: the probes of metrics.c, parse_metrics, and the alert rules.  Each *)
(* behaviour follows one of them, `part', and leaves the others as they    *)
(* start, so that a run explores the sum of their states.                  *)
(***************************************************************************)
EXTENDS CpuUsage, NetworkTraffic, ProcessScan, MemoryProbes, DiskStats,
        ParseMetrics, ErrorAlert, Sensors, TLC

CONSTANT Parts  \* the parts that this run follows

VARIABLE part

partVars == << part, cpuVars, netVars, scanVars, reported, diskVars, parseVars, alertVars,
               sensorVars >>

Init ==
  /\ part \in Parts
  /\ CpuInit /\ ScanInit /\ MemoryInit /\ DiskInit /\ SensorInit
  /\ IF part = "network" THEN NetInit   ELSE NetStart(Unset)
  /\ IF part = "parse"   THEN ParseInit ELSE ParseStart(<< >>)
  /\ IF part = "alert"   THEN AlertInit ELSE AlertStart(CHOOSE c \in [Gauges -> Readings] : TRUE)

Next ==
  /\ UNCHANGED part
  /\ \/ part = "cpu"     /\ CpuNext
        /\ UNCHANGED << netVars, scanVars, reported, diskVars, parseVars, alertVars, sensorVars >>
     \/ part = "network" /\ NetNext
        /\ UNCHANGED << cpuVars, scanVars, reported, diskVars, parseVars, alertVars, sensorVars >>
     \/ part = "scan"    /\ ScanNext
        /\ UNCHANGED << cpuVars, netVars, reported, diskVars, parseVars, alertVars, sensorVars >>
     \/ part = "memory"  /\ MemoryNext
        /\ UNCHANGED << cpuVars, netVars, scanVars, diskVars, parseVars, alertVars, sensorVars >>
     \/ part = "disk"    /\ DiskNext
        /\ UNCHANGED << cpuVars, netVars, scanVars, reported, parseVars, alertVars, sensorVars >>
     \/ part = "parse"   /\ ParseNext
        /\ UNCHANGED << cpuVars, netVars, scanVars, reported, diskVars, alertVars, sensorVars >>
     \/ part = "alert"   /\ AlertNext
        /\ UNCHANGED << cpuVars, netVars, scanVars, reported, diskVars, parseVars, sensorVars >>
     \/ part = "sensors" /\ SensorNext
        /\ UNCHANGED << cpuVars, netVars, scanVars, reported, diskVars, parseVars, alertVars >>

Safe == Init /\ [][Next]_partVars

\* A process with a plain name, and one whose name goes on with an S.
MCComm == (1 :> "plain") @@ (2 :> "S")

\* -1000, a current of -1 A, reads as -1, which is the error.
MCContents == {-1000, 0, 4}
=============================================================================
