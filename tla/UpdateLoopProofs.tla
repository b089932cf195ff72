-------------------------- MODULE UpdateLoopProofs ---------------------------
(***************************************************************************)
(* Proofs about the update loop of Exporter: what a cycle refreshes, what  *)
(* a gauge can show, and why the process ends.                             *)
(***************************************************************************)
EXTENDS ExporterProofs

USE DEF history

-----------------------------------------------------------------------------
(* The bodies of the update functions.                                     *)

IsProbe(step) == step.op \in {"measure", "check"}

\* A body made by update_checked is four steps, the probe first.
LEMMA CheckedShape ==
  \A p, g : LET b == update_checked(p, g) IN
    /\ DOMAIN b = 1 .. 4
    /\ b[1] = check(p) /\ b[2] = lock_ /\ b[3] = set(g) /\ b[4] = unlock_
BY DEF update_checked

\* Every body begins with a probe, and one that tests its probe has no other.
LEMMA ProbesComeFirst ==
  \A f \in UpdateFunctions :
    /\ 1 \in DOMAIN Body[f] /\ IsProbe(Body[f][1])
    /\ \A i, j \in DOMAIN Body[f] :
         Body[f][i].op = "check" /\ IsProbe(Body[f][j]) => i = 1 /\ j = 1
<1> SUFFICES ASSUME NEW f \in UpdateFunctions
             PROVE  /\ 1 \in DOMAIN Body[f] /\ IsProbe(Body[f][1])
                    /\ \A i, j \in DOMAIN Body[f] :
                         Body[f][i].op = "check" /\ IsProbe(Body[f][j]) => i = 1 /\ j = 1
  OBVIOUS
<1> USE DEF Body, measure, check, set, lock_, unlock_, IsProbe
<1>1. CASE f = "update_network_traffic_metric"
  BY <1>1 DEF update_network_traffic_metric
<1>2. CASE f = "update_memory_metrics"
  BY <1>2 DEF update_memory_metrics
<1>3. CASE f = "update_disk_stats_metrics"
  BY <1>3 DEF update_disk_stats_metrics
<1>4. CASE f = "update_context_switches_metric"
  BY <1>4 DEF update_context_switches_metric
<1>5. CASE f = "update_process_states_gauge"
  BY <1>5 DEF update_process_states_gauge
<1>6. CASE \E p, g : Body[f] = update_checked(p, g)
  BY <1>6 DEF update_checked
<1>7. CASE f \notin {"update_network_traffic_metric", "update_memory_metrics",
                    "update_disk_stats_metrics", "update_context_switches_metric",
                    "update_process_states_gauge"}
  BY <1>6, <1>7
     DEF UpdateFunctions, update_cpu_gauge, update_memory_gauge,
         update_disk_gauge, update_running_processes_gauge,
         update_cpu_temperature, update_battery_voltage, update_battery_current,
         update_cpu_frequency, update_cpu_fan_speed, update_gpu_fan_speed
<1> QED BY <1>1, <1>2, <1>3, <1>4, <1>5, <1>7

\* No two rows of the table have the same name.
LEMMA NamesAreDistinct ==
  \A i, j \in DOMAIN all_metrics : all_metrics[i].name = all_metrics[j].name => i = j
BY DEF all_metrics, Row

\* So a name finds the function of its row.
LEMMA RowOfName ==
  \A i \in DOMAIN all_metrics :
    update_function(all_metrics[i].name) = all_metrics[i].update_function
BY NamesAreDistinct DEF update_function

\* A body sets the gauges of the rows that name its function, and no other.
LEMMA SetsAreOfTheirRows ==
  \A f \in UpdateFunctions : \A i \in DOMAIN Body[f] :
    Body[f][i].op = "set" =>
      /\ Body[f][i] = set(Body[f][i].arg)
      /\ \E r \in DOMAIN all_metrics : all_metrics[r] = Row(Body[f][i].arg, f)
<1> SUFFICES ASSUME NEW f \in UpdateFunctions, NEW i \in DOMAIN Body[f], Body[f][i].op = "set"
             PROVE  /\ Body[f][i] = set(Body[f][i].arg)
                    /\ \E r \in DOMAIN all_metrics : all_metrics[r] = Row(Body[f][i].arg, f)
  OBVIOUS
<1> USE DEF Body, measure, check, set, lock_, unlock_
<1>1. CASE f = "update_network_traffic_metric"
  BY <1>1 DEF update_network_traffic_metric, all_metrics
<1>2. CASE f = "update_memory_metrics"
  BY <1>2 DEF update_memory_metrics, all_metrics
<1>3. CASE f = "update_disk_stats_metrics"
  BY <1>3 DEF update_disk_stats_metrics, all_metrics
<1>4. CASE f = "update_context_switches_metric"
  BY <1>4 DEF update_context_switches_metric, all_metrics
<1>5. CASE f = "update_process_states_gauge"
  BY <1>5 DEF update_process_states_gauge, all_metrics
<1>6. ASSUME NEW p, NEW g, Body[f] = update_checked(p, g),
             \E r \in DOMAIN all_metrics : all_metrics[r] = Row(g, f)
      PROVE  /\ Body[f][i] = set(Body[f][i].arg)
             /\ \E r \in DOMAIN all_metrics : all_metrics[r] = Row(Body[f][i].arg, f)
  <2>1. i = 3 /\ Body[f][i] = set(g)
    BY <1>6 DEF update_checked
  <2> QED BY <1>6, <2>1
<1>7. CASE f \notin {"update_network_traffic_metric", "update_memory_metrics",
                    "update_disk_stats_metrics", "update_context_switches_metric",
                    "update_process_states_gauge"}
  BY <1>6, <1>7
     DEF UpdateFunctions, all_metrics, update_cpu_gauge, update_memory_gauge,
         update_disk_gauge, update_running_processes_gauge,
         update_cpu_temperature, update_battery_voltage, update_battery_current,
         update_cpu_frequency, update_cpu_fan_speed, update_gpu_fan_speed
<1> QED BY <1>1, <1>2, <1>3, <1>4, <1>5, <1>7

\* The body of a row's function has a step that sets the row's gauge.
LEMMA RowsAreSet ==
  \A r \in DOMAIN all_metrics :
    LET b == Body[all_metrics[r].update_function] IN
    \E i \in DOMAIN b : b[i] = set(all_metrics[r].name)
<1> SUFFICES ASSUME NEW r \in DOMAIN all_metrics, NEW f, f = all_metrics[r].update_function,
                    NEW g, g = all_metrics[r].name
             PROVE  \E i \in DOMAIN Body[f] : Body[f][i] = set(g)
  OBVIOUS
<1> USE DEF Body
<1>1. CASE f = "update_network_traffic_metric"
  <2>1. g \in {"rx_bytes_total", "tx_bytes_total", "rx_errors_total", "tx_errors_total",
               "dropped_packets_total"}
    BY <1>1 DEF all_metrics, Row
  <2>2. /\ DOMAIN Body[f] = 1 .. 16
        /\ Body[f][3] = set("rx_bytes_total")   /\ Body[f][6] = set("tx_bytes_total")
        /\ Body[f][9] = set("rx_errors_total")  /\ Body[f][12] = set("tx_errors_total")
        /\ Body[f][15] = set("dropped_packets_total")
    BY <1>1 DEF update_network_traffic_metric
  <2> QED BY <2>1, <2>2
<1>2. CASE f = "update_memory_metrics"
  <2>1. g \in {"total_memory_mb", "used_memory_mb", "available_memory_mb"}
    BY <1>2 DEF all_metrics, Row
  <2>2. /\ DOMAIN Body[f] = 1 .. 12
        /\ Body[f][3] = set("total_memory_mb") /\ Body[f][7] = set("used_memory_mb")
        /\ Body[f][11] = set("available_memory_mb")
    BY <1>2 DEF update_memory_metrics
  <2> QED BY <2>1, <2>2
<1>3. CASE f = "update_disk_stats_metrics"
  <2>1. g \in {"io_time_ms", "writes_completed_total", "reads_completed_total"}
    BY <1>3 DEF all_metrics, Row
  <2>2. /\ DOMAIN Body[f] = 1 .. 10
        /\ Body[f][3] = set("io_time_ms") /\ Body[f][6] = set("writes_completed_total")
        /\ Body[f][9] = set("reads_completed_total")
    BY <1>3 DEF update_disk_stats_metrics
  <2> QED BY <2>1, <2>2
<1>4. CASE f = "update_context_switches_metric"
  <2>1. g = "context_switches"
    BY <1>4 DEF all_metrics, Row
  <2>2. DOMAIN Body[f] = 1 .. 4 /\ Body[f][3] = set("context_switches")
    BY <1>4 DEF update_context_switches_metric
  <2> QED BY <2>1, <2>2
<1>5. CASE f = States
  <2>1. g \in ProcessGauges
    BY <1>5 DEF all_metrics, Row, States, ProcessGauges
  <2> QED BY <1>5, <2>1, StatesBody DEF ProcessGauges
<1>6. CASE \E p : Body[f] = update_checked(p, g)
  BY <1>6, CheckedShape
<1>7. CASE f \notin {"update_network_traffic_metric", "update_memory_metrics",
                    "update_disk_stats_metrics", "update_context_switches_metric", States}
  BY <1>6, <1>7
     DEF all_metrics, Row, States, update_cpu_gauge, update_memory_gauge,
         update_disk_gauge, update_running_processes_gauge,
         update_cpu_temperature, update_battery_voltage, update_battery_current,
         update_cpu_frequency, update_cpu_fan_speed, update_gpu_fan_speed
<1> QED BY <1>1, <1>2, <1>3, <1>4, <1>5, <1>7

\* A body is a sequence.
LEMMA BodiesAreSequences == \A f \in UpdateFunctions : \E n \in Nat : DOMAIN Body[f] = 1 .. n
<1> SUFFICES ASSUME NEW f \in UpdateFunctions PROVE \E n \in Nat : DOMAIN Body[f] = 1 .. n
  OBVIOUS
<1>1. DOMAIN Body[f] \in {1 .. 4, 1 .. 7, 1 .. 10, 1 .. 12, 1 .. 16}
  BY CheckedShape
     DEF UpdateFunctions, Body, update_network_traffic_metric, update_memory_metrics,
         update_disk_stats_metrics, update_context_switches_metric,
         update_process_states_gauge, update_cpu_gauge, update_memory_gauge,
         update_disk_gauge, update_running_processes_gauge, update_cpu_temperature,
         update_battery_voltage, update_battery_current, update_cpu_frequency,
         update_cpu_fan_speed, update_gpu_fan_speed
<1> QED BY <1>1

\* The body that runs, with what the lemmas say of it.
LEMMA RunningBody ==
  ASSUME SafetyInv, pc = "run"
  PROVE  /\ Program = Body[update_function(selected[turn])]
         /\ update_function(selected[turn]) \in UpdateFunctions
         /\ \E n \in Nat : DOMAIN Program = 1 .. n
         /\ 1 \in DOMAIN Program /\ IsProbe(Program[1])
BY RunningFunction, BodiesAreSequences, ProbesComeFirst DEF Program

\* A gauge that the running body sets belongs to a metric with that function.
LEMMA SetOfRunningBody ==
  ASSUME SafetyInv, pc = "run", NEW i \in DOMAIN Program, Program[i].op = "set"
  PROVE  /\ Program[i] = set(Program[i].arg)
         /\ Program[i].arg \in Metrics
         /\ update_function(Program[i].arg) = update_function(selected[turn])
<1> DEFINE f == update_function(selected[turn])
<1>1. Program = Body[f] /\ f \in UpdateFunctions
  BY RunningBody
<1>2. PICK r \in DOMAIN all_metrics : all_metrics[r] = Row(Program[i].arg, f)
  BY <1>1, SetsAreOfTheirRows
<1>3. all_metrics[r].name = Program[i].arg /\ all_metrics[r].update_function = f
  BY <1>2 DEF Row
<1> QED BY <1>1, <1>3, SetsAreOfTheirRows, RowOfName DEF Metrics

-----------------------------------------------------------------------------
(* The end of the process.                                                 *)

\* When the HTTP thread is created, the registry holds what was selected.
Registered == pc \in {"threads", "resolve", "run", "sleep"} => registry = Metrics \cap Names

EndInv == Registered /\ EndsOnlyForAReason

\* The name that must_register refuses occurs twice.
LEMMA RegisterKeepsEndInv ==
  ASSUME SafetyInv, EndInv, RegisterMetric
  PROVE  EndInv'
<1>1. /\ selected \in Seq(STRING) /\ DOMAIN selected = 1 .. Len(selected)
      /\ turn \in 1 .. Len(selected) /\ pc = "init" /\ selected' = selected
      /\ registry = Metrics \cap {selected[j] : j \in 1 .. turn - 1}
  BY SelectionsAssumption DEF SafetyInv, TypeOK, StartupInv, RegisterMetric
<1>2. CASE selected[turn] \in registry
  <2>1. PICK j \in 1 .. turn - 1 : selected[j] = selected[turn]
    BY <1>1, <1>2
  <2>2. ~Accepted'
    BY <1>1, <2>1 DEF Accepted
  <2>3. pc' = "ending"
    BY <1>2 DEF RegisterMetric
  <2> QED BY <2>2, <2>3 DEF EndInv, Registered, EndsOnlyForAReason
<1>3. CASE selected[turn] \notin registry
  <2>1. pc' \in {"threads", "init"} /\ (pc' = "threads" => turn = Len(selected))
        /\ registry' = registry \cup ({selected[turn]} \cap Metrics)
    BY <1>3 DEF RegisterMetric, LastTurn
  <2>2. ASSUME turn = Len(selected) PROVE registry' = Metrics \cap Names
    <3>1. DOMAIN selected = (1 .. turn - 1) \cup {turn}
      BY <1>1, <2>2
    <3> QED BY <1>1, <2>1, <3>1 DEF Names
  <2>3. Names' = Names
    BY <1>1 DEF Names
  <2> QED BY <2>1, <2>2, <2>3 DEF EndInv, Registered, EndsOnlyForAReason
<1> QED BY <1>2, <1>3

\* A gauge that was not selected belongs to a group of which another one was.
LEMMA SetKeepsEndInv ==
  ASSUME SafetyInv, EndInv, GaugeSet
  PROVE  EndInv'
<1> DEFINE g == Program[ip].arg
           f == update_function(selected[turn])
           grp == {all_metrics[i].name : i \in {k \in DOMAIN all_metrics :
                                                  all_metrics[k].update_function = f}}
<1>1. /\ pc = "run" /\ ip \in DOMAIN Program /\ Program[ip].op = "set"
      /\ selected' = selected /\ registry' = registry /\ status' = status
      /\ pc' \in {"run", "ending"} /\ (pc' = "ending" => g \notin registry)
  BY DEF GaugeSet, AtOp
<1>2. g \in Metrics /\ update_function(g) = f /\ f \in UpdateFunctions
  BY <1>1, SetOfRunningBody, RunningBody
<1>3. Accepted /\ registry = Names /\ selected[turn] \in Names
  BY <1>1 DEF SafetyInv, TypeOK, StartupInv, EndInv, Registered, Accepted, Names
<1>4. \A m \in Metrics : update_function(m) = f => m \in grp
  BY RowOfName DEF Metrics
<1>5. g \in grp /\ selected[turn] \in grp
  BY <1>2, <1>3, <1>4 DEF Accepted
<1>6. pc' = "ending" => ~WholeGroups
  <2>1. grp \in Groups
    BY <1>2 DEF Groups
  <2> QED BY <1>1, <1>3, <1>5, <2>1 DEF WholeGroups
<1>7. WholeGroups' = WholeGroups /\ Names' = Names
  BY <1>1 DEF WholeGroups, Names
<1> QED BY <1>1, <1>6, <1>7 DEF EndInv, Registered, EndsOnlyForAReason

\* Every step keeps it.
LEMMA StepEndInv ==
  ASSUME SafetyInv, EndInv, [Next]_vars
  PROVE  EndInv'
<1> USE DEF EndInv, Registered, EndsOnlyForAReason, Names, Accepted, WholeGroups
<1>1. CASE RegisterMetric
  BY <1>1, RegisterKeepsEndInv
<1>2. CASE GaugeSet
  BY <1>2, SetKeepsEndInv
<1>3. CASE CreateThreads
  BY <1>3 DEF CreateThreads
<1>4. CASE ResolveFunctions
  BY <1>4 DEF ResolveFunctions, AllResolved
<1>5. CASE Probe \/ MutexLock \/ MutexUnlock
  BY <1>5 DEF Probe, MutexLock, MutexUnlock, AtOp
<1>6. CASE FunctionReturns \/ SleepEnds
  BY <1>6 DEF FunctionReturns, SleepEnds
<1>7. CASE ProcessEnds
  BY <1>7 DEF ProcessEnds
<1>8. CASE Daemon \/ BeginScrape \/ Tick \/ UNCHANGED vars
  BY <1>8 DEF Daemon, StartDaemon, BeginScrape, ReadGauge, EndScrape, Tick, vars, mainVars
<1> QED
  BY <1>1, <1>2, <1>3, <1>4, <1>5, <1>6, <1>7, <1>8 DEF Next, Main

\* The invariant of the end of the process.
LEMMA EndInvariant == Safe => [](SafetyInv /\ EndInv)
<1>1. Init => EndInv
  BY DEF Init, EndInv, Registered, EndsOnlyForAReason
<1>2. SafetyInv /\ EndInv /\ [Next]_vars => EndInv'
  BY StepEndInv
<1> QED BY <1>1, <1>2, SafetyInvariant, PTL DEF Safe

\* The process ends only after a rejected selection, a failed thread creation, or
\* a set of a gauge that was not selected while another of its group was; no probe
\* and no scrape can end it.
THEOREM EndsForAReason == Spec => []EndsOnlyForAReason
<1>1. EndInv => EndsOnlyForAReason
  BY DEF EndInv
<1> QED BY <1>1, EndInvariant, PTL DEF Spec

-----------------------------------------------------------------------------
(* A cycle of the update loop.                                             *)

\* What a gauge shows is of this cycle, or its probe has failed in it.
Current(g) == g \in registry /\ SourcesOf(g) \cap failed = {} => gauge[g] \in since .. clock

\* The k-th step of the running body is the last probe before the i-th.
LastProbe(k, i) ==
  /\ k \in DOMAIN Program /\ k < i /\ IsProbe(Program[k])
  /\ \A j \in DOMAIN Program : IsProbe(Program[j]) => j <= k \/ j >= i

\* The functions before this one have refreshed their gauges, and so have the sets
\* before this step; a body that returned early did so because its probe failed.
LoopInv ==
  /\ pc \in {"threads", "resolve", "sleep"} => turn = 1
  /\ pc \in {"init", "threads", "resolve", "sleep"} => ip = 1
  /\ pc = "run" /\ ip > 1 =>
       \E k \in DOMAIN Program :
         LastProbe(k, ip) /\ (reading \in since .. clock \/ Program[k].arg \in failed)
  /\ pc = "run" /\ ip = 0 => Program[1].op = "check" /\ Program[1].arg \in failed
  /\ pc = "run" => \A t \in 1 .. turn - 1 : Current(selected[t])
  /\ pc = "run" => \A i \in DOMAIN Program :
                     i < ip /\ Program[i].op = "set" => Current(Program[i].arg)
  /\ pc = "sleep" => \A t \in DOMAIN selected : Current(selected[t])

\* The last probe before a set is where the gauge has its value from.
LEMMA LastProbeIsSource ==
  ASSUME SafetyInv, pc = "run", NEW i \in DOMAIN Program, Program[i].op = "set",
         NEW k, LastProbe(k, i)
  PROVE  Program[k].arg \in SourcesOf(Program[i].arg)
<1>1. /\ Program[i] = set(Program[i].arg)
      /\ Program = Body[update_function(Program[i].arg)]
  BY SetOfRunningBody, RunningBody
<1>2. PICK n \in Nat : DOMAIN Program = 1 .. n
  BY RunningBody
<1> DEFINE probes == {p \in DOMAIN Program : Program[p].op \in {"measure", "check"}}
<1>3. k \in probes /\ i \notin probes
  BY DEF LastProbe, IsProbe
<1>4. \A j \in probes : j <= k \/ j > i
  BY <1>2, <1>3 DEF LastProbe, IsProbe
<1>5. k < i
  BY DEF LastProbe
<1> QED BY <1>1, <1>3, <1>4, <1>5 DEF SourcesOf

\* When a body is done, the gauge of its metric is current.
LEMMA DoneIsCurrent ==
  ASSUME SafetyInv, LoopInv, pc = "run", ip \notin DOMAIN Program
  PROVE  Current(selected[turn])
<1>1. selected[turn] \in Metrics /\ ip \in Nat
  BY DEF SafetyInv, StartupInv, TypeOK, Accepted, Names
<1>2. PICK i \in DOMAIN Program : Program[i] = set(selected[turn])
  <2>1. PICK r \in DOMAIN all_metrics : all_metrics[r].name = selected[turn]
    BY <1>1 DEF Metrics
  <2> QED BY <2>1, RowOfName, RowsAreSet DEF Program
<1>3. Program[i].op = "set" /\ Program[i].arg = selected[turn]
  BY <1>2 DEF set
<1>4. PICK n \in Nat : DOMAIN Program = 1 .. n
  BY RunningBody
<1>5. CASE ip = 0
  <2>1. Program[1].op = "check" /\ Program[1].arg \in failed /\ IsProbe(Program[1])
        /\ 1 \in DOMAIN Program
    BY <1>5, RunningBody DEF LoopInv
  <2>2. \A j \in DOMAIN Program : IsProbe(Program[j]) => j = 1
    BY <2>1, RunningBody, ProbesComeFirst
  <2>3. i # 1
    BY <1>3, <2>1
  <2>4. LastProbe(1, i)
    BY <1>4, <2>1, <2>2, <2>3 DEF LastProbe
  <2>5. Program[1].arg \in SourcesOf(selected[turn])
    BY <1>3, <2>4, LastProbeIsSource
  <2> QED BY <2>1, <2>5 DEF Current
<1>6. CASE ip # 0
  <2>1. i < ip
    BY <1>1, <1>4, <1>6
  <2> QED BY <1>3, <2>1 DEF LoopInv
<1> QED BY <1>5, <1>6

\* A probe that was called is the last one, and its reading is of now unless it
\* failed.
LEMMA ProbeKeepsLoopInv ==
  ASSUME SafetyInv, LoopInv, Probe
  PROVE  LoopInv'
<1>1. /\ pc = "run" /\ pc' = pc /\ selected' = selected /\ turn' = turn /\ registry' = registry
      /\ gauge' = gauge /\ clock' = clock /\ since' = since
      /\ failed \subseteq failed' /\ (reading' = clock \/ Program[ip].arg \in failed')
      /\ ip \in DOMAIN Program /\ Program[ip].op \in {"measure", "check"}
      /\ (ip' = ip + 1 \/ (ip' = 0 /\ Program[ip].op = "check" /\ reading' < 0))
  BY DEF Probe, AtOp
<1>2. Program' = Program
  BY <1>1 DEF Program
<1>3. PICK n \in Nat : DOMAIN Program = 1 .. n
  BY <1>1, RunningBody
<1>4. PICK k \in DOMAIN Program : k = ip
  BY <1>1
<1>5. clock \in since .. clock /\ clock \in 1 .. MaxClock
  BY DEF SafetyInv, TypeOK
<1>6. \A g : Current(g) => Current(g)'
  BY <1>1 DEF Current
<1>7. \A t \in 1 .. turn - 1 : Current(selected[t])'
  BY <1>1, <1>6 DEF LoopInv, Current
<1>8. CASE ip' = 0
  <2>1. Program[k].op = "check" /\ reading' < 0
    BY <1>1, <1>3, <1>4, <1>8
  <2>2. k = 1
    BY <1>1, <2>1, RunningBody, ProbesComeFirst DEF IsProbe
  <2>3. reading' # clock
    BY <1>5, <2>1
  <2>4. (Program[1].op = "check" /\ Program[1].arg \in failed)'
    BY <1>1, <1>2, <1>4, <2>1, <2>2, <2>3
  <2> QED BY <1>1, <1>2, <1>3, <1>7, <1>8, <2>4 DEF LoopInv
<1>9. CASE ip' = ip + 1
  <2>1. LastProbe(k, ip)'
    BY <1>1, <1>2, <1>3, <1>4, <1>9 DEF LastProbe, IsProbe
  <2>2. (reading \in since .. clock \/ Program[k].arg \in failed)'
    BY <1>1, <1>2, <1>4, <1>5
  <2>3. \A i \in DOMAIN Program : i < ip' /\ Program[i].op = "set" => i < ip
    BY <1>1, <1>3, <1>9
  <2>4. ASSUME NEW i \in DOMAIN Program, i < ip', Program[i].op = "set"
        PROVE  Current(Program[i].arg)'
    <3>1. PICK g : g = Program[i].arg
      OBVIOUS
    <3>2. Current(g)'
      BY <1>1, <1>6, <2>3, <2>4, <3>1 DEF LoopInv
    <3> QED BY <1>2, <3>1, <3>2 DEF Current
  <2> QED BY <1>1, <1>2, <1>3, <1>4, <1>7, <1>9, <2>1, <2>2, <2>4 DEF LoopInv
<1> QED BY <1>1, <1>8, <1>9

\* The steps of the mutex move on over no probe.
LEMMA MutexKeepsLoopInv ==
  ASSUME SafetyInv, LoopInv, MutexLock \/ MutexUnlock
  PROVE  LoopInv'
<1>1. /\ pc = "run" /\ pc' = pc /\ selected' = selected /\ turn' = turn /\ registry' = registry
      /\ gauge' = gauge /\ clock' = clock /\ since' = since
      /\ failed' = failed /\ reading' = reading /\ ip' = ip + 1
      /\ ip \in DOMAIN Program /\ Program[ip].op \in {"lock", "unlock"}
  BY DEF MutexLock, MutexUnlock, AtOp
<1>2. Program' = Program
  BY <1>1 DEF Program
<1>3. PICK n \in Nat : DOMAIN Program = 1 .. n
  BY <1>1, RunningBody
<1>4. ip > 1 /\ ~IsProbe(Program[ip])
  BY <1>1, <1>3, RunningBody DEF IsProbe
<1>5. PICK k \in DOMAIN Program :
         LastProbe(k, ip) /\ (reading \in since .. clock \/ Program[k].arg \in failed)
  BY <1>1, <1>4 DEF LoopInv
<1>6. LastProbe(k, ip)'
  BY <1>1, <1>2, <1>3, <1>4, <1>5 DEF LastProbe, IsProbe
<1>7. (reading \in since .. clock \/ Program[k].arg \in failed)'
  BY <1>1, <1>2, <1>5
<1>8. \A g : Current(g) => Current(g)'
  BY <1>1 DEF Current
<1>9. \A t \in 1 .. turn - 1 : Current(selected[t])'
  BY <1>1, <1>8 DEF LoopInv, Current
<1>10. ASSUME NEW i \in DOMAIN Program, i < ip', Program[i].op = "set"
       PROVE  Current(Program[i].arg)'
  <2>1. PICK g : g = Program[i].arg
    OBVIOUS
  <2>2. i < ip
    BY <1>1, <1>3, <1>10
  <2>3. Current(g)'
    BY <1>1, <1>8, <1>10, <2>1, <2>2 DEF LoopInv
  <2> QED BY <1>2, <2>1, <2>3 DEF Current
<1> QED BY <1>1, <1>2, <1>3, <1>5, <1>6, <1>7, <1>9, <1>10 DEF LoopInv

\* A set stores the reading of the last probe.
LEMMA SetKeepsLoopInv ==
  ASSUME SafetyInv, LoopInv, GaugeSet
  PROVE  LoopInv'
<1>0. PICK g : g = Program[ip].arg
  OBVIOUS
<1>1. /\ pc = "run" /\ pc' \in {"run", "ending"} /\ selected' = selected /\ turn' = turn
      /\ registry' = registry /\ clock' = clock /\ since' = since
      /\ failed' = failed /\ reading' = reading
      /\ ip \in DOMAIN Program /\ Program[ip].op = "set"
      /\ (pc' = "run" => ip' = ip + 1)
      /\ (g \in registry => \E v \in Stored : gauge' = [gauge EXCEPT ![g] = v])
      /\ (g \notin registry => gauge' = gauge)
  BY <1>0 DEF GaugeSet, AtOp
<1>2. Program' = Program
  BY <1>1 DEF Program
<1>3. PICK n \in Nat : DOMAIN Program = 1 .. n
  BY <1>1, RunningBody
<1>4. ip > 1 /\ ~IsProbe(Program[ip])
  BY <1>1, <1>3, RunningBody DEF IsProbe
<1>5. PICK k \in DOMAIN Program :
         LastProbe(k, ip) /\ (reading \in since .. clock \/ Program[k].arg \in failed)
  BY <1>1, <1>4 DEF LoopInv
<1>6. Program[k].arg \in SourcesOf(g)
  BY <1>0, <1>1, <1>5, LastProbeIsSource
<1>7. Current(g)'
  <2>1. CASE Program[k].arg \in failed
    BY <1>1, <1>6, <2>1 DEF Current
  <2>2. CASE g \notin registry
    BY <1>1, <2>2 DEF Current
  <2>3. CASE reading \in since .. clock /\ g \in registry
    <3>1. Stored = {reading}
      BY <2>3, FaultsAssumption DEF Stored, SafetyInv, TypeOK
    <3>2. gauge' = [gauge EXCEPT ![g] = reading]
      BY <1>1, <2>3, <3>1
    <3>3. gauge'[g] = reading
      BY <2>3, <3>2 DEF SafetyInv, TypeOK
    <3> QED BY <1>1, <2>3, <3>3 DEF Current
  <2> QED BY <1>5, <2>1, <2>2, <2>3
<1>8. \A h : h # g => (Current(h) => Current(h)')
  <2>1. \A h \in Metrics : h # g => gauge'[h] = gauge[h]
    BY <1>1 DEF SafetyInv, TypeOK
  <2>2. registry \subseteq Metrics
    BY DEF SafetyInv, TypeOK
  <2> QED BY <1>1, <2>1, <2>2 DEF Current
<1>9. \A h : Current(h) => Current(h)'
  BY <1>7, <1>8
<1>10. CASE pc' = "run"
  <2>1. LastProbe(k, ip)'
    BY <1>1, <1>2, <1>3, <1>4, <1>5, <1>10 DEF LastProbe, IsProbe
  <2>2. (reading \in since .. clock \/ Program[k].arg \in failed)'
    BY <1>1, <1>2, <1>5
  <2>3. \A t \in 1 .. turn - 1 : Current(selected[t])'
    BY <1>1, <1>9 DEF LoopInv, Current
  <2>4. ASSUME NEW i \in DOMAIN Program, i < ip', Program[i].op = "set"
        PROVE  Current(Program[i].arg)'
    <3>1. PICK h : h = Program[i].arg
      OBVIOUS
    <3>2. i < ip \/ i = ip
      BY <1>1, <1>3, <1>10, <2>4
    <3>3. Current(h)'
      BY <1>0, <1>1, <1>7, <1>9, <2>4, <3>1, <3>2 DEF LoopInv
    <3> QED BY <1>2, <3>1, <3>3 DEF Current
  <2> QED BY <1>1, <1>2, <1>3, <1>5, <1>10, <2>1, <2>2, <2>3, <2>4 DEF LoopInv
<1>11. CASE pc' = "ending"
  BY <1>11 DEF LoopInv
<1> QED BY <1>1, <1>10, <1>11

\* A function returns to the loop, or the loop begins again.
LEMMA TurnKeepsLoopInv ==
  ASSUME SafetyInv, LoopInv, FunctionReturns \/ SleepEnds \/ ResolveFunctions
  PROVE  LoopInv'
<1>1. selected' = selected /\ registry' = registry /\ gauge' = gauge /\ clock' = clock
  BY DEF FunctionReturns, SleepEnds, ResolveFunctions
<1>2. turn \in 1 .. Len(selected) /\ DOMAIN selected = 1 .. Len(selected)
  BY SelectionsAssumption DEF SafetyInv, TypeOK
<1>3. CASE FunctionReturns
  <2>1. Current(selected[turn])
    BY <1>3, DoneIsCurrent DEF FunctionReturns
  <2>2. \A t \in 1 .. turn : Current(selected[t])
    BY <1>2, <1>3, <2>1 DEF FunctionReturns, LoopInv
  <2>3. \A t \in 1 .. turn : Current(selected[t])'
    <3>1. since' = since /\ failed' = failed
      BY <1>3 DEF FunctionReturns
    <3>2. \A g : Current(g) => Current(g)'
      BY <1>1, <3>1 DEF Current
    <3> QED BY <1>1, <2>2, <3>2 DEF Current
  <2>4. ip' = 1
    BY <1>3 DEF FunctionReturns
  <2>5. CASE turn = Len(selected)
    <3>1. pc' = "sleep" /\ turn' = 1
      BY <1>3, <2>5 DEF FunctionReturns, LastTurn
    <3> QED BY <1>1, <1>2, <2>3, <2>4, <2>5, <3>1 DEF LoopInv
  <2>6. CASE turn # Len(selected)
    <3>1. pc' = "run" /\ turn' = turn + 1
      BY <1>3, <2>6 DEF FunctionReturns, LastTurn
    <3>2. \A i \in DOMAIN Program' : ~(i < ip')
      <4>1. SafetyInv'
        BY <1>3, StepTypeOK, LaterSteps DEF SafetyInv, Next, Main, FunctionReturns,
           RegisterMetric, CreateThreads, ResolveFunctions
      <4>2. \E n \in Nat : DOMAIN Program' = 1 .. n
        BY <3>1, <4>1, MetricsHaveFunctions, BodiesAreSequences
           DEF Program, SafetyInv, StartupInv, TypeOK, Accepted, Names
      <4> QED BY <2>4, <4>2
    <3> QED BY <1>1, <1>2, <2>3, <2>4, <3>1, <3>2 DEF LoopInv
  <2> QED BY <2>5, <2>6
<1>4. CASE SleepEnds \/ ResolveFunctions
  <2>1. turn' = 1 /\ ip' = 1 /\ pc' \in {"run", "ending"}
    BY <1>4 DEF SleepEnds, ResolveFunctions, LoopInv
  <2>2. CASE pc' = "run"
    <3>1. \A i \in DOMAIN Program' : ~(i < ip')
      <4>1. SafetyInv'
        BY <1>4, StepTypeOK, StartupSteps, LaterSteps DEF SafetyInv, Next, Main, SleepEnds,
           RegisterMetric, CreateThreads, ResolveFunctions
      <4>2. \E n \in Nat : DOMAIN Program' = 1 .. n
        BY <2>2, <4>1, MetricsHaveFunctions, BodiesAreSequences
           DEF Program, SafetyInv, StartupInv, TypeOK, Accepted, Names
      <4> QED BY <2>1, <4>2
    <3> QED BY <2>1, <2>2, <3>1 DEF LoopInv
  <2>3. CASE pc' = "ending"
    BY <2>3 DEF LoopInv
  <2> QED BY <2>1, <2>2, <2>3
<1> QED BY <1>3, <1>4

\* The steps that are not the loop's.
LEMMA OthersKeepLoopInv ==
  ASSUME SafetyInv, LoopInv,
         \/ RegisterMetric \/ CreateThreads \/ ProcessEnds
         \/ Daemon \/ BeginScrape \/ Tick \/ UNCHANGED vars
  PROVE  LoopInv'
<1>1. CASE RegisterMetric \/ CreateThreads
  BY <1>1 DEF RegisterMetric, CreateThreads, LoopInv
<1>2. CASE ProcessEnds
  BY <1>2 DEF ProcessEnds, LoopInv
<1>3. CASE Daemon \/ BeginScrape \/ Tick \/ UNCHANGED vars
  <2>1. /\ pc' = pc /\ selected' = selected /\ turn' = turn /\ ip' = ip /\ reading' = reading
        /\ registry' = registry /\ gauge' = gauge /\ since' = since /\ failed' = failed
        /\ clock' \in {clock, clock + 1}
    BY <1>3 DEF Daemon, StartDaemon, BeginScrape, ReadGauge, EndScrape, Tick, vars, mainVars
  <2>2. since .. clock \subseteq (since .. clock)'
    BY <2>1 DEF SafetyInv, TypeOK
  <2>3. Program' = Program
    BY <2>1 DEF Program
  <2>4. \A g : Current(g) => Current(g)'
    BY <2>1, <2>2 DEF Current
  <2>5. \A t \in DOMAIN selected : Current(selected[t]) => Current(selected[t])'
    BY <2>1, <2>4 DEF Current
  <2>6. \A i \in DOMAIN Program : Current(Program[i].arg) => Current(Program[i].arg)'
    BY <2>1, <2>3, <2>4 DEF Current
  <2>7. \A k : LastProbe(k, ip)' <=> LastProbe(k, ip)
    BY <2>1, <2>3 DEF LastProbe
  <2>8. turn \in DOMAIN selected /\ DOMAIN selected = 1 .. Len(selected)
    BY SelectionsAssumption DEF SafetyInv, TypeOK
  <2> QED BY <2>1, <2>2, <2>3, <2>5, <2>6, <2>7, <2>8 DEF LoopInv
<1> QED BY <1>1, <1>2, <1>3

\* The invariant of the update loop.
LEMMA LoopInvariant == Safe => []LoopInv
<1>1. Init => LoopInv
  BY DEF Init, LoopInv
<1>2. SafetyInv /\ LoopInv /\ [Next]_vars => LoopInv'
  BY ProbeKeepsLoopInv, MutexKeepsLoopInv, SetKeepsLoopInv, TurnKeepsLoopInv,
     OthersKeepLoopInv DEF Next, Main
<1> QED BY <1>1, <1>2, SafetyInvariant, PTL DEF Safe

\* When the loop goes to sleep, a gauge is stale only if the probe it shows failed in
\* the cycle that ends, whatever was selected and whichever probes fail.
THEOREM CyclesRefresh == Spec => []CycleRefreshesAll
<1>1. SafetyInv /\ EndInv /\ LoopInv => CycleRefreshesAll
  <2> SUFFICES ASSUME SafetyInv, EndInv, LoopInv, pc = "sleep", NEW g \in registry,
                      SourcesOf(g) \cap failed = {}
               PROVE  gauge[g] \in since .. clock
    BY DEF CycleRefreshesAll
  <2>1. PICK t \in DOMAIN selected : selected[t] = g
    BY DEF EndInv, Registered, Names
  <2> QED BY <2>1 DEF LoopInv, Current
<1> QED BY <1>1, EndInvariant, LoopInvariant, PTL DEF Spec

-----------------------------------------------------------------------------
(* The mutex.                                                              *)

Guarded(step) == step.op \in {"set", "unlock"}

\* A guarded step comes after a lock or a set, and a lock or a set is followed by
\* one; nothing else is.
Brackets(b) ==
  \A i \in DOMAIN b :
    IF b[i].op \in {"lock", "set"} THEN i + 1 \in DOMAIN b /\ Guarded(b[i + 1])
                                  ELSE i + 1 \in DOMAIN b => ~Guarded(b[i + 1])

\* Every body locks and unlocks in turns, and sets between the two.
LEMMA BodiesAreBracketed == \A f \in UpdateFunctions : Brackets(Body[f])
<1> SUFFICES ASSUME NEW f \in UpdateFunctions PROVE Brackets(Body[f])
  OBVIOUS
<1> USE DEF Body, measure, check, set, lock_, unlock_, Guarded, Brackets
<1>1. CASE f = "update_network_traffic_metric"
  BY <1>1 DEF update_network_traffic_metric
<1>2. CASE f = "update_memory_metrics"
  BY <1>2 DEF update_memory_metrics
<1>3. CASE f = "update_disk_stats_metrics"
  BY <1>3 DEF update_disk_stats_metrics
<1>4. CASE f = "update_context_switches_metric"
  BY <1>4 DEF update_context_switches_metric
<1>5. CASE f = "update_process_states_gauge"
  BY <1>5 DEF update_process_states_gauge
<1>6. CASE \E p, g : Body[f] = update_checked(p, g)
  BY <1>6 DEF update_checked
<1>7. CASE f \notin {"update_network_traffic_metric", "update_memory_metrics",
                    "update_disk_stats_metrics", "update_context_switches_metric",
                    "update_process_states_gauge"}
  BY <1>6, <1>7
     DEF UpdateFunctions, update_cpu_gauge, update_memory_gauge,
         update_disk_gauge, update_running_processes_gauge,
         update_cpu_temperature, update_battery_voltage, update_battery_current,
         update_cpu_frequency, update_cpu_fan_speed, update_gpu_fan_speed
<1> QED BY <1>1, <1>2, <1>3, <1>4, <1>5, <1>7

\* The mutex is held at the guarded steps of a body and nowhere else, but where a
\* set has ended the process.
MutexInv ==
  /\ pc \in {"init", "threads", "resolve", "sleep"} => lock = "free"
  /\ pc = "run" => lock = IF ip \in DOMAIN Program /\ Guarded(Program[ip])
                          THEN "main" ELSE "free"

\* A step of a body, or its early return.
LEMMA BodyKeepsMutexInv ==
  ASSUME SafetyInv, MutexInv, Probe \/ MutexLock \/ GaugeSet \/ MutexUnlock
  PROVE  MutexInv'
<1>1. /\ pc = "run" /\ pc' \in {"run", "ending"} /\ selected' = selected /\ turn' = turn
      /\ ip \in DOMAIN Program
      /\ pc' = "run" => ip' = ip + 1 \/ (ip' = 0 /\ Probe)
  BY DEF Probe, MutexLock, GaugeSet, MutexUnlock, AtOp
<1>2. Program' = Program
  BY <1>1 DEF Program
<1>3. PICK n \in Nat : DOMAIN Program = 1 .. n
  BY <1>1, RunningBody
<1>4. PICK op : op = Program[ip].op
  OBVIOUS
<1>5. /\ op \in {"measure", "check"} => lock' = lock
      /\ op = "lock" => lock' = "main"
      /\ op = "set" => lock' = lock
      /\ op = "unlock" => lock' = "free"
      /\ op \in {"measure", "check", "lock", "set", "unlock"}
      /\ Probe => op \in {"measure", "check"}
  BY <1>4 DEF Probe, MutexLock, GaugeSet, MutexUnlock, AtOp
<1>6. lock = IF op \in {"set", "unlock"} THEN "main" ELSE "free"
  BY <1>1, <1>4 DEF MutexInv, Guarded
<1>7. lock' = IF op \in {"lock", "set"} THEN "main" ELSE "free"
  BY <1>5, <1>6
<1>8. CASE pc' = "run" /\ ip' = ip + 1
  <2>1. IF op \in {"lock", "set"} THEN ip + 1 \in DOMAIN Program /\ Guarded(Program[ip + 1])
                                 ELSE ip + 1 \in DOMAIN Program => ~Guarded(Program[ip + 1])
    BY <1>1, <1>4, RunningBody, BodiesAreBracketed DEF Brackets
  <2>2. lock' = IF ip' \in DOMAIN Program' /\ Guarded(Program'[ip']) THEN "main" ELSE "free"
    BY <1>2, <1>7, <1>8, <2>1
  <2> QED BY <1>8, <2>2 DEF MutexInv, Guarded
<1>9. CASE pc' = "run" /\ ip' = 0
  <2>1. lock' = "free" /\ ip' \notin DOMAIN Program'
    BY <1>1, <1>2, <1>3, <1>5, <1>7, <1>9, BoundsAssumption DEF SafetyInv, TypeOK
  <2> QED BY <1>9, <2>1 DEF MutexInv
<1>10. CASE pc' = "ending"
  BY <1>10 DEF MutexInv
<1> QED BY <1>1, <1>8, <1>9, <1>10

\* Every step keeps it.
LEMMA StepMutexInv ==
  ASSUME SafetyInv, LoopInv, MutexInv, [Next]_vars
  PROVE  MutexInv'
<1>0. SafetyInv'
  BY StepTypeOK, StartupSteps, LaterSteps DEF SafetyInv
<1>1. CASE Probe \/ MutexLock \/ GaugeSet \/ MutexUnlock
  BY <1>1, BodyKeepsMutexInv
<1>2. CASE FunctionReturns \/ SleepEnds \/ ResolveFunctions
  <2>1. lock' = lock /\ lock = "free"
    BY <1>2 DEF FunctionReturns, SleepEnds, ResolveFunctions, MutexInv
  <2>2. ip' = 1 /\ pc' \in {"run", "sleep", "ending"}
    BY <1>2 DEF FunctionReturns, SleepEnds, ResolveFunctions, LoopInv
  <2>3. ASSUME pc' = "run" PROVE ~Guarded(Program'[1])
    <3>1. Program' = Body[update_function(selected'[turn'])]
          /\ update_function(selected'[turn']) \in UpdateFunctions
      BY <1>0, <2>3, MetricsHaveFunctions DEF Program, SafetyInv, StartupInv, TypeOK, Accepted, Names
    <3> QED BY <3>1, ProbesComeFirst DEF IsProbe, Guarded
  <2> QED BY <2>1, <2>2, <2>3 DEF MutexInv
<1>3. CASE RegisterMetric \/ CreateThreads \/ ProcessEnds
  BY <1>3 DEF RegisterMetric, CreateThreads, ProcessEnds, MutexInv
<1>4. CASE Daemon \/ BeginScrape \/ Tick \/ UNCHANGED vars
  BY <1>4 DEF Daemon, StartDaemon, BeginScrape, ReadGauge, EndScrape, Tick, vars, mainVars,
              MutexInv, Program
<1> QED BY <1>1, <1>2, <1>3, <1>4 DEF Next, Main

\* Whatever is selected and whichever function returns early, the updating thread
\* never waits for a mutex it holds, does not take it to sleep, and sets every gauge
\* under it.
THEOREM MutexIsKeptInOrder == Spec => []MutexDiscipline
<1>1. Init => MutexInv
  BY DEF Init, MutexInv
<1>2. SafetyInv /\ LoopInv /\ MutexInv /\ [Next]_vars => MutexInv'
  BY StepMutexInv
<1>3. MutexInv => MutexDiscipline
  BY DEF MutexInv, MutexDiscipline, AtOp, Guarded
<1> QED BY <1>1, <1>2, <1>3, SafetyInvariant, LoopInvariant, PTL DEF Spec, Safe

-----------------------------------------------------------------------------
(* What a gauge can show.                                                  *)

\* Wherever a tested probe is called, its result is tested.
LEMMA TestedAreChecked ==
  \A f \in UpdateFunctions : \A i \in DOMAIN Body[f] :
    Body[f][i].arg \in TestedProbes => Body[f][i].op # "measure"
<1> SUFFICES ASSUME NEW f \in UpdateFunctions, NEW i \in DOMAIN Body[f],
                    Body[f][i].op = "measure"
             PROVE  Body[f][i].arg \notin TestedProbes
  OBVIOUS
<1> USE DEF Body, measure, check, set, lock_, unlock_, TestedProbes
<1>1. CASE f = "update_network_traffic_metric"
  BY <1>1 DEF update_network_traffic_metric
<1>2. CASE f = "update_memory_metrics"
  BY <1>2 DEF update_memory_metrics
<1>3. CASE f = "update_disk_stats_metrics"
  BY <1>3 DEF update_disk_stats_metrics
<1>4. CASE f = "update_context_switches_metric"
  BY <1>4 DEF update_context_switches_metric
<1>5. CASE f = "update_process_states_gauge"
  BY <1>5 DEF update_process_states_gauge
<1>6. CASE \E p, g : Body[f] = update_checked(p, g)
  BY <1>6 DEF update_checked
<1>7. CASE f \notin {"update_network_traffic_metric", "update_memory_metrics",
                    "update_disk_stats_metrics", "update_context_switches_metric",
                    "update_process_states_gauge"}
  BY <1>6, <1>7
     DEF UpdateFunctions, update_cpu_gauge, update_memory_gauge,
         update_disk_gauge, update_running_processes_gauge,
         update_cpu_temperature, update_battery_voltage, update_battery_current,
         update_cpu_frequency, update_cpu_fan_speed, update_gpu_fan_speed
<1> QED BY <1>1, <1>2, <1>3, <1>4, <1>5, <1>7

\* A failure of one of them is negative.
LEMMA TestedFailures == \A p \in TestedProbes : \A v \in Failure(p) : v \in Int /\ v < 0
BY DEF TestedProbes, Failure

\* Nothing that a reliable gauge shows is newer than t, or no measurement.
ShownBy(t) == \A g \in Reliable : gauge[g] # NoSample => gauge[g] \in 1 .. t

Unnoticed(p) == p \in Faulty /\ p \notin TestedProbes

\* Past a probe that does not fail unnoticed, a body holds the newest measurement,
\* or it has returned.
MeasuredInv ==
  /\ ShownBy(clock)
  /\ pc = "run" /\ ip > 1 =>
       \A k \in DOMAIN Program : LastProbe(k, ip) /\ ~Unnoticed(Program[k].arg) =>
         reading \in 1 .. clock /\ ShownBy(reading)

\* An error of a tested probe makes the function return.
LEMMA ProbeKeepsMeasuredInv ==
  ASSUME SafetyInv, MeasuredInv, Probe
  PROVE  MeasuredInv'
<1> DEFINE p == Program[ip].arg
<1>1. /\ gauge' = gauge /\ clock' = clock /\ ip \in DOMAIN Program /\ pc = "run"
      /\ selected' = selected /\ turn' = turn
      /\ Program[ip].op \in {"measure", "check"}
      /\ reading' \in Returns(p)
      /\ ip' = IF Program[ip].op = "check" /\ reading' < 0 THEN 0 ELSE ip + 1
  BY DEF Probe, AtOp
<1>2. Program' = Program
  BY <1>1 DEF Program
<1>3. PICK n \in Nat : DOMAIN Program = 1 .. n
  BY <1>1, RunningBody
<1>4. clock \in 1 .. MaxClock /\ ShownBy(clock)
  BY DEF MeasuredInv, SafetyInv, TypeOK
<1>5. ShownBy(clock)'
  BY <1>1, <1>4 DEF ShownBy
<1>6. CASE Unnoticed(p) \/ reading' = clock
  <2>1. ASSUME NEW k \in DOMAIN Program, LastProbe(k, ip)', ~Unnoticed(Program[k].arg), ip' > 1
        PROVE  (reading \in 1 .. clock)' /\ ShownBy(reading)'
    <3>1. k = ip
      BY <1>1, <1>2, <1>3, <2>1 DEF LastProbe, IsProbe
    <3>2. reading' = clock
      BY <1>6, <2>1, <3>1
    <3> QED BY <1>1, <1>4, <3>2, BoundsAssumption DEF ShownBy
  <2> QED BY <1>1, <1>2, <1>5, <2>1 DEF MeasuredInv, Unnoticed
<1>7. CASE ~Unnoticed(p) /\ reading' # clock
  <2>1. p \in Faulty /\ p \in TestedProbes /\ reading' \in Failure(p)
    BY <1>1, <1>7 DEF Returns, Unnoticed
  <2>2. reading' \in Int /\ reading' < 0
    BY <2>1, TestedFailures
  <2>3. Program[ip].op = "check"
    BY <1>1, <2>1, TestedAreChecked, RunningBody
  <2>4. ip' = 0
    BY <1>1, <2>2, <2>3
  <2> QED BY <1>5, <2>4 DEF MeasuredInv
<1> QED BY <1>6, <1>7

\* What is set is what was measured last; a reliable gauge is set to nothing else.
LEMMA SetOfReliableGauge ==
  ASSUME SafetyInv, LoopInv, MeasuredInv, GaugeSet, NEW g \in Reliable, Program[ip].arg = g,
         g \in registry
  PROVE  /\ gauge' = [gauge EXCEPT ![g] = reading]
         /\ reading \in 1 .. clock /\ ShownBy(reading)
<1>1. /\ pc = "run" /\ ip \in DOMAIN Program /\ Program[ip].op = "set"
      /\ \E v \in Stored : gauge' = [gauge EXCEPT ![g] = v]
  BY DEF GaugeSet, AtOp
<1>2. ip > 1
  <2>1. PICK n \in Nat : DOMAIN Program = 1 .. n
    BY <1>1, RunningBody
  <2> QED BY <1>1, <2>1, RunningBody DEF IsProbe
<1>3. PICK k \in DOMAIN Program : LastProbe(k, ip)
  BY <1>1, <1>2 DEF LoopInv
<1>4. Program[k].arg \in SourcesOf(g)
  BY <1>1, <1>3, LastProbeIsSource
<1>5. ~Unnoticed(Program[k].arg)
  BY <1>4 DEF Unnoticed, Reliable
<1>6. reading \in 1 .. clock /\ ShownBy(reading)
  BY <1>1, <1>2, <1>3, <1>5 DEF MeasuredInv
<1>7. Stored = {reading}
  BY <1>6, FaultsAssumption DEF Stored
<1> QED BY <1>1, <1>6, <1>7

\* So a set keeps the order of the measurements.
LEMMA SetKeepsMeasuredInv ==
  ASSUME SafetyInv, LoopInv, MeasuredInv, GaugeSet
  PROVE  MeasuredInv'
<1>0. PICK g : g = Program[ip].arg
  OBVIOUS
<1>1. /\ pc = "run" /\ clock' = clock /\ reading' = reading /\ registry' = registry
      /\ selected' = selected /\ turn' = turn
      /\ ip \in DOMAIN Program /\ Program[ip].op = "set"
      /\ (pc' = "run" => ip' = ip + 1)
      /\ gauge' = gauge \/ (g \in registry /\ \E v \in Stored : gauge' = [gauge EXCEPT ![g] = v])
  BY <1>0 DEF GaugeSet, AtOp
<1>2. Program' = Program
  BY <1>1 DEF Program
<1>3. ASSUME NEW t \in Int, ShownBy(t),
             g \in Reliable /\ g \in registry => reading \in 1 .. t
      PROVE  \A h \in Reliable : gauge'[h] # NoSample => gauge'[h] \in 1 .. t
  <2> SUFFICES ASSUME NEW h \in Reliable, gauge'[h] # NoSample PROVE gauge'[h] \in 1 .. t
    OBVIOUS
  <2>1. h \in Metrics /\ gauge \in [Metrics -> Samples]
    BY DEF Reliable, SafetyInv, TypeOK
  <2>2. CASE gauge'[h] = gauge[h]
    BY <1>3, <2>2 DEF ShownBy
  <2>3. CASE gauge'[h] # gauge[h]
    <3>1. h = g /\ g \in registry
      BY <1>1, <2>1, <2>3
    <3>2. gauge' = [gauge EXCEPT ![g] = reading]
      BY <1>0, <3>1, SetOfReliableGauge
    <3> QED BY <1>3, <2>1, <3>1, <3>2
  <2> QED BY <2>2, <2>3
<1>4. g \in Reliable /\ g \in registry => reading \in 1 .. clock
  BY <1>0, SetOfReliableGauge
<1>5. clock \in Int /\ ShownBy(clock)
  BY DEF MeasuredInv, SafetyInv, TypeOK
<1>6. ShownBy(clock)'
  BY <1>1, <1>3, <1>4, <1>5 DEF ShownBy
<1>7. ASSUME pc' = "run", ip' > 1, NEW k \in DOMAIN Program, LastProbe(k, ip)',
             ~Unnoticed(Program[k].arg)
      PROVE  (reading \in 1 .. clock)' /\ ShownBy(reading)'
  <2>1. PICK n \in Nat : DOMAIN Program = 1 .. n
    BY <1>1, RunningBody
  <2>2. ip > 1 /\ LastProbe(k, ip)
    BY <1>1, <1>2, <1>7, <2>1, RunningBody DEF LastProbe, IsProbe
  <2>3. reading \in 1 .. clock /\ ShownBy(reading)
    BY <1>1, <1>7, <2>2 DEF MeasuredInv
  <2>4. reading \in Int /\ reading \in 1 .. reading
    BY <1>5, <2>3
  <2> QED BY <1>1, <1>3, <2>3, <2>4 DEF ShownBy
<1> QED BY <1>2, <1>6, <1>7 DEF MeasuredInv, Unnoticed

\* The steps of the mutex move on over no probe.
LEMMA MutexKeepsMeasuredInv ==
  ASSUME SafetyInv, MeasuredInv, MutexLock \/ MutexUnlock
  PROVE  MeasuredInv'
<1>1. /\ pc = "run" /\ gauge' = gauge /\ clock' = clock /\ reading' = reading /\ pc' = pc
      /\ selected' = selected /\ turn' = turn /\ ip' = ip + 1
      /\ ip \in DOMAIN Program /\ Program[ip].op \notin {"measure", "check"}
  BY DEF MutexLock, MutexUnlock, AtOp
<1>2. Program' = Program
  BY <1>1 DEF Program
<1>3. \A t : ShownBy(t) => \A g \in Reliable : gauge'[g] # NoSample => gauge'[g] \in 1 .. t
  BY <1>1 DEF ShownBy
<1>4. PICK n \in Nat : DOMAIN Program = 1 .. n
  BY <1>1, RunningBody
<1>5. ip > 1
  BY <1>1, <1>4, RunningBody DEF IsProbe
<1>6. \A k \in DOMAIN Program : LastProbe(k, ip)' => LastProbe(k, ip)
  BY <1>1, <1>2, <1>4 DEF LastProbe, IsProbe
<1>7. ShownBy(clock)'
  BY <1>1, <1>3 DEF MeasuredInv, ShownBy
<1>8. ASSUME NEW k \in DOMAIN Program, LastProbe(k, ip)', ~Unnoticed(Program[k].arg)
      PROVE  (reading \in 1 .. clock)' /\ ShownBy(reading)'
  <2>1. reading \in 1 .. clock /\ ShownBy(reading)
    BY <1>1, <1>5, <1>6, <1>8 DEF MeasuredInv
  <2> QED BY <1>1, <1>3, <2>1 DEF ShownBy
<1> QED BY <1>2, <1>7, <1>8 DEF MeasuredInv, Unnoticed

\* Every step keeps it.
LEMMA StepMeasuredInv ==
  ASSUME SafetyInv, LoopInv, MeasuredInv, [Next]_vars
  PROVE  MeasuredInv'
<1>1. CASE Probe
  BY <1>1, ProbeKeepsMeasuredInv
<1>2. CASE GaugeSet
  BY <1>2, SetKeepsMeasuredInv
<1>3. CASE MutexLock \/ MutexUnlock
  BY <1>3, MutexKeepsMeasuredInv
<1>4. CASE FunctionReturns \/ SleepEnds \/ ResolveFunctions
  <2>1. ~(ip' > 1) /\ gauge' = gauge /\ clock' = clock
    BY <1>4 DEF FunctionReturns, SleepEnds, ResolveFunctions, LoopInv
  <2> QED BY <2>1 DEF MeasuredInv, ShownBy
<1>5. CASE RegisterMetric \/ CreateThreads \/ ProcessEnds
  <2>1. pc' # "run" /\ gauge' = gauge /\ clock' = clock
    BY <1>5 DEF RegisterMetric, CreateThreads, ProcessEnds
  <2> QED BY <2>1 DEF MeasuredInv, ShownBy
<1>6. CASE Daemon \/ BeginScrape \/ Tick \/ UNCHANGED vars
  <2>1. /\ pc' = pc /\ ip' = ip /\ reading' = reading /\ gauge' = gauge
        /\ selected' = selected /\ turn' = turn /\ clock' \in {clock, clock + 1}
    BY <1>6 DEF Daemon, StartDaemon, BeginScrape, ReadGauge, EndScrape, Tick, vars, mainVars
  <2>2. 1 .. clock \subseteq 1 .. clock'
    BY <2>1 DEF SafetyInv, TypeOK
  <2>3. Program' = Program
    BY <2>1 DEF Program
  <2>4. \A k : LastProbe(k, ip)' <=> LastProbe(k, ip)
    BY <2>1, <2>3 DEF LastProbe
  <2>5. ShownBy(clock)' /\ (ShownBy(reading) => ShownBy(reading)')
    BY <2>1, <2>2 DEF MeasuredInv, ShownBy
  <2> QED BY <2>1, <2>2, <2>3, <2>4, <2>5 DEF MeasuredInv, Unnoticed
<1> QED BY <1>1, <1>2, <1>3, <1>4, <1>5, <1>6 DEF Next, Main

\* The invariant of what the gauges show.
LEMMA MeasuredInvariant == Safe => [](SafetyInv /\ LoopInv /\ MeasuredInv)
<1>1. Init => MeasuredInv
  BY DEF Init, MeasuredInv, ShownBy, Blank, Reliable
<1>2. SafetyInv /\ LoopInv /\ MeasuredInv /\ [Next]_vars => MeasuredInv'
  BY StepMeasuredInv
<1> QED BY <1>1, <1>2, SafetyInvariant, LoopInvariant, PTL DEF Safe

\* As long as only probes fail whose errors are tested for, a gauge shows nothing
\* but measurements, whatever is selected and whenever they fail.
THEOREM OnlyMeasurementsAreShown ==
  Faulty \subseteq TestedProbes => (Spec => []OnlyMeasurements)
<1> SUFFICES ASSUME Faulty \subseteq TestedProbes PROVE Spec => []OnlyMeasurements
  OBVIOUS
<1>1. Reliable = Metrics
  BY DEF Reliable
<1>2. MeasuredInv => OnlyMeasurements
  BY <1>1 DEF MeasuredInv, ShownBy, OnlyMeasurements
<1> QED BY <1>2, MeasuredInvariant, PTL DEF Spec

-----------------------------------------------------------------------------
(* The board that is scraped.                                              *)

\* A set publishes a measurement of a reliable gauge, or changes none of them.
LEMMA SetPublishes ==
  ASSUME SafetyInv, LoopInv, MeasuredInv, GaugeSet
  PROVE  \/ UNCHANGED << clock, [g \in Reliable |-> gauge[g]], [g \in Reliable |-> got[g]] >>
         \/ \E g \in Reliable : Measurements!Publish(g)
<1> DEFINE shown == [g \in Reliable |-> gauge[g]]
<1>0. PICK g : g = Program[ip].arg
  OBVIOUS
<1>1. /\ clock' = clock /\ got' = got
      /\ gauge' = gauge \/ (g \in registry /\ \E v \in Stored : gauge' = [gauge EXCEPT ![g] = v])
  BY <1>0 DEF GaugeSet, scrapeVars
<1>2. gauge \in [Metrics -> Samples] /\ Reliable \subseteq Metrics
  BY DEF SafetyInv, TypeOK, Reliable
<1>3. CASE g \in Reliable /\ g \in registry
  <2>1. PICK r : r = reading /\ gauge' = [gauge EXCEPT ![g] = r] /\ r \in 1 .. clock
    BY <1>0, <1>3, SetOfReliableGauge
  <2>2. \A h \in Reliable : gauge[h] # NoSample => gauge[h] <= r
    <3>1. ShownBy(reading)
      BY <1>0, <1>3, SetOfReliableGauge
    <3> QED BY <2>1, <3>1 DEF ShownBy
  <2>3. shown' = [shown EXCEPT ![g] = r] /\ shown'[g] = r
    BY <1>2, <1>3, <2>1
  <2>4. Measurements!Publish(g)
    BY <1>1, <1>3, <2>1, <2>2, <2>3 DEF Measurements!Publish
  <2> QED BY <1>3, <2>4
<1>4. CASE ~(g \in Reliable /\ g \in registry)
  <2>1. \A h \in Reliable : gauge'[h] = gauge[h]
    BY <1>1, <1>2, <1>4
  <2> QED BY <1>1, <2>1
<1> QED BY <1>3, <1>4

\* The other steps of the main thread do not touch the board.
LEMMA OthersLeaveTheBoard ==
  ASSUME \/ RegisterMetric \/ CreateThreads \/ ResolveFunctions \/ Probe \/ MutexLock
         \/ MutexUnlock \/ FunctionReturns \/ SleepEnds \/ StartDaemon \/ BeginScrape
         \/ UNCHANGED vars
  PROVE  UNCHANGED << clock, gauge, got >>
BY DEF RegisterMetric, CreateThreads, ResolveFunctions, Probe, MutexLock, MutexUnlock,
       FunctionReturns, SleepEnds, StartDaemon, BeginScrape, vars, scrapeVars

\* Whatever is selected and whichever probes fail, the reliable gauges show
\* measurements only, in the order in which they were made, and a scrape copies them
\* one by one.
THEOREM ExporterImplementsGaugeBoard == Spec => ImplementsGaugeBoard
<1> DEFINE shown == [g \in Reliable |-> gauge[g]]
           page  == [g \in Reliable |-> got[g]]
           board == << clock, shown, page >>
<1>1. Init => Measurements!Init
  BY DEF Init, Blank, Reliable, Measurements!Init, Measurements!Empty
<1>2. ASSUME SafetyInv, LoopInv, MeasuredInv, [Next]_vars
      PROVE  [Measurements!Next]_board
  <2>1. CASE GaugeSet
    BY <2>1, <1>2, SetPublishes DEF Measurements!Next
  <2>2. CASE ReadGauge
    <3>1. PICK g \in todo : got' = [got EXCEPT ![g] = gauge[g]]
      BY <2>2 DEF ReadGauge
    <3>2. clock' = clock /\ gauge' = gauge
      BY <2>2 DEF ReadGauge
    <3>3. got \in [Metrics -> Samples] /\ Reliable \subseteq Metrics
      BY <1>2 DEF SafetyInv, TypeOK, Reliable
    <3>4. CASE g \in Reliable
      <4>1. page' = [page EXCEPT ![g] = shown[g]]
        BY <3>1, <3>2, <3>3, <3>4
      <4>2. Measurements!Copy(g)
        BY <3>2, <4>1 DEF Measurements!Copy
      <4> QED BY <3>4, <4>2 DEF Measurements!Next
    <3>5. CASE g \notin Reliable
      <4>1. \A h \in Reliable : got'[h] = got[h]
        BY <3>1, <3>3, <3>5
      <4> QED BY <3>2, <4>1
    <3> QED BY <3>4, <3>5
  <2>3. CASE EndScrape \/ ProcessEnds
    <3>1. clock' = clock /\ gauge' = gauge /\ got' = Blank
      BY <2>3 DEF EndScrape, ProcessEnds, history
    <3>2. page' = Measurements!Empty
      BY <3>1 DEF Blank, Reliable, Measurements!Empty
    <3> QED BY <3>1, <3>2 DEF Measurements!Next, Measurements!TurnPage
  <2>4. CASE Tick
    BY <2>4 DEF Tick, scrapeVars, Measurements!Next, Measurements!TimePasses
  <2>5. CASE \/ RegisterMetric \/ CreateThreads \/ ResolveFunctions \/ Probe \/ MutexLock
             \/ MutexUnlock \/ FunctionReturns \/ SleepEnds \/ StartDaemon \/ BeginScrape
             \/ UNCHANGED vars
    BY <2>5, OthersLeaveTheBoard
  <2> QED BY <1>2, <2>1, <2>2, <2>3, <2>4, <2>5 DEF Next, Main, Daemon
<1> QED
  BY <1>1, <1>2, MeasuredInvariant, PTL DEF Spec, Safe, ImplementsGaugeBoard, Measurements!Spec
=============================================================================
