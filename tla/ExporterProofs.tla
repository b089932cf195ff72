--------------------------- MODULE ExporterProofs ----------------------------
(***************************************************************************)
(* Proofs about Exporter for every selection, every set of faults and      *)
(* every bound on time.                                                    *)
(***************************************************************************)
EXTENDS Exporter, FiniteSetTheorems, TLAPS

USE DEF history

-----------------------------------------------------------------------------
(* The table and the bodies.                                               *)

\* Every row of all_metrics names an update function.
LEMMA RowsNameFunctions ==
  \A i \in DOMAIN all_metrics : all_metrics[i].update_function \in UpdateFunctions
BY DEF all_metrics, Row, UpdateFunctions, Body

\* A selected name that is in the table has an update function.
LEMMA MetricsHaveFunctions ==
  \A m \in Metrics : update_function(m) \in UpdateFunctions
BY RowsNameFunctions DEF Metrics, update_function

-----------------------------------------------------------------------------
(* Type correctness and the start-up.                                      *)

\* No metric occurs twice among the first n selected names.
NoRepeat(n) == \A i, j \in 1 .. n : selected[i] = selected[j] /\ selected[i] \in Metrics => i = j

\* What start_metrics_monitoring has established at each of its stages.
StartupInv ==
  /\ pc = "init" => /\ registry = Metrics \cap {selected[j] : j \in 1 .. turn - 1}
                    /\ NoRepeat(turn - 1)
  /\ pc \in {"threads", "resolve"} => NoRepeat(Len(selected))
  /\ pc \in {"run", "sleep"} => Accepted
  /\ http # "none" => pc \notin {"init", "threads"}
  /\ RejectedNeverSampled

SafetyInv == TypeOK /\ StartupInv

\* What a probe returns is a number or Uninitialised.
LEMMA ReturnsType ==
  ASSUME TypeOK, NEW p
  PROVE  Returns(p) \subseteq Int \cup {Uninitialised}
<1>1. ULL(-1) \in Int
  BY BoundsAssumption DEF ULL
<1>2. Failure(p) \subseteq Int \cup {Uninitialised}
  BY <1>1 DEF Failure
<1> QED BY <1>2 DEF Returns, TypeOK

\* What a set stores is a number.
LEMMA StoredType ==
  ASSUME TypeOK
  PROVE  Stored \subseteq Int
BY FaultsAssumption DEF Stored, TypeOK

\* The invariant holds when start_metrics_monitoring is called.
LEMMA InitSafetyInv == Init => SafetyInv
<1> SUFFICES ASSUME Init PROVE SafetyInv OBVIOUS
<1>1. selected \in Seq(STRING) /\ DOMAIN selected = 1 .. Len(selected) /\ Len(selected) > 0
  BY SelectionsAssumption DEF Init
<1>2. TypeOK
  <2>1. gauge \in [Metrics -> Samples] /\ got \in [Metrics -> Samples]
    BY DEF Init, Blank, Samples
  <2>2. turn \in DOMAIN selected /\ clock \in 1 .. MaxClock /\ since \in 1 .. clock
    BY <1>1, BoundsAssumption DEF Init
  <2>3. /\ pc \in {"init", "threads", "resolve", "run", "sleep", "ending", "exited"}
        /\ lock \in {"free", "main"} /\ http \in {"none", "starting", "up", "failed"}
        /\ status \in {"starting", "started", "thread_error", "no_update_function"}
        /\ selected \in Selections
    BY DEF Init
  <2>4. ip \in Nat /\ reading \in Int \cup {Uninitialised}
    BY DEF Init
  <2>5. registry \subseteq Metrics /\ todo \subseteq registry /\ scraping \in BOOLEAN
    BY DEF Init
  <2>6. IsFiniteSet(failed)
    BY FS_EmptySet DEF Init
  <2> QED BY <2>1, <2>2, <2>3, <2>4, <2>5, <2>6 DEF TypeOK
<1>3. 1 .. turn - 1 = {}
  BY DEF Init
<1>4. StartupInv
  BY <1>3 DEF Init, StartupInv, NoRepeat, RejectedNeverSampled
<1> QED BY <1>2, <1>4 DEF SafetyInv

\* Each action keeps the types.
LEMMA StepTypeOK == TypeOK /\ [Next]_vars => TypeOK'
<1> SUFFICES ASSUME TypeOK, [Next]_vars PROVE TypeOK'
  OBVIOUS
<1> selected \in Seq(STRING) /\ DOMAIN selected = 1 .. Len(selected) /\ Len(selected) > 0
  BY SelectionsAssumption DEF TypeOK
<1> USE DEF TypeOK
<1>1. CASE RegisterMetric
  BY <1>1 DEF RegisterMetric, LastTurn, scrapeVars
<1>2. CASE CreateThreads
  BY <1>2 DEF CreateThreads, scrapeVars
<1>3. CASE ResolveFunctions
  <2>1. pc' \in {"run", "ending"} /\ since' \in {since, clock}
    BY <1>3 DEF ResolveFunctions
  <2> QED BY <1>3, <2>1, FS_EmptySet DEF ResolveFunctions, scrapeVars
<1>4. CASE Probe
  <2>1. IsFiniteSet(failed')
    BY <1>4, FS_AddElement DEF Probe
  <2> QED BY <1>4, <2>1, ReturnsType DEF Probe, AtOp, scrapeVars
<1>5. CASE MutexLock
  BY <1>5 DEF MutexLock, AtOp, scrapeVars
<1>6. CASE GaugeSet
  BY <1>6, StoredType DEF GaugeSet, AtOp, Samples, scrapeVars
<1>7. CASE MutexUnlock
  BY <1>7 DEF MutexUnlock, AtOp, scrapeVars
<1>8. CASE FunctionReturns
  BY <1>8 DEF FunctionReturns, LastTurn, scrapeVars
<1>9. CASE SleepEnds
  BY <1>9, FS_EmptySet DEF SleepEnds, scrapeVars
<1>10. CASE ProcessEnds
  BY <1>10 DEF ProcessEnds, Blank, Samples
<1>11. CASE StartDaemon
  BY <1>11 DEF StartDaemon, mainVars, scrapeVars
<1>12. CASE BeginScrape
  BY <1>12 DEF BeginScrape, mainVars
<1>13. CASE ReadGauge
  BY <1>13 DEF ReadGauge, mainVars
<1>14. CASE EndScrape
  BY <1>14 DEF EndScrape, mainVars, Blank, Samples
<1>15. CASE Tick
  BY <1>15, BoundsAssumption DEF Tick, mainVars, scrapeVars
<1>16. CASE UNCHANGED vars
  BY <1>16 DEF vars
<1> QED
  BY <1>1, <1>2, <1>3, <1>4, <1>5, <1>6, <1>7, <1>8, <1>9, <1>10, <1>11,
     <1>12, <1>13, <1>14, <1>15, <1>16 DEF Next, Main, Daemon

\* A repeated metric is already registered when its turn comes, so the prefix
\* that was registered grows without a repetition.
LEMMA StartupSteps ==
  ASSUME SafetyInv, RegisterMetric \/ CreateThreads \/ ResolveFunctions
  PROVE  StartupInv'
<1> USE DEF SafetyInv, TypeOK
<1>1. selected \in Seq(STRING) /\ DOMAIN selected = 1 .. Len(selected)
  BY SelectionsAssumption
<1>2. CASE RegisterMetric
  <2> USE DEF StartupInv
  <2>1. NoRepeat(turn - 1) /\ registry = Metrics \cap {selected[j] : j \in 1 .. turn - 1}
        /\ pc = "init" /\ http = "none" /\ turn \in 1 .. Len(selected)
        /\ selected' = selected /\ http' = http
    BY <1>1, <1>2 DEF RegisterMetric
  <2>2. RejectedNeverSampled'
    BY <1>2, <2>1 DEF RegisterMetric, RejectedNeverSampled, Accepted, Names, scrapeVars
  <2>3. CASE selected[turn] \in registry
    <3>1. pc' = "ending"
      BY <1>2, <2>3 DEF RegisterMetric
    <3> QED BY <2>1, <2>2, <3>1
  <2>4. CASE selected[turn] \notin registry
    <3>1. NoRepeat(turn)
      BY <2>1, <2>4 DEF NoRepeat
    <3>2. registry' = Metrics \cap {selected[j] : j \in 1 .. turn}
      <4>1. 1 .. turn = (1 .. turn - 1) \cup {turn}
        BY <2>1
      <4>2. registry' = registry \cup ({selected[turn]} \cap Metrics)
        BY <1>2, <2>4 DEF RegisterMetric
      <4> QED BY <2>1, <4>1, <4>2
    <3>3. CASE LastTurn
      <4>1. pc' = "threads" /\ turn = Len(selected)
        BY <1>2, <2>4, <3>3 DEF RegisterMetric, LastTurn
      <4> QED BY <2>1, <2>2, <3>1, <4>1 DEF NoRepeat
    <3>4. CASE ~LastTurn
      <4>1. pc' = "init" /\ turn' = turn + 1 /\ turn' - 1 = turn
        BY <1>1, <1>2, <2>4, <3>4 DEF RegisterMetric
      <4> QED BY <2>1, <2>2, <3>1, <3>2, <4>1 DEF NoRepeat
    <3> QED BY <3>3, <3>4
  <2> QED BY <2>3, <2>4
<1>3. CASE CreateThreads
  BY <1>3 DEF CreateThreads, StartupInv, NoRepeat, RejectedNeverSampled,
              Accepted, Names, scrapeVars
<1>4. CASE ResolveFunctions
  <2>1. CASE AllResolved
    <3>1. Accepted
      BY <1>1, <1>4, <2>1
         DEF ResolveFunctions, AllResolved, StartupInv, NoRepeat, Accepted, Names
    <3>2. pc' = "run" /\ selected' = selected
      BY <1>4, <2>1 DEF ResolveFunctions
    <3> QED BY <3>1, <3>2 DEF StartupInv, RejectedNeverSampled, Accepted, Names
  <2>2. CASE ~AllResolved
    <3>1. pc' = "ending" /\ status' = "no_update_function" /\ selected' = selected
          /\ gauge' = gauge /\ got' = got
      BY <1>4, <2>2 DEF ResolveFunctions, scrapeVars
    <3> QED BY <3>1 DEF StartupInv, RejectedNeverSampled, Accepted, Names
  <2> QED BY <2>1, <2>2
<1> QED BY <1>2, <1>3, <1>4

\* The steps of the update loop and of the HTTP thread keep it: only an
\* accepted selection is ever sampled.
LEMMA LaterSteps ==
  ASSUME SafetyInv, [Next]_vars, ~RegisterMetric, ~CreateThreads, ~ResolveFunctions
  PROVE  StartupInv'
<1> USE DEF SafetyInv, StartupInv, RejectedNeverSampled, NoRepeat, Accepted, Names
<1>1. CASE Probe \/ MutexLock \/ GaugeSet \/ MutexUnlock
  BY <1>1 DEF Probe, MutexLock, GaugeSet, MutexUnlock, AtOp, scrapeVars
<1>2. CASE FunctionReturns \/ SleepEnds
  BY <1>2 DEF FunctionReturns, SleepEnds, scrapeVars
<1>3. CASE ProcessEnds
  BY <1>3 DEF ProcessEnds
<1>4. CASE StartDaemon \/ BeginScrape
  BY <1>4 DEF StartDaemon, BeginScrape, mainVars, scrapeVars
<1>5. CASE ReadGauge
  <2>1. gauge = Blank /\ got = Blank => got' = Blank
    BY <1>5 DEF ReadGauge, Blank
  <2> QED BY <1>5, <2>1 DEF ReadGauge, mainVars
<1>6. CASE EndScrape
  BY <1>6 DEF EndScrape, mainVars
<1>7. CASE Tick
  BY <1>7 DEF Tick, mainVars, scrapeVars
<1>8. CASE UNCHANGED vars
  BY <1>8 DEF vars
<1> QED
  BY <1>1, <1>2, <1>3, <1>4, <1>5, <1>6, <1>7, <1>8 DEF Next, Main, Daemon

\* Types, and what each stage of start_metrics_monitoring has established, hold
\* in every reachable state.
LEMMA SafetyInvariant == Safe => []SafetyInv
<1>1. SafetyInv /\ [Next]_vars => SafetyInv'
  BY StepTypeOK, StartupSteps, LaterSteps DEF SafetyInv
<1> QED BY InitSafetyInv, <1>1, PTL DEF Safe

-----------------------------------------------------------------------------
(* The four process gauges.                                                *)

States == "update_process_states_gauge"

\* The seven steps of the body that owns the group.
LEMMA StatesBody ==
  LET b == Body[States] IN
  /\ DOMAIN b = 1 .. 7
  /\ b[1] = measure("get_process_states") /\ b[2] = lock_
  /\ b[3] = set("total_processes") /\ b[4] = set("suspended_processes")
  /\ b[5] = set("ready_processes") /\ b[6] = set("blocked_processes")
  /\ b[7] = unlock_
BY DEF States, Body, update_process_states_gauge

\* No other update function sets a gauge of the group.
LEMMA OthersLeaveGroup ==
  \A f \in UpdateFunctions \ {States} : \A i \in DOMAIN Body[f] :
    Body[f][i].op = "set" => Body[f][i].arg \notin ProcessGauges
<1> SUFFICES ASSUME NEW f \in UpdateFunctions \ {States}, NEW i \in DOMAIN Body[f],
                    Body[f][i].op = "set"
             PROVE  Body[f][i].arg \notin ProcessGauges
  OBVIOUS
<1> USE DEF Body, measure, check, set, lock_, unlock_, ProcessGauges
<1>1. CASE f = "update_network_traffic_metric"
  BY <1>1 DEF update_network_traffic_metric
<1>2. CASE f = "update_memory_metrics"
  BY <1>2 DEF update_memory_metrics
<1>3. CASE f = "update_disk_stats_metrics"
  BY <1>3 DEF update_disk_stats_metrics
<1>4. CASE f = "update_context_switches_metric"
  BY <1>4 DEF update_context_switches_metric
<1>5. ASSUME NEW p, NEW g, Body[f] = update_checked(p, g), g \notin ProcessGauges
      PROVE  Body[f][i].arg \notin ProcessGauges
  BY <1>5 DEF update_checked
<1>6. CASE f \notin {"update_network_traffic_metric", "update_memory_metrics",
                    "update_disk_stats_metrics", "update_context_switches_metric"}
  BY <1>5, <1>6
     DEF UpdateFunctions, States, update_cpu_gauge, update_memory_gauge,
         update_disk_gauge, update_running_processes_gauge,
         update_cpu_temperature, update_battery_voltage, update_battery_current,
         update_cpu_frequency, update_cpu_fan_speed, update_gpu_fan_speed
<1> QED BY <1>1, <1>2, <1>3, <1>4, <1>6

Agree    == \A g, h \in ProcessGauges \cap registry : gauge[g] = gauge[h]
Holds(S) == \A g \in S \cap registry : gauge[g] = reading
InStates == pc = "run" /\ update_function(selected[turn]) = States
Critical == InStates /\ ip \in 3 .. 7

\* Inside the critical section the mutex is held and the gauges set so far
\* show the reading; outside it they agree.
GroupInv ==
  /\ pc = "init" => gauge = Blank
  /\ pc \in {"init", "threads", "resolve", "sleep"} => ip = 1
  /\ InStates /\ ip \in 2 .. 7 => reading # Uninitialised
  /\ Critical => lock = "main"
  /\ Critical /\ ip = 4 => Holds({"total_processes"})
  /\ Critical /\ ip = 5 => Holds({"total_processes", "suspended_processes"})
  /\ Critical /\ ip = 6 => Holds({"total_processes", "suspended_processes",
                                  "ready_processes"})
  /\ Critical /\ ip = 7 => Holds(ProcessGauges)
  /\ ~Critical /\ pc \notin {"ending", "exited"} => Agree
  /\ lock = "free" => Agree

\* The function that runs belongs to the table.
LEMMA RunningFunction ==
  ASSUME SafetyInv, pc = "run"
  PROVE  update_function(selected[turn]) \in UpdateFunctions
BY MetricsHaveFunctions DEF SafetyInv, StartupInv, TypeOK, Accepted, Names

\* No gauge is set when the exporter starts.
LEMMA InitGroupInv == Init => GroupInv
BY DEF Init, GroupInv, InStates, Critical, Agree

\* The four sets, one after the other, in the critical section.
LEMMA SetInGroup ==
  ASSUME SafetyInv, GroupInv, GaugeSet, InStates, "get_process_states" \notin Faulty
  PROVE  GroupInv'
<1>0. PICK g : g = Program[ip].arg
  OBVIOUS
<1>1. Program = Body[States] /\ selected' = selected /\ turn' = turn
      /\ registry' = registry /\ reading' = reading /\ lock' = lock /\ pc = "run"
  BY DEF Program, InStates, GaugeSet, scrapeVars
<1>2. ip \in 3 .. 6 /\ Critical
  BY <1>1, StatesBody
     DEF GaugeSet, AtOp, InStates, Critical, measure, set, lock_, unlock_
<1>3. /\ ip = 3 => g = "total_processes"
      /\ ip = 4 => g = "suspended_processes"
      /\ ip = 5 => g = "ready_processes"
      /\ ip = 6 => g = "blocked_processes"
  BY <1>0, <1>1, StatesBody DEF set
<1>4. lock' = "main"
  BY <1>1, <1>2 DEF GroupInv
<1>5. CASE pc' = "ending"
  BY <1>4, <1>5 DEF GroupInv, InStates, Critical
<1>6. CASE pc' = pc /\ ip' = ip + 1 /\ InStates'
  <2>1. \/ g \in registry /\ gauge' = [gauge EXCEPT ![g] = reading]
        \/ g \notin registry /\ gauge' = gauge
    BY <1>0, <1>2, <1>6 DEF GaugeSet, Stored, GroupInv, InStates, SafetyInv, TypeOK
  <2>2. gauge \in [Metrics -> Samples] /\ registry \subseteq Metrics
    BY DEF SafetyInv, TypeOK
  <2>3. ASSUME NEW S, Holds(S) PROVE Holds(S \cup {g})'
    <3> SUFFICES ASSUME NEW h \in (S \cup {g}) \cap registry
                 PROVE  gauge'[h] = reading
      BY <1>1 DEF Holds
    <3> QED BY <2>1, <2>2, <2>3 DEF Holds
  <2>4. Critical'
    BY <1>2, <1>6 DEF Critical
  <2>5. CASE ip = 3
    <3>1. Holds({}) BY DEF Holds
    <3>2. Holds({} \cup {g})'
      BY <2>3, <3>1
    <3>3. Holds({"total_processes"})'
      BY <1>3, <2>5, <3>2, {} \cup {g} = {g}
    <3> QED BY <1>1, <1>2, <1>4, <1>6, <2>4, <2>5, <3>3 DEF GroupInv, Critical
  <2>6. CASE ip = 4
    <3>1. Holds({"total_processes"} \cup {g})'
      BY <1>2, <2>3, <2>6 DEF GroupInv
    <3>2. {"total_processes"} \cup {g} = {"total_processes", "suspended_processes"}
      BY <1>3, <2>6
    <3>3. Holds({"total_processes", "suspended_processes"})'
      BY <3>1, <3>2
    <3> QED BY <1>1, <1>2, <1>4, <1>6, <2>4, <2>6, <3>3 DEF GroupInv, Critical
  <2>7. CASE ip = 5
    <3>1. Holds({"total_processes", "suspended_processes"} \cup {g})'
      BY <1>2, <2>3, <2>7 DEF GroupInv
    <3>2. {"total_processes", "suspended_processes"} \cup {g} = {"total_processes", "suspended_processes", "ready_processes"}
      BY <1>3, <2>7
    <3>3. Holds({"total_processes", "suspended_processes", "ready_processes"})'
      BY <3>1, <3>2
    <3> QED BY <1>1, <1>2, <1>4, <1>6, <2>4, <2>7, <3>3 DEF GroupInv, Critical
  <2>8. CASE ip = 6
    <3>1. Holds({"total_processes", "suspended_processes", "ready_processes"} \cup {g})'
      BY <1>2, <2>3, <2>8 DEF GroupInv
    <3>2. {"total_processes", "suspended_processes", "ready_processes"} \cup {g}
             = ProcessGauges
      BY <1>3, <2>8 DEF ProcessGauges
    <3>3. Holds(ProcessGauges)'
      BY <3>1, <3>2
    <3> QED BY <1>1, <1>2, <1>4, <1>6, <2>4, <2>8, <3>3 DEF GroupInv, Critical
  <2> QED BY <1>2, <2>5, <2>6, <2>7, <2>8
<1> QED BY <1>1, <1>5, <1>6 DEF GaugeSet, InStates

\* A set in any other function leaves the group alone.
LEMMA SetElsewhere ==
  ASSUME SafetyInv, GroupInv, GaugeSet, ~InStates
  PROVE  GroupInv'
<1>1. Program[ip].arg \notin ProcessGauges
  BY RunningFunction, OthersLeaveGroup DEF GaugeSet, AtOp, Program, InStates
<1>2. ~InStates' /\ lock' = lock /\ registry' = registry /\ pc = "run"
      /\ pc' \in {"run", "ending"}
  BY DEF InStates, GaugeSet, AtOp, scrapeVars
<1>3. \A g \in ProcessGauges : gauge'[g] = gauge[g]
  <2>1. gauge' = gauge \/ \E v : gauge' = [gauge EXCEPT ![Program[ip].arg] = v]
    BY DEF GaugeSet
  <2>2. gauge \in [Metrics -> Samples]
    BY DEF SafetyInv, TypeOK
  <2>3. ProcessGauges \subseteq Metrics
    BY DEF ProcessGauges, Metrics, all_metrics, Row
  <2> QED BY <1>1, <2>1, <2>2, <2>3
<1>4. Agree => Agree'
  BY <1>2, <1>3 DEF Agree
<1>5. ~Critical /\ ~Critical'
  BY <1>2 DEF Critical
<1> QED BY <1>2, <1>4, <1>5 DEF GroupInv

\* The steps of the update loop that set no gauge.
LEMMA LoopKeepsGroup ==
  ASSUME SafetyInv, GroupInv, Probe \/ MutexLock \/ MutexUnlock \/ FunctionReturns,
         "get_process_states" \notin Faulty
  PROVE  GroupInv'
<1>1. pc = "run" /\ selected' = selected /\ registry' = registry /\ gauge' = gauge
  BY DEF Probe, MutexLock, MutexUnlock, FunctionReturns, AtOp, scrapeVars
<1>2. Agree => Agree'
  BY <1>1 DEF Agree
<1>3. InStates => Program = Body[States]
  BY DEF InStates, Program
<1>4. CASE Probe
  <2>1. pc' = pc /\ turn' = turn /\ lock' = lock /\ (InStates' <=> InStates)
    BY <1>1, <1>4 DEF Probe, InStates, scrapeVars
  <2>2. CASE InStates
    <3>1. ip = 1 /\ Program[ip] = measure("get_process_states") /\ ~AtOp("check")
      BY <1>3, <1>4, <2>2, StatesBody DEF Probe, AtOp, measure, set, lock_, unlock_
    <3>2. ip' = 2 /\ reading' = clock
      BY <1>4, <3>1 DEF Probe, Returns, measure
    <3>3. reading' # Uninitialised
      BY <3>2, FaultsAssumption DEF SafetyInv, TypeOK
    <3> QED BY <1>1, <1>2, <2>1, <3>1, <3>2, <3>3 DEF GroupInv, Critical
  <2>3. CASE ~InStates
    BY <1>1, <1>2, <2>1, <2>3 DEF GroupInv, Critical
  <2> QED BY <2>2, <2>3
<1>5. CASE MutexLock
  <2>1. pc' = pc /\ turn' = turn /\ lock' = "main" /\ (InStates' <=> InStates)
        /\ lock = "free" /\ ip' = ip + 1 /\ reading' = reading
    BY <1>1, <1>5 DEF MutexLock, InStates, scrapeVars
  <2>2. CASE InStates
    <3>1. ip = 2
      BY <1>3, <1>5, <2>2, StatesBody DEF MutexLock, AtOp, measure, set, lock_, unlock_
    <3> QED BY <1>1, <1>2, <2>1, <2>2, <3>1 DEF GroupInv, Critical
  <2>3. CASE ~InStates
    BY <1>1, <1>2, <2>1, <2>3 DEF GroupInv, Critical
  <2> QED BY <2>2, <2>3
<1>6. CASE MutexUnlock
  <2>1. pc' = pc /\ turn' = turn /\ (InStates' <=> InStates) /\ ip' = ip + 1
        /\ reading' = reading
    BY <1>1, <1>6 DEF MutexUnlock, InStates, scrapeVars
  <2>2. CASE InStates
    <3>1. ip = 7
      BY <1>3, <1>6, <2>2, StatesBody DEF MutexUnlock, AtOp, measure, set, lock_, unlock_
    <3>2. Agree
      BY <2>2, <3>1 DEF GroupInv, Critical, Holds, Agree
    <3> QED BY <1>1, <1>2, <2>1, <3>1, <3>2 DEF GroupInv, Critical
  <2>3. CASE ~InStates
    BY <1>1, <1>2, <2>1, <2>3 DEF GroupInv, Critical
  <2> QED BY <2>2, <2>3
<1>7. CASE FunctionReturns
  <2>1. ~Critical
    BY <1>3, <1>7, StatesBody DEF FunctionReturns, Critical, InStates
  <2>2. ip' = 1 /\ lock' = lock /\ pc' # "init"
    BY <1>7 DEF FunctionReturns, scrapeVars
  <2> QED BY <1>1, <1>2, <2>1, <2>2 DEF GroupInv, Critical
<1> QED BY <1>4, <1>5, <1>6, <1>7

\* The steps outside the update loop.
LEMMA OtherStepsKeepGroup ==
  ASSUME SafetyInv, GroupInv, [Next]_vars, ~GaugeSet, ~Probe, ~MutexLock, ~MutexUnlock,
         ~FunctionReturns
  PROVE  GroupInv'
<1> USE DEF GroupInv, Critical, InStates, Holds, Agree
<1>1. CASE RegisterMetric \/ CreateThreads \/ ResolveFunctions
  <2>1. gauge' = gauge /\ lock' = lock /\ pc # "run" /\ pc \notin {"ending", "exited"}
    BY <1>1 DEF RegisterMetric, CreateThreads, ResolveFunctions
  <2>2. CASE RegisterMetric
    <3>1. registry' \subseteq Metrics /\ gauge = Blank /\ pc' # "run"
          /\ pc = "init" /\ pc' # "sleep" /\ pc' # "resolve" /\ ip' = ip
      BY <2>2 DEF RegisterMetric, SafetyInv, TypeOK
    <3>2. Agree'
      BY <2>1, <3>1 DEF Blank
    <3> QED BY <2>1, <3>1, <3>2
  <2>3. CASE CreateThreads \/ ResolveFunctions
    <3>1. registry' = registry /\ pc' # "init" /\ ip' = ip
          /\ pc \in {"threads", "resolve"}
      BY <2>3 DEF CreateThreads, ResolveFunctions
    <3> QED BY <2>1, <3>1
  <2> QED BY <1>1, <2>2, <2>3
<1>2. CASE SleepEnds \/ ProcessEnds
  BY <1>2 DEF SleepEnds, ProcessEnds, scrapeVars
<1>3. CASE Daemon \/ BeginScrape \/ Tick \/ UNCHANGED vars
  BY <1>3 DEF Daemon, StartDaemon, BeginScrape, ReadGauge, EndScrape, Tick, vars,
              mainVars, scrapeVars
<1> QED BY <1>1, <1>2, <1>3 DEF Next, Main

\* Every step keeps the group together, if the reading of /proc succeeds.
LEMMA StepGroupInv ==
  ASSUME SafetyInv, GroupInv, [Next]_vars, "get_process_states" \notin Faulty
  PROVE  GroupInv'
<1>1. CASE GaugeSet
  BY <1>1, SetInGroup, SetElsewhere
<1>2. CASE Probe \/ MutexLock \/ MutexUnlock \/ FunctionReturns
  BY <1>2, LoopKeepsGroup
<1>3. CASE ~(GaugeSet \/ Probe \/ MutexLock \/ MutexUnlock \/ FunctionReturns)
  BY <1>3, OtherStepsKeepGroup
<1> QED BY <1>1, <1>2, <1>3

-----------------------------------------------------------------------------
(* The theorems.                                                           *)

\* Type correctness, for every selection and every set of faults.
THEOREM TypeCorrect == Spec => []TypeOK
BY SafetyInvariant, PTL DEF Spec, SafetyInv

\* A selection with an unknown or repeated name is never sampled, although
\* the endpoint that serves samples is up before the selection is validated.
THEOREM RejectedIsNeverSampled == Spec => []RejectedNeverSampled
<1>1. SafetyInv => RejectedNeverSampled
  BY DEF SafetyInv, StartupInv
<1> QED BY <1>1, SafetyInvariant, PTL DEF Spec

\* The HTTP thread walks a registry that nobody is changing.
THEOREM RegistryIsFrozen == Spec => RegistryFrozenOnceServed
<1>1. SafetyInv /\ [Next]_vars => [http # "none" => registry' = registry]_vars
  BY DEF SafetyInv, StartupInv, Next, Main, Daemon, vars, mainVars, scrapeVars,
         RegisterMetric, CreateThreads, ResolveFunctions, Probe, MutexLock, GaugeSet,
         MutexUnlock, FunctionReturns, SleepEnds, ProcessEnds, StartDaemon,
         BeginScrape, ReadGauge, EndScrape, Tick
<1> QED BY <1>1, SafetyInvariant, PTL DEF Spec, Safe, RegistryFrozenOnceServed

\* Whoever holds the mutex sees the four process gauges of one reading, if
\* /proc can be read: the critical section of update_process_states_gauge is
\* the only place where they differ.
THEOREM GroupIsConsistent == Spec => []GroupConsistentWhenUnlocked
<1>1. CASE "get_process_states" \in Faulty
  <2>1. GroupConsistentWhenUnlocked
    BY <1>1 DEF GroupConsistentWhenUnlocked
  <2> QED BY <2>1, PTL
<1>2. CASE "get_process_states" \notin Faulty
  <2>1. SafetyInv /\ GroupInv /\ [Next]_vars => GroupInv'
    BY <1>2, StepGroupInv
  <2>2. GroupInv => GroupConsistentWhenUnlocked
    BY DEF GroupInv, Agree, GroupConsistentWhenUnlocked
  <2> QED BY SafetyInvariant, InitGroupInv, <2>1, <2>2, PTL DEF Spec, Safe
<1> QED BY <1>1, <1>2

\* The data plane implements Configuration.
THEOREM ExporterImplementsConfiguration == Spec => ImplementsConfiguration
<1> DEFINE config == IF pc \in {"run", "sleep"} THEN selected ELSE << >>
<1>1. Init => Board!Init
  BY DEF Init, Board!Init
<1>2. ASSUME SafetyInv, pc = "resolve", pc' = "run", [Next]_vars
      PROVE  Board!Adopt
  <2>1. ResolveFunctions /\ AllResolved /\ selected' = selected
    BY <1>2 DEF Next, Main, Daemon, vars, mainVars, RegisterMetric, CreateThreads,
                ResolveFunctions, Probe, MutexLock, GaugeSet, MutexUnlock,
                FunctionReturns, SleepEnds, ProcessEnds, StartDaemon, BeginScrape,
                ReadGauge, EndScrape, Tick, AtOp
  <2>2. selected \in Seq(STRING) \ {<< >>} /\ DOMAIN selected = 1 .. Len(selected)
    BY SelectionsAssumption, <1>2 DEF SafetyInv, TypeOK
  <2>3. selected \in Seq(Metrics)
    BY <2>1, <2>2 DEF AllResolved
  <2>4. \A i, j \in DOMAIN selected : selected[i] = selected[j] => i = j
    BY <1>2, <2>1, <2>2 DEF SafetyInv, StartupInv, NoRepeat, AllResolved
  <2>5. Board!Acceptable(selected')
    BY <2>1, <2>2, <2>3, <2>4 DEF Board!Acceptable
  <2> QED BY <1>2, <2>1, <2>5 DEF Board!Adopt
<1>3. ASSUME SafetyInv, [Next]_vars, ~(pc = "resolve" /\ pc' = "run")
      PROVE  config' = config \/ Board!Lose
  <2>1. selected' = selected /\ selected # << >>
    BY <1>3, SelectionsAssumption
       DEF SafetyInv, TypeOK, Next, Main, Daemon, vars, RegisterMetric,
           CreateThreads, ResolveFunctions, Probe, MutexLock, GaugeSet, MutexUnlock,
           FunctionReturns, SleepEnds, ProcessEnds, StartDaemon, BeginScrape,
           ReadGauge, EndScrape, Tick
  <2>2. pc' \in {"run", "sleep"} => pc \in {"run", "sleep"}
    BY <1>3
       DEF Next, Main, Daemon, vars, mainVars, RegisterMetric, CreateThreads,
           ResolveFunctions, Probe, MutexLock, GaugeSet, MutexUnlock, FunctionReturns,
           SleepEnds, ProcessEnds, StartDaemon, BeginScrape, ReadGauge, EndScrape,
           Tick, AtOp
  <2> QED BY <2>1, <2>2 DEF Board!Lose
<1>4. SafetyInv /\ [Next]_vars => [Board!Next]_config
  BY <1>2, <1>3 DEF Board!Next
<1> QED
  BY <1>1, <1>4, SafetyInvariant, PTL DEF Spec, Safe, ImplementsConfiguration, Board!Spec
=============================================================================
