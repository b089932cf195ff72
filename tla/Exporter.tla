------------------------------ MODULE Exporter -------------------------------
(***************************************************************************)
(* The data plane of SystemSentinel, from the call of                      *)
(* start_metrics_monitoring to the end of the process: the main thread     *)
(* registers the selected gauges, creates the HTTP thread, resolves the    *)
(* update functions and then updates the gauges for ever; the HTTP thread  *)
(* starts the daemon on port 8000, which answers scrapes by reading the    *)
(* gauges one at a time.                                                   *)
(*                                                                         *)
(* A measured number is represented by the time at which it was measured,  *)
(* a tick of `clock' in 1 .. MaxClock; a number that is no measurement (an *)
(* error code, a default, an uninitialised variable) is outside that range.*)
(***************************************************************************)
EXTENDS MetricTable, FiniteSets

CONSTANTS
  Selections,     \* the metric lists parse_metrics may hand over
  Faulty,         \* the probes that may fail
  StartFaults,    \* which of "pthread_create" and "daemon" may fail
  StackInts,      \* what an uninitialised int may hold
  Uninitialised,  \* the result of a probe that leaves its outputs unset
  NoSample,       \* a gauge that was never set
  NullGauge,      \* what prom_gauge_set(NULL, ...) may do: "ignored", "crash"
  ULLMax,         \* the largest unsigned long long
  MaxClock        \* bound on time

ASSUME SelectionsAssumption == Selections \subseteq Seq(STRING) \ {<< >>}
ASSUME FaultsAssumption ==
  StackInts \subseteq Int /\ Uninitialised \notin Int /\ NoSample \notin Int
ASSUME NullGaugeAssumption ==
  NullGauge \subseteq {"ignored", "crash"} /\ NullGauge # {}
ASSUME BoundsAssumption ==
  ULLMax \in Nat /\ MaxClock \in Nat /\ 0 < MaxClock /\ MaxClock < ULLMax

VARIABLES
  pc,        \* where the main thread is
  selected,  \* selected_metrics
  turn,      \* the loop index i, from 1
  ip,        \* next step of the update function of selected[turn]; 0: returned early
  reading,   \* what the last probe returned
  lock,      \* owner of the mutex: "free" or "main"
  status,    \* what the message in /tmp/monitor_status says
  registry,  \* names of the gauges in the default collector registry
  gauge,     \* value of each gauge; NoSample when unregistered or never set
  http,      \* the HTTP thread and its daemon
  scraping,  \* a scrape is being answered
  todo,      \* gauges that scrape has not read yet
  got,       \* what that scrape has read
  clock,     \* time
  since,     \* history: time at which the current update cycle began
  failed     \* history: the probes that failed in that cycle

mainVars   == << pc, turn, ip, reading, lock, status >>
scrapeVars == << scraping, todo, got >>
history    == << since, failed >>
vars == << pc, selected, turn, ip, reading, lock, status, registry, gauge,
           http, scraping, todo, got, clock, since, failed >>

Blank == [g \in Metrics |-> NoSample]

-----------------------------------------------------------------------------
(* What the probes of metrics.c return.                                    *)

\* Conversion of a negative int to unsigned long long.
ULL(v) == v % (ULLMax + 1)

\* The results of a probe that could not read or parse its file.  The struct
\* fields of NetworkStats and DiskStats are unsigned long long.  A /proc/diskstats
\* without a line that parses is no failure: get_disk_stats sums over none.
Failure(p) ==
  CASE p = "get_network_traffic"  -> {ULL(-1), 0}
    [] p = "get_disk_stats"       -> {ULL(-1)}
    [] p = "get_context_switches" -> {0}
    [] p = "get_process_states"   -> {Uninitialised}
    [] p \in {"get_total_memory", "get_available_memory", "procs_running"} -> {-1, 0}
    [] p \in {"get_cpu_fan_speed", "get_gpu_fan_speed"} -> {-1000}
    [] OTHER                      -> {-1}

Returns(p) == {clock} \cup (IF p \in Faulty THEN Failure(p) ELSE {})

\* The numbers a set may store for the current reading.
Stored == IF reading = Uninitialised THEN StackInts ELSE {reading}

-----------------------------------------------------------------------------
(* The main thread.                                                        *)

Init ==
  /\ pc = "init"
  /\ selected \in Selections
  /\ turn = 1 /\ ip = 1
  /\ reading = 0
  /\ lock = "free"
  /\ status = "starting"
  /\ registry = {}
  /\ gauge = Blank
  /\ http = "none"
  /\ scraping = FALSE /\ todo = {} /\ got = Blank
  /\ clock = 1 /\ since = 1 /\ failed = {}

\* A mutated form: the loop bound is one too high.
LastTurn_OffByOne == turn > Len(selected)

\* The loops over num_metrics end here.
LastTurn == turn = Len(selected)

\* One iteration of init_metrics.  An unknown name is skipped; a name that is
\* registered already makes must_register end the process.
RegisterMetric ==
  LET name == selected[turn] IN
  /\ pc = "init"
  /\ IF name \in registry
       THEN /\ pc' = "ending"
            /\ UNCHANGED << turn, registry >>
       ELSE /\ pc' = IF LastTurn THEN "threads" ELSE "init"
            /\ turn' = IF LastTurn THEN 1 ELSE turn + 1
            /\ registry' = registry \cup ({name} \cap Metrics)
  /\ UNCHANGED << selected, ip, reading, lock, status, gauge, http, scrapeVars,
                  clock, history >>

\* A mutated form: the HTTP thread is created before init_metrics.
CreateThreads_First ==
  /\ \/ pc = "init" /\ http = "none" /\ http' = "starting" /\ UNCHANGED pc
     \/ pc = "threads" /\ http # "none" /\ pc' = "resolve" /\ UNCHANGED http
  /\ UNCHANGED << selected, turn, ip, reading, lock, status, registry, gauge,
                  scrapeVars, clock, history >>

\* create_threads, and the return when it fails.
CreateThreads ==
  /\ pc = "threads"
  /\ \/ /\ pc' = "resolve" /\ http' = "starting"
        /\ UNCHANGED status
     \/ /\ "pthread_create" \in StartFaults
        /\ pc' = "ending" /\ UNCHANGED http
        /\ status' = "thread_error"
  /\ UNCHANGED << selected, turn, ip, reading, lock, registry, gauge,
                  scrapeVars, clock, history >>

\* A mutated form: one function found is enough.
AllResolved_One == \E i \in DOMAIN selected : selected[i] \in Metrics

AllResolved == \A i \in DOMAIN selected : selected[i] \in Metrics

\* The search of an update function for every selected metric.
ResolveFunctions ==
  /\ pc = "resolve"
  /\ IF AllResolved
       THEN pc' = "run" /\ status' = "started" /\ since' = clock
       ELSE pc' = "ending" /\ status' = "no_update_function"
            /\ UNCHANGED since
  /\ failed' = {}
  /\ UNCHANGED << selected, turn, ip, reading, lock, registry, gauge, http,
                  scrapeVars, clock >>

Program == Body[update_function(selected[turn])]
AtOp(op) == pc = "run" /\ ip \in DOMAIN Program /\ Program[ip].op = op

\* A probe is called without the mutex.
Probe ==
  /\ AtOp("measure") \/ AtOp("check")
  /\ reading' \in Returns(Program[ip].arg)
  /\ failed' = IF reading' = clock THEN failed ELSE failed \cup {Program[ip].arg}
  /\ ip' = IF AtOp("check") /\ reading' < 0 THEN 0 ELSE ip + 1
  /\ UNCHANGED << pc, selected, turn, lock, status, registry, gauge, http,
                  scrapeVars, clock, since >>

MutexLock ==
  /\ AtOp("lock") /\ lock = "free"
  /\ lock' = "main" /\ ip' = ip + 1
  /\ UNCHANGED << pc, selected, turn, reading, status, registry, gauge, http,
                  scrapeVars, clock, history >>

\* prom_gauge_set.  The pointer of a gauge that was not selected is NULL.
GaugeSet ==
  LET g == Program[ip].arg IN
  /\ AtOp("set")
  /\ \/ /\ g \in registry
        /\ \E v \in Stored : gauge' = [gauge EXCEPT ![g] = v]
        /\ ip' = ip + 1 /\ UNCHANGED pc
     \/ /\ g \notin registry /\ "ignored" \in NullGauge
        /\ ip' = ip + 1 /\ UNCHANGED << pc, gauge >>
     \/ /\ g \notin registry /\ "crash" \in NullGauge
        /\ pc' = "ending" /\ UNCHANGED << ip, gauge >>
  /\ UNCHANGED << selected, turn, reading, lock, status, registry, http,
                  scrapeVars, clock, history >>

MutexUnlock ==
  /\ AtOp("unlock")
  /\ lock' = "free" /\ ip' = ip + 1
  /\ UNCHANGED << pc, selected, turn, reading, status, registry, gauge, http,
                  scrapeVars, clock, history >>

\* The update function returns; after the last one the thread sleeps.
FunctionReturns ==
  /\ pc = "run" /\ ip \notin DOMAIN Program
  /\ ip' = 1 /\ reading' = 0
  /\ IF LastTurn
       THEN turn' = 1 /\ pc' = "sleep"
       ELSE turn' = turn + 1 /\ UNCHANGED pc
  /\ UNCHANGED << selected, lock, status, registry, gauge, http,
                  scrapeVars, clock, history >>

SleepEnds ==
  /\ pc = "sleep"
  /\ pc' = "run" /\ since' = clock /\ failed' = {}
  /\ UNCHANGED << selected, turn, ip, reading, lock, status, registry, gauge,
                  http, scrapeVars, clock >>

Main == \/ RegisterMetric \/ CreateThreads \/ ResolveFunctions
        \/ Probe \/ MutexLock \/ GaugeSet \/ MutexUnlock
        \/ FunctionReturns \/ SleepEnds

\* main returns, must_register calls exit, or the process is killed: it ends
\* and takes the HTTP thread with it, at whatever point that thread is.
ProcessEnds ==
  /\ pc = "ending"
  /\ pc' = "exited" /\ http' = "none"
  /\ scraping' = FALSE /\ todo' = {} /\ got' = Blank
  /\ UNCHANGED << selected, turn, ip, reading, lock, status, registry, gauge,
                  clock, history >>

-----------------------------------------------------------------------------
(* The HTTP thread and the daemon's own thread.                            *)

\* expose_metrics: the loop on keep_running that follows never ends, since no
\* code clears the flag.
StartDaemon ==
  /\ http = "starting"
  /\ \/ http' = "up"
     \/ "daemon" \in StartFaults /\ http' = "failed"
  /\ UNCHANGED << mainVars, selected, registry, gauge, scrapeVars, clock, history >>

BeginScrape ==
  /\ http = "up" /\ ~scraping
  /\ scraping' = TRUE /\ todo' = registry
  /\ UNCHANGED << mainVars, selected, registry, gauge, http, got, clock, history >>

\* The library reads one gauge, atomically and without `lock'.
ReadGauge ==
  /\ scraping
  /\ \E g \in todo : /\ got' = [got EXCEPT ![g] = gauge[g]]
                     /\ todo' = todo \ {g}
  /\ UNCHANGED << mainVars, selected, registry, gauge, http, scraping, clock, history >>

EndScrape ==
  /\ scraping /\ todo = {}
  /\ scraping' = FALSE /\ got' = Blank
  /\ UNCHANGED << mainVars, selected, registry, gauge, http, todo, clock, history >>

Daemon == StartDaemon \/ ReadGauge \/ EndScrape

Tick ==
  /\ clock < MaxClock /\ pc # "exited"
  /\ clock' = clock + 1
  /\ UNCHANGED << mainVars, selected, registry, gauge, http, scrapeVars, history >>

-----------------------------------------------------------------------------
Next == Main \/ ProcessEnds \/ Daemon \/ BeginScrape \/ Tick

Safe == Init /\ [][Next]_vars

\* The main thread is scheduled and its sleep(1) ends; nobody has to scrape.
Spec == Safe /\ WF_vars(Main) /\ WF_vars(ProcessEnds)

-----------------------------------------------------------------------------
(* Properties.                                                             *)

Names == {selected[i] : i \in DOMAIN selected}

\* Every name is in the table and none occurs twice.
Accepted == /\ Names \subseteq Metrics
            /\ \A i, j \in DOMAIN selected : selected[i] = selected[j] => i = j

Groups == {{all_metrics[i].name : i \in {k \in DOMAIN all_metrics :
                                           all_metrics[k].update_function = f}} :
           f \in UpdateFunctions}
WholeGroups == \A grp \in Groups : grp \subseteq Names \/ grp \cap Names = {}

\* The probes whose reading the update function of a metric puts into its gauge:
\* the last one called before the set.
SourcesOf(g) ==
  LET body == Body[update_function(g)]
      probes == {k \in DOMAIN body : body[k].op \in {"measure", "check"}}
  IN  {body[k].arg : k \in {k \in probes :
         \E i \in DOMAIN body : /\ body[i] = set(g) /\ k < i
                                /\ \A j \in probes : j <= k \/ j > i}}

Samples == Int \cup {NoSample}
TypeOK ==
  /\ pc \in {"init", "threads", "resolve", "run", "sleep", "ending", "exited"}
  /\ selected \in Selections
  /\ turn \in DOMAIN selected
  /\ ip \in Nat
  /\ reading \in Int \cup {Uninitialised}
  /\ lock \in {"free", "main"}
  /\ status \in {"starting", "started", "thread_error", "no_update_function"}
  /\ registry \subseteq Metrics
  /\ gauge \in [Metrics -> Samples] /\ got \in [Metrics -> Samples]
  /\ http \in {"none", "starting", "up", "failed"}
  /\ scraping \in BOOLEAN /\ todo \subseteq registry
  /\ clock \in 1 .. MaxClock /\ since \in 1 .. clock
  /\ IsFiniteSet(failed)

\* The HTTP endpoint is up before the selection is validated (main.c:142
\* against main.c:165), yet a selection that is going to be rejected never
\* shows a value and is never reported as started.
RejectedNeverSampled ==
  ~Accepted => gauge = Blank /\ got = Blank /\ status # "started"

\* The registry that the HTTP thread walks is complete before that thread
\* exists and no gauge joins or leaves it afterwards (the order of calls in
\* start_metrics_monitoring).
RegistryFrozenOnceServed == [][http # "none" => registry' = registry]_vars

\* Whoever holds the mutex sees the four process gauges of one reading
\* (the single critical section of update_process_states_gauge).
GroupConsistentWhenUnlocked ==
  lock = "free" /\ "get_process_states" \notin Faulty =>
    \A g, h \in ProcessGauges \cap registry : gauge[g] = gauge[h]

\* The updating thread never waits for itself: whichever function returns early,
\* the mutex is free when it is locked and when the thread sleeps; and every gauge
\* is set, and the mutex unlocked, by its owner (the lock and unlock calls of
\* the update functions).
MutexDiscipline ==
  /\ AtOp("lock") \/ pc = "sleep" => lock = "free"
  /\ AtOp("set") \/ AtOp("unlock") => lock = "main"

\* When the thread goes to sleep, a gauge is stale only if the probe it shows
\* failed in the very cycle that ends: neither a failure of an earlier cycle nor
\* one of another probe, in the same function or in another, keeps it from
\* being refreshed (the early returns of the update functions).
CycleRefreshesAll ==
  pc = "sleep" =>
    \A g \in registry : SourcesOf(g) \cap failed = {} => gauge[g] \in since .. clock

\* Every number a gauge shows was measured: error codes are dropped by the
\* callers that test for them.
OnlyMeasurements == \A g \in Metrics : gauge[g] # NoSample => gauge[g] \in 1 .. clock

\* The process ends only after a rejected selection, a failed thread creation
\* or a set of a gauge that was not selected while others of its group were.
EndsOnlyForAReason ==
  pc \in {"ending", "exited"} =>
    ~Accepted \/ ~WholeGroups \/ status = "thread_error"

\* Process gauges that have been set are shown by one scrape as of one reading.
ScrapeGroupConsistent ==
  scraping /\ todo = {} =>
    \A g, h \in ProcessGauges \cap registry :
      NoSample \notin {got[g], got[h]} => got[g] = got[h]

\* Every selected metric gets its turn again and again, whatever the probes of
\* the others return: an early return never keeps the mutex.  Only a set of a
\* NULL gauge, which ends the process, comes before it.
EveryMetricServed ==
  \A m \in Metrics \cap UNION {{s[i] : i \in DOMAIN s} : s \in Selections} :
    pc = "run" ~> (pc = "ending" \/ (m \in Names => pc = "run" /\ selected[turn] = m))

\* From the first update to the end of the process one acceptable selection is
\* in effect: the data plane implements Configuration.
Board == INSTANCE Configuration
           WITH KnownMetrics <- Metrics,
                config <- IF pc \in {"run", "sleep"} THEN selected ELSE << >>
ImplementsConfiguration == Board!Spec

\* The probes that report every failure by a negative number, for which the
\* update function that calls them tests.
TestedProbes ==
  {"get_cpu_usage", "get_memory_usage", "get_disk_usage", "get_cpu_temperature",
   "get_battery_voltage", "get_battery_current", "get_cpu_frequency",
   "get_cpu_fan_speed", "get_gpu_fan_speed"}

\* The gauges whose own probe does not fail unnoticed.
Reliable == {g \in Metrics : SourcesOf(g) \cap Faulty \subseteq TestedProbes}

\* Whatever the probes of the other gauges return, a reliable gauge shows
\* measurements only, and they appear in the order in which they were made, over
\* all the update functions, their early returns and their critical sections; a
\* scrape copies them one by one (the update loop of start_metrics_monitoring
\* against the HTTP thread): the data plane implements GaugeBoard.
Measurements == INSTANCE GaugeBoard
                  WITH Gauges <- Reliable, now <- clock,
                       shown <- [g \in Reliable |-> gauge[g]],
                       page <- [g \in Reliable |-> got[g]]
ImplementsGaugeBoard == Measurements!Spec
=============================================================================
