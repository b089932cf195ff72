# SystemSentinel in TLA+

A verification development for the exporter of SystemSentinel: the C program that
publishes host metrics for Prometheus, and the way a metric selection reaches it.
All paths below are relative to the repository root.

## 1. The system

SystemSentinel is one process (`src/main.c`, `src/expose_metrics.c`,
`src/metrics.c`) in a container, next to Prometheus, Grafana, Alertmanager and the
Blackbox exporter.

| Component | State | Operations | Talks to |
|---|---|---|---|
| Control plane (`main.c`: `main`, `start_monitoring_from_fifo`, `parse_metrics`, `update_status`) | the FIFO `/tmp/monitor_fifo`, `buffer`, `/tmp/monitor_status` | create and open the FIFO, read to its end, cut and validate the list, start the monitoring, list the metrics, close and remove the FIFO | writers through the FIFO; the data plane by a call that does not return |
| Writers (`scripts/up.sh`, installer, CI, an operator) | number of tries | poll for the FIFO, redirect a `printf` into it | the kernel's pipe |
| Data plane, main thread (`start_metrics_monitoring`, `init_metrics`, the 15 update functions) | selected list, loop index, gauge pointers, the mutex `lock`, the registry | register gauges, create the HTTP thread, resolve functions, update for ever | probes by calls; the HTTP thread by shared gauges |
| Data plane, HTTP thread (`expose_metrics`) and daemon (libpromhttp, libmicrohttpd) | the daemon, a scrape in progress | start on port 8000, read every registered gauge | Prometheus |
| Probes (`metrics.c`) | the counters of `get_cpu_usage`, the cached interface of `get_monitored_interface` | read `/proc`, `/sys`, `statvfs` | the kernel, whose files change between two calls and within one |
| Container (`docker-compose.yml`, `Dockerfile`) | `/tmp` as a tmpfs | `restart: unless-stopped` | all of the above |
| Prometheus and its alert rules (`prometheus/`) | the samples of the last minutes, pending alerts | scrape every gauge, evaluate each rule | the data plane by HTTP |
| Dashboards, entrypoints, installer, maintenance scripts | | configuration and single-pass scripts | |

What is hard here, and what would make each part correct:

* *Control plane.* Nothing bounds who writes to the FIFO, how many do, or when. What
  is served should be somebody's selection, whole; a writer that succeeds should have
  configured the program; a restart should find its way back; the status file should
  tell the truth; no writer should hang.
* *Data plane.* The HTTP endpoint is up before the selection is validated, and
  a mutex is taken by the updating thread alone. An illegal selection should
  never be sampled, the registry should not change under a scrape, a failing probe
  should starve nobody and publish nothing, a group of gauges should be consistent.
* *Both together.* A selection crosses the process from the pipe to the scrape, past
  two threads, a restart and a file at the FIFO's path: what a scrape shows should be
  one writer's selection, and the documented start should end with every metric served.
* *Probes.* Statics, unsigned arithmetic that wraps, error codes that share a type
  with values, and files that change while they are read. A share should be that of the
  interval it is said to cover, the network counters should stay with one interface,
  the process counts within what was true during the walk, sizes within the total.
* *Outside the process.* Alert windows over sampled data, with lost scrapes and failed
  readings among the samples.

`PROJECT.json` lists the hazards line by line, with the properties that cover them.

## 2. Modules

| Module | Models | Code |
|---|---|---|
| `MetricTable` | `all_metrics` and the bodies of the 15 update functions as sequences of observable steps | `expose_metrics.c` 51-275 |
| `Exporter` | the data plane as a state machine of two threads | `main.c` 126-194, `expose_metrics.c` 277-327, the failures of `metrics.c` |
| `Configuration` | what a user may rely on: nothing, or one acceptable selection, adopted as a whole | abstract |
| `GaugeBoard` | what whoever scrapes may rely on: gauges on which measurements appear one at a time, in the order in which they were made | abstract |
| `SelectionFifo` | the control plane, the pipe or file at its path, and the writers | `main.c` 204-303, `up.sh` 90-102 |
| `Sentinel` | both planes in one process | the same, composed |
| `ParseMetrics` | `parse_metrics` and `trim_whitespace` on characters | `main.c` 21-38, 204-217 |
| `CpuUsage` | `get_cpu_usage` and its static counters | `metrics.c` 119-176 |
| `NetworkTraffic` | `get_monitored_interface`, `get_network_traffic` | `metrics.c` 11-57, 369-412 |
| `ProcessScan` | `get_process_states`, a walk over a changing `/proc` | `metrics.c` 232-283 |
| `MemoryProbes` | the three memory sizes, the memory and the disk percentage | `metrics.c` 81-117, 178-200, 285-367 |
| `DiskStats` | `get_disk_stats` | `metrics.c` 438-463 |
| `Sensors` | `read_value`, the six sensors and their update functions | `metrics.c` 60-79, 202-230, `expose_metrics.c` 162-238 |
| `ErrorAlert` | the two alert rules over a range of samples | `alert.rules.yml.tmpl` 77-87 and further |
| `MCExporter`, `MCSelectionFifo`, `MCSentinel`, `MCParts` | selections, texts and file contents of the TLC runs | |
| `ExporterProofs`, `UpdateLoopProofs` (both about `Exporter`), `SelectionFifoProofs`, `SentinelProofs`, `ParseMetricsProofs`, `ProbesProofs` (`CpuUsage`, `NetworkTraffic`, `ProcessScan`, `MemoryProbes`, `Sensors`), `ErrorAlertProofs`, `LeastElements` (lemmas) | theorems checked by TLAPS | |

`Exporter` and `SelectionFifo` each implement `Configuration` under a refinement
mapping; `Exporter` implements `GaugeBoard` as well, on the gauges whose probe does not
fail unnoticed (`Reliable`). `SelectionFifo` takes the whole of `start_metrics_monitoring` as one step
(`Select`); `Sentinel` puts `Exporter` in its place, step by step, and is shown to
implement `SelectionFifo`. The probes and the parser share no state with one another:
each is a module of its own, with its variables, initial states and steps, and
`MCParts` takes them one at a time for TLC.

### How the state corresponds to the code

`Exporter`: `pc` is the place in `start_metrics_monitoring` (`init` the loop of
`init_metrics`, `threads` `create_threads`, `resolve` the search of the functions,
`run` and `sleep` the endless loop, `ending` on the way to the end of the
process). `turn` is `i`; `ip` is the place in the body of the update
function that runs, one step for each action another thread could observe;
`reading` is the function's local result. `gauge` is what the library stores,
`registry` the default collector registry, `http` the HTTP thread, `todo` and `got`
a scrape in progress. `since` and `failed` are history variables: when the current
cycle began and which probes have failed in it. A measured number is
represented by the time of its measurement, so "fresh" is a comparison; error
codes, defaults and uninitialised values lie outside `1 .. MaxClock`.
What `prom_gauge_set(NULL, ...)` does is up to a library that is not in the tree:
`NullGauge` gives the outcomes, and both are explored.

`SelectionFifo`: `app` is the place in `start_monitoring_from_fifo`; `inode` holds
every pipe and file that was ever at the path, so that a writer can hold one that
has lost its name; `path` says which one has it. A text is the sequence of
its comma-separated fields, each a name, empty or blank. Two texts that meet have no
comma between them: two names become one that nobody wrote (`Garbled`), but an empty
or blank field leaves its neighbour whole (`Glue`), since `strtok` passes over empty
fields. So a comma at the end of one text joins it to the next as if one writer had
written both. `update_status` may fail to write its file, and nobody is told. POSIX
semantics used: opening a FIFO blocks until the other side is open;
a read is at its end when no writer is left; a write without a reader kills
the writer; a pipe nobody has open is emptied; a redirection to a path that does
not exist creates a regular file, to one that does truncates it.
`BufferFields` stands for the 255 bytes of the buffer: a text is cut in or beside its last
field that has room, and what is left of that field is the whole of it, nothing, or a name
broken off (`Pieces`). The ten longest names of the table, with commas, take 230 bytes, so it
is padded lists, and texts that meet, which are cut. How many fields fit depends on their
lengths in the code and is one number here; the theorems hold for every such number above 1.

`Sentinel`: the variables of both, with one `status`. `app = "monitoring"` is the time
inside `start_metrics_monitoring`, where `pc` says more. The HTTP thread lives on while
`main` closes and removes the FIFO after a rejected selection, until the process
ends. Time stands still and no probe fails, since neither touches the way of a
selection to the endpoint; a set of a NULL gauge that kills the process is among the
crashes.

`ParseMetrics`: `rest` is the state of `strtok`, `output` is `metrics`; a text is a
sequence of characters, a comma, a blank (for any white space) or one of `NameChars`.

Probes: the files are what the environment changes, a call is one step, or several
where it reads twice. `CpuUsage` folds the eight columns into the two sums
that the code computes; its arithmetic is modulo `Word`. `NetworkTraffic` splits a
call at its two readings of `/proc/net/dev`, and stands for a reading by the interface whose
line was read; `sources` and `fellBack` are histories. In `ProcessScan` a turn of the
loop of `readdir` is a step; `seen` records what was true of each process during the
walk. Percentages are fractions (`used`, `of`), so that no rounding is involved;
sensor values are in thousandths.

`ErrorAlert`: `samples` is what Prometheus keeps of the gauges of a rule (`Gauges`: `rx` and `tx` for
NetworkErrorPackets, one for NetworkDroppedPackets) for ten minutes, with the lost scrapes;
`pending` counts the evaluations in a row that found the rule true, for whichever gauge.

### Deliberate abstractions

The text of messages; `printf` and stderr; the failures of `pthread_mutex_init`, of
the registry's
initialisation and of allocations, which the code reports and ignores or does not
test; the capacity of a pipe (64 KiB against lists of at most a few hundred bytes); the list written to
`/tmp/monitor_metrics`, which nothing in the repository's program reads. The
characters of a list are abstracted in `SelectionFifo` alone: that the names are the
fields of the text is what `ParseMetrics` is for. Lines of `/proc` files are records of the
fields the code extracts.

## 3. Runs

| Run | Shows | Bounds, and why they are enough |
|---|---|---|
| `exporter_startup` | types; no sample of a rejected selection; the process ends only for a reason; a frozen registry; refinement; every metric has its turn again and again | nine lists of up to three names: legal ones, part of a group, an unknown name first, last, twice, a metric twice, next to each other or not. Both start faults, both outcomes of a NULL gauge, three probes that fail at will, two of them with an error the caller tests for. The clock stops at 2 but the loop goes on, so the behaviours are infinite. Positions do not matter beyond first, last and repeated |
| `exporter_loop` | `CycleRefreshesAll`, `ImplementsGaugeBoard`, `GroupConsistentWhenUnlocked`, `MutexDiscipline` | every metric, so each of the 15 bodies, and the process group whole and in part; five tested probes fail at will between others that do not, and two more whose errors are published, so that one gauge of a group is unreliable and the next is not; three ticks: a cycle that begins at 2 must tell a value of 1, and two readings of a group differ with a third to follow |
| `fifo_native` | types, `ServedFromOneWriter`, `StatusTellsTheTruth`, refinement | three writers: one list longer than `MaxMetrics`, one so padded with commas that the buffer of four fields can cut it, alone or where it meets another, one with a comma at its end, so that texts meet with and without a name between them; two starts and a crash over the same `/tmp`: a writer of one run meets the next |
| `sentinel` | `ImplementsFifo`, `ValuesAreOfOneSelection`, `DoneIsServed`, `WritersFinish` | two writers: `up.sh` with a list that is too long for `MaxMetrics` and for the buffer, an operator who repeats a metric; a name nobody wrote arises where their texts meet, so accepted, unknown and repeated selections all occur. Two starts and a kill, so that a writer of one run meets the next, or waits for a container that never comes back; thread creation and the daemon may fail |
| `parts` | `ShareIsTrue`, `OneInterface`, `ScanIsBounded`, `WithinTotals`, `NamesAreFields`, `GaugeInItsUnit`, `FiringNeedsTwoChanges` | words of six values, so that counters and sums wrap within a few ticks, and an iowait that falls by up to 2; two interfaces besides loopback, a forced one or none, one of them the default; two processes, one with a blank in its name; every meminfo of a host with two units of memory, fields above the total included; every text of up to seven characters with at most two names kept: empty fields, blank fields, blanks inside a name, a name too many; two gauges with two values and windows of three samples, so that six remain: one may change, or both at once, or one after the other; three sensors, one of each kind of conversion, with a negative content that has the value of the error |

The bounds are in the constants: `MaxClock`, `ULLMax`, `MaxMetrics`, `BufferFields`,
`MaxTries`, `MaxBoots`, `MaxCrashes`, `Word`, `Word64`, `MaxDrop`, `MaxText`, `MaxNames`,
`MaxIO`, `Window`. `ULLMax` is 255 and `Word64` 100 instead of 2^64-1 and 2^64: only that they
are larger than any time, and than any sum of sizes, matters.

`CHECK_DEADLOCK FALSE` where the system may stop: after a rejected selection the
process is gone, a program that serves with all its writers done has
nothing left but the data plane's loop, which `SelectionFifo` does not repeat,
`Sentinel` ends with its last start, and the parser with the text.

### Disagreements the runs found

Each run below expects a violation; the finding in `PROJECT.json` quotes the text.

* `exporter_torn_scrape`: one scrape shows process gauges of two readings, after all of
  them have been set: it falls between two sets of the later one. The
  mutex (`expose_metrics.c:154`) is held across the four sets, but the scrape never
  takes it, and no other thread does. `include/expose_metrics.h:12` promises
  thread safety by mutexes.
* `disk_io_time`: what is published as I/O time in milliseconds is a number of sectors:
  the `sscanf` at `metrics.c:453` picks the seventh number after the device name instead
  of the tenth. `include/metrics.h:197` calls it "Time spent on I/O in milliseconds."
* `fifo_no_wait`: the manual deployment of `INSTALL.md` and the CI job write without
  waiting; the redirection may create a regular file first, which the program reads empty.
* `fifo_second`: running `up.sh` again with another `SYSTEM_SENTINEL_METRICS`
  succeeds and changes nothing: the FIFO stays open, unread.
* `fifo_restart`: after a restart of the container (`docker-compose.yml:13`), or the
  documented `up -d --force-recreate app`, nobody writes the selection again.
* `scan_blank`: a process with a blank in its name is counted in the state that a letter of
  its name spells, or in none (`%*s` at `metrics.c:261`). `include/metrics.h:146` speaks of the
  state of all processes. `ScanIsBounded` is what holds: the total for every process, the
  states for those without a blank in their name.
* `alert_silent`: `alert.rules.yml.tmpl:83` (and 92) says that a counter "increased during the last
  5 minutes"; with a range as long as `for: 5m`, one burst of errors is never reported.

Met in reading, without a run: the error of `get_disk_stats` is published as 2^64-1, since
the test at `expose_metrics.c:265` is on an unsigned value and its `else` is unreachable
(modelled, and outside what `GaugeBoard` promises); when the alert fires, its text is false if in
the last five minutes the counter only fell, a difference that the expression does not tell from a
rise; two selections that meet in the FIFO at a comma are served
as one that nobody asked for (no document promises otherwise, and `ServedFromOneWriter` has
the premise that no text begins or ends with a comma or a blank field, `TextsAreTight`); the
default list of `README.md` has eight names, that of `scripts/up.sh:8` ten (exactly `MAX_METRICS`); `get_cpu_fan_speed` and
`get_gpu_fan_speed` return -1000 in case of an error, not the -1.0 of
`include/metrics.h:136` and `145` (their callers test the sign, so that
`GaugeInItsUnit` holds); `get_total_memory` returns 0, no error, when the line is missing.

### Fairness

`Exporter!Spec`: weak fairness of the main thread (the scheduler runs it, `sleep(1)`
ends, the mutex has one user) and of the end of a process that is ending. The HTTP side and
time have none: no property waits for them.
`SelectionFifo!Spec`: weak fairness of the program, whose first step after an end
is the restart that `restart: unless-stopped` gives, and of every shell. Only the runs that
find a disagreement use it, with `Container = TRUE`; natively nobody restarts the program.
`Sentinel!Spec`: weak fairness of the main thread and the restart of its container, of the HTTP
side, and of the shells that wait for the FIFO or have begun to open it. The others need not
write at all, scrapes and crashes need not happen.
`DoneIsServed` holds for a writer that nobody disturbs: no other writer gets as far as
opening the FIFO, nothing crashes, no thread or port is refused. Each part of that premise
is the negation of a hazard that another run shows (`fifo_second`, `fifo_restart`).
The probes, the parser and the alert are checked for safety only: no code retries them.

## 4. Proofs

TLAPS checks, for every value of the constants that satisfies the named assumptions:

| Theorem | Statement |
|---|---|
| `TypeCorrect` | `Exporter`: types |
| `RejectedIsNeverSampled` | a selection with an unknown or repeated metric never shows a value and is never reported started |
| `RegistryIsFrozen` | the registry does not change once the HTTP thread exists |
| `GroupIsConsistent` | whoever takes the mutex sees process gauges of one reading, whatever subset was selected |
| `ExporterImplementsConfiguration` | the data plane implements `Configuration` |
| `EndsForAReason` | the process ends only after a rejected selection, a failed thread creation, or a set of a gauge that was not selected while another of its group was; no probe ends it |
| `CyclesRefresh` | when the loop goes to sleep, a gauge is stale only if its own probe failed in the cycle that ends |
| `MutexIsKeptInOrder` | the mutex is free whenever the updating thread locks it or sleeps, and gauges are set and the mutex unlocked by its owner only |
| `ExporterImplementsGaugeBoard` | whatever fails, the gauges whose probe does not fail unnoticed show measurements only, in the order in which they were made; the data plane implements `GaugeBoard` |
| `OnlyMeasurementsAreShown` | if only probes fail whose errors are tested for, a gauge shows measurements and nothing else |
| `FifoTypeCorrect` | `SelectionFifo`: types; the served list is within `MAX_METRICS`, open inodes exist |
| `StatusIsTrue` | the status file says "started" exactly while the program serves, if it can be written |
| `FifoImplementsConfiguration` | the control plane implements `Configuration` |
| `OneWriterIsServed` | what is served from the FIFO is what one writer asked for, or the beginning of it if its text does not fit into the buffer, as long as no text written begins or ends with a comma or a blank field |
| `SentinelImplementsFifo` | both planes in one process implement `SelectionFifo` |
| `ScrapesShowOneSelection` | a value that a scrape shows belongs to the selection of one writer, registered as a whole and reported as started, under the same premise |
| `SentinelServesOneSelection` | both planes in one process keep the promise of `Configuration` and of the status file |
| `ParsedNamesAreFields` | the names parsed are the first fields of the text, in order and trimmed, for texts of every length and every `MAX_METRICS` |
| `CpuShareIsTrue` | `get_cpu_usage` returns the share of the interval since its last success, for every word size |
| `CpuShareInRange` | that share lies between 0 and 100 percent, unless the idle sum fell behind |
| `NetworkOneInterface` | all readings are of one interface, for every set of interfaces and every setting |
| `SizesStayWithinTotals` | used memory stays within the total, the percentages within 0 and 100, for every size and all contents of `/proc/meminfo` |
| `GaugesAreInTheirUnits` | a sensor's gauge shows its last number, in its unit, unless that was below zero |
| `CountsAreBounded` | the total of processes lies between what was so all the time of the walk and what was so at some time, and so does each state, processes with a blank in their name left out of the bounds |
| `PlainNamesAreCounted` | where no name has a blank, each state is within these bounds for all processes |
| `AlertNeedsTwoChanges` | for every set of gauges and every window: an alert that fires has found changes at two scrapes, of one gauge or of two |

*The arguments.* `SafetyInv` (types and `StartupInv`) carries what each stage has
established: while registering, the registry is exactly the known names of the prefix
that was handled, without repetition (else `must_register` would have ended the
process); the HTTP thread exists only after that; at `run` the whole list is accepted.
From it follow four of the theorems, none of whose properties is inductive alone.
`GroupInv` describes the seven steps of `update_process_states_gauge`: inside the critical
section the mutex is held and the gauges set so far show the reading; everywhere else
the group agrees. Two facts about the table support it: no other body sets a gauge of
the group (`OthersLeaveGroup`), and every row names a body. Its premise is that
`/proc` can be opened; otherwise the four ints are uninitialised.
`FifoInv` adds to the types that a polling writer has tries left, that whoever
has opened something has an inode, and that only a serving program has a
selection; the lemmas before it type prefixes, joined, cut and overlaid texts.
`StatusInv` needs no types.
`CpuInv` ties the two sides of `get_cpu_usage` together (`Anchored`): the kernel's counters
are those of the last successful sample, moved modulo `Word` by what was spent
since. Failed calls keep it because they save nothing, a successful one because it saves
both counters. `DifferencesAreSpent` draws the conclusion: under it the two unsigned
differences are the ticks spent, wherever the counters or their sum wrapped, unless the
idle sum fell behind. `NetInv` says which interfaces can have been read at all
(`Readable`): the forced one if there is one, else the detected one, and the default
only if it was used for want of a detection.

`EndInv` adds to `SafetyInv` that from the creation of the thread on the registry is the
selection, so that a set of a NULL gauge shows a group of which only a part was
selected. `LoopInv` says how far the cycle is: the metrics before `turn`, and the sets
of the running body before `ip`, are `Current` (refreshed since the cycle began, or a source
of theirs has failed in it), and past its first step a body holds the reading of its last
probe (`LastProbe`). The lemmas about the table that it needs go through the 15 bodies once:
a probe comes first, a tested one has no other in its body, a body sets the gauges of
its own rows, all of them.

`MutexInv` ties the mutex to the place in the body: it is held exactly where the next
step is a set or an unlock (`Guarded`). That the 15 bodies are made so is a lemma of its
own (`Brackets`): a lock or a set is followed by a guarded step, nothing else is, so an
early return, which only a tested probe makes, never leaves the mutex held.

`MeasuredInv` says that every reliable gauge shows a measurement or nothing, and that past
a probe that does not fail unnoticed the running body holds a measurement that is as new as
anything a reliable gauge shows. A set under it is a `Publish` of `GaugeBoard`
(`SetPublishes`): what appears is a measurement, and no gauge shows a newer one. A set of an
unreliable gauge changes no reliable one, and a body sets a gauge right after the probe
the gauge shows, so no reliable gauge is set from a reading that failed unnoticed. The other
steps leave the board alone (`OthersLeaveTheBoard`), the scrape's and time's apart, which
are steps of it. `OnlyMeasurementsAreShown` is the case in
which every failing probe is tested; without the premise a failed `get_disk_stats` shows 2^64-1.

`OneInv` is about the texts in the pipes and in the buffer. A pipe holds what its writers write,
text by text (`PipesHold`). What has been read of tight texts is `Clean`: nothing, one writer's
text as a whole, or its beginning with a garbled name behind it, since the next text brings a
name to where they meet (`JoinIsClean`). The cut of the buffer ends the reading (`CleanEnd`) and
leaves a clean text, or one writer's without its end (`CutIsClean`). A garbled name within
`MAX_METRICS` is not accepted, and one beyond it is not seen: what is accepted is what the
writer asked for, or its beginning if the buffer cut it (`AcceptedIsAsked`). The lemmas before it
say what `parse_metrics` makes of a text whose fields may be empty (`RankShape`, `TokenAt`,
`SameNames`). Regular files need not be clean, and nothing is claimed of them.

`SentinelProofs` uses the lemmas of `SelectionFifoProofs` under the refinement mapping
(`PP`): `StepMaps` shows that under `MonitorInv` every step of `Sentinel` is one of `SelectionFifo`
or a stutter, so `FifoInv` and `OneInv` hold of `Sentinel` without a second proof.
`SentinelServesOneSelection` carries over what is proved of `SelectionFifo` besides.
`MonitorInv` is what makes the four ends of `start_metrics_monitoring` those of `Select`: the
registry is the known names of the handled prefix, so `must_register` refuses exactly the first
repetition; whoever is past it has none; whoever runs is accepted. `ShownInv` ties gauges and
scrape to it.

`MemoryInv` and `SensorInv` are their properties with types; the lemmas beside them show
that no sum and no difference of the code wraps (`UsedIsBounded`, `MemoryShare`, `DiskShare`),
and that either conversion keeps the sign by which the caller tells an error. `ScanInv`
restates the bounds for the processes that the walk has passed: what was so all the time becomes
less with a change, what was so at some time more, and a turn adds one to a
count only with one more in the upper bound.

Two theorems are about sequences of any length, where one would use an induction; the prover
has none with an operator as its parameter. `LeastElements` stands in for it: a non-empty
set of positions has a least and, if bounded, a greatest element. `FirstAt` and the
`end` of `trim_whitespace` are such elements, and so are the two changes of the alert.
`ParseInv` says that what `strtok` has left begins behind a comma (`RestBegins`), that as many
names were parsed as fields begin before that place (`ParsedTo`), and that each is its
field, trimmed (`IsName`); a turn skips the commas, finds the one field that begins next and
goes on behind it. `AlertInv` says that for each of the `pending` evaluations, counted
backwards, two samples of the window of that time differ in some gauge (`HeldBefore`). When the alert fires there
is one such pair among the newest samples and another in the window of `Window` evaluations
ago, which ends before the first begins; between the two of either pair lies a change.

*Only model-checked.* The three liveness properties (`EveryMetricServed`, `WritersFinish`,
`DoneIsServed`) are out of the prover's reach. Every safety property of a
passing run is the statement of a theorem.

## 5. Not modelled

* `start_grafana` and `start_prometheus` (`main.c:60-117`) are never called.
* `keep_running` is never cleared and `destroy_mutex` never called, so the end of
  `expose_metrics` is unreachable.
* The two counters of `/proc/stat` that are read and passed on (context switches, running
  processes) have no computation of their own; their errors are in `Exporter`.
* The installer, the rest of `up.sh` and the maintenance, documentation and hook scripts
  run once from top to bottom and stop at the first error; what becomes of them is decided by
  apt, docker and git. Their wait for the FIFO and their write are in `SelectionFifo`.
* The alert rules on a threshold of one sample, and the entrypoints that render a
  template once.
* Dashboards, Blackbox and Alertmanager configuration have no behaviour of their own.

## 6. Plan

1. Probes that fail in `Sentinel`, so that the whole way from a file of `/proc` to a
   scrape is in one state machine, and `GaugeBoard` carried over to it as `Configuration` is;
   today `Exporter` covers it for one selection at a time.
2. The parser in the place of the sequence of names that `SelectionFifo` reads, with
   `ParsedNamesAreFields` as the lemma of the refinement.
