------------------------------ MODULE Sentinel -------------------------------
(***************************************************************************)
(* SystemSentinel as a whole: the control plane of SelectionFifo and the   *)
(* data plane of Exporter in one process.  What SelectionFifo takes for    *)
(* one step, `Select', is here start_metrics_monitoring as Exporter has it *)
(* in detail, with the HTTP thread beside it, from the call until the      *)
(* process ends; both planes write the same status file.                   *)
(*                                                                         *)
(* Time stands still, and the probes do not fail: what they return matters *)
(* to neither the selection nor its way to the endpoint.  A set of a NULL  *)
(* gauge that kills the process is one of the crashes.                     *)
(***************************************************************************)
EXTENDS MetricTable, SequencesExt, FiniteSets

CONSTANTS
  Writers, Selection, Waits, Garbled, MaxMetrics, BufferFields, MaxTries,
  Container, MaxBoots, MaxCrashes,  \* see SelectionFifo
  Faults,                           \* the calls that may fail, of both planes
  NoSample                          \* a gauge that was never set

\* See SelectionFifo.
ASSUME WritersAssumption ==
  /\ Selection \in [Writers -> Seq(STRING) \ {<< >>, << "" >>}]
  /\ Waits \subseteq Writers
ASSUME NamesAssumption ==
  /\ Metrics \subseteq STRING \ {"", " ", "1"}
  /\ Garbled \in STRING \ ({"", " ", "1"} \cup Metrics)
ASSUME BoundsAssumption ==
  /\ MaxMetrics \in Nat \ {0} /\ BufferFields \in Nat \ {0, 1}
  /\ MaxTries \in Nat \ {0} /\ MaxBoots \in Nat /\ MaxCrashes \in Nat
  /\ Container \in BOOLEAN

VARIABLES
  app, fd, buf, path, inode, wpc, wfd, tries, boots, crashes,  \* see SelectionFifo
  status,                                                      \* of both planes
  pc, selected, turn, ip, reading, lock, registry, gauge,      \* see Exporter
  http, scraping, todo, got

fifo     == << fd, buf, path, inode, wpc, wfd, tries, boots, crashes >>
exporter == << pc, selected, turn, ip, reading, lock, registry, gauge,
               http, scraping, todo, got >>
vars == << app, fifo, status, exporter >>

\* The program has no variable for what it serves.
F == INSTANCE SelectionFifo WITH KnownMetrics <- Metrics, served <- << >>

E == INSTANCE Exporter
       WITH Selections <- {}, Faulty <- {}, StartFaults <- Faults, StackInts <- {},
            Uninitialised <- NoSample, NullGauge <- {"ignored"}, ULLMax <- 2,
            MaxClock <- 1, clock <- 1, since <- 1, failed <- {}

Init ==
  /\ F!Init
  /\ pc = "exited" /\ selected = << >> /\ turn = 1 /\ ip = 1 /\ reading = 0 /\ lock = "free"
  /\ registry = {} /\ gauge = E!Blank /\ http = "none"
  /\ scraping = FALSE /\ todo = {} /\ got = E!Blank

\* The exporter when start_metrics_monitoring is called, and after the process.
Fresh(at, sel) ==
  /\ pc' = at /\ selected' = sel /\ turn' = 1 /\ ip' = 1 /\ reading' = 0 /\ lock' = "free"
  /\ registry' = {} /\ gauge' = E!Blank /\ http' = "none"
  /\ scraping' = FALSE /\ todo' = {} /\ got' = E!Blank

-----------------------------------------------------------------------------
(* The main thread.                                                        *)

ReadSelection ==
  /\ F!Boot \/ F!MakeFifo \/ F!OpenFifo \/ F!ReadData \/ F!ReadEnds
  /\ UNCHANGED exporter

\* Nothing, or the request to list the metrics.
ServeNothing ==
  /\ F!NothingToServe(F!parse_metrics(buf)) /\ F!Select
  /\ UNCHANGED exporter

\* A mutated form: the list is not cut to MAX_METRICS.
StartMonitoring_Whole ==
  /\ app = "parse" /\ ~F!NothingToServe(F!parse_metrics(buf))
  /\ app' = "monitoring"
  /\ UNCHANGED << fifo, status >>
  /\ Fresh("init", F!parse_metrics_Unbounded(buf))

\* A mutated form: the FIFO is closed when its text has been read.
StartMonitoring_Closes ==
  /\ app = "parse" /\ ~F!NothingToServe(F!parse_metrics(buf))
  /\ app' = "monitoring" /\ fd' = 0
  /\ UNCHANGED << buf, path, inode, wpc, wfd, tries, boots, crashes, status >>
  /\ Fresh("init", F!parse_metrics(buf))

StartMonitoring ==
  /\ app = "parse" /\ ~F!NothingToServe(F!parse_metrics(buf))
  /\ app' = "monitoring"
  /\ UNCHANGED << fifo, status >>
  /\ Fresh("init", F!parse_metrics(buf))

\* start_metrics_monitoring.  It returns, or must_register ends the process.
Monitor ==
  /\ app = "monitoring" /\ E!Main
  /\ app' = IF pc' # "ending" THEN app ELSE IF pc = "init" THEN "exit" ELSE "closing"
  /\ UNCHANGED fifo

\* The HTTP thread, if there is one, lives on while main returns.
Finish ==
  /\ F!CloseFifo \/ F!Unlink
  /\ UNCHANGED exporter

Exit  == F!Exit  /\ Fresh("exited", << >>)
Crash == F!Crash /\ Fresh("exited", << >>)

Program == ReadSelection \/ ServeNothing \/ StartMonitoring \/ Monitor \/ Finish \/ Exit

-----------------------------------------------------------------------------
(* The other threads and processes.                                        *)

Answer == E!Daemon      /\ UNCHANGED << app, fifo >>
Scrape == E!BeginScrape /\ UNCHANGED << app, fifo >>

Writer(w) == F!Writer(w) /\ UNCHANGED exporter

Next == \/ Program \/ Crash \/ Answer \/ Scrape
        \/ \E w \in Writers : Writer(w)

Safe == Init /\ [][Next]_vars

\* The threads and the shells are scheduled, and Docker restarts the container.  Nobody
\* has to write who does not wait for the FIFO, and nobody has to scrape.
Spec == /\ Safe /\ WF_vars(Program) /\ WF_vars(Answer)
        /\ \A w \in Waits : WF_vars(Writer(w))
        /\ \A w \in Writers \ Waits : WF_vars(wpc[w] # "open" /\ Writer(w))

-----------------------------------------------------------------------------
(* Properties.                                                             *)

Serving == app = "monitoring" /\ pc \in {"run", "sleep"}

\* Both planes together do what SelectionFifo says, its step `Select' included.
Plane == INSTANCE SelectionFifo
           WITH KnownMetrics <- Metrics,
                served <- IF Serving THEN selected ELSE << >>,
                app <- IF Serving THEN "serving" ELSE IF app = "monitoring" THEN "parse" ELSE app
ImplementsFifo == Plane!Safe

\* A value that a scrape shows belongs to the selection that is monitored: its
\* metrics are registered and no others, and the status file says "started".  And
\* it is what one of those asked for who wrote to the FIFO, in whatever order they
\* did, unless one of their texts begins or ends with a comma (see
\* ServedFromOneWriter in SelectionFifo).
ValuesAreOfOneSelection ==
  (\E g \in Metrics : got[g] # NoSample) =>
    /\ status = "started" /\ registry = ToSet(selected)
    /\ F!IsFifo(fd) /\ F!TextsAreTight =>
         \E w \in Writers : F!HasWritten(w) /\ F!AsksFor(w, selected)

\* No shell hangs for ever that waits for the FIFO or has begun to open it, whatever
\* becomes of the program: the FIFO stays open while metrics are served, and a
\* container that ends ends the shells in it.  In the end all of them have finished.
WritersFinish ==
  <>[](\A w \in Writers :
         w \in Waits \/ wpc[w] # "open" => wpc[w] \in {"done", "failed"})

Undisturbed(w) ==
  /\ \A other \in Writers \ {w} : wpc[other] \in {"poll", "open"}
  /\ crashes = 0 /\ status # "thread_error" /\ http # "failed"

\* The documented start, from end to end: when a writer that waited for the FIFO
\* has written and nobody else has, every metric it asked for comes to be sampled
\* and can be scraped, unless a call of the program fails.
DoneIsServed ==
  \A w \in Waits :
    []Undisturbed(w) =>
      (wpc[w] = "done" ~> /\ http = "up"
                          /\ \A g \in ToSet(F!Asks(w)) : gauge[g] # NoSample)
=============================================================================
