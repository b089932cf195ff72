--------------------------- MODULE SentinelProofs ----------------------------
(***************************************************************************)
(* Proofs about Sentinel: the whole process does what SelectionFifo says,  *)
(* and what a scrape shows is the selection of one writer.  What is proved *)
(* of SelectionFifo is used under the refinement mapping, as PP!...        *)
(***************************************************************************)
EXTENDS Sentinel, TLAPS

PP == INSTANCE SelectionFifoProofs
       WITH KnownMetrics <- Metrics,
            served <- IF Serving THEN selected ELSE << >>,
            app <- IF Serving THEN "serving" ELSE IF app = "monitoring" THEN "parse" ELSE app

-----------------------------------------------------------------------------
(* The invariant.                                                          *)

\* While start_metrics_monitoring runs it has the list that was read; what it has
\* registered and found so far agrees with what Select says of the whole list.
MonitorInv ==
  /\ app # "serving"
  /\ app = "monitoring" =>
       /\ pc \in {"init", "threads", "resolve", "run", "sleep"}
       /\ selected = F!parse_metrics(buf) /\ ~F!NothingToServe(selected)
       /\ turn \in DOMAIN selected
       /\ pc = "init" =>
            /\ registry = Metrics \cap {selected[j] : j \in 1 .. turn - 1}
            /\ \A i, j \in 1 .. turn - 1 :
                 i < j /\ selected[i] = selected[j] => selected[i] \notin Metrics
       /\ pc # "init" => ~F!RepeatsMetric(selected)
       /\ pc \in {"run", "sleep"} => F!Accepts(selected)

-----------------------------------------------------------------------------
(* Every step is one of SelectionFifo.                                     *)

\* Both sides have the same operators on files.
LEMMA SameOperators ==
  /\ \A i : F!IsFifo(i) <=> PP!IsFifo(i)
  /\ \A i : F!WritersOf(i) = PP!WritersOf(i) /\ F!Blocked(i) = PP!Blocked(i)
  /\ \A i, text : F!Holding(i, text) = PP!Holding(i, text)
  /\ \A i, open : F!Contents(i, open) = PP!Contents(i, open)
  /\ \A a, b : F!Join(a, b) = PP!Join(a, b) /\ F!Overlay(a, b) = PP!Overlay(a, b)
  /\ \A text, n : F!Cut(text, n) = PP!Cut(text, n)
  /\ F!Room = PP!Room
  /\ \A s : F!parse_metrics(s) = PP!parse_metrics(s)
  /\ \A s : /\ F!NothingToServe(s) <=> PP!NothingToServe(s)
            /\ F!RepeatsMetric(s) <=> PP!RepeatsMetric(s)
            /\ F!Accepts(s) <=> PP!Accepts(s)
  /\ F!EndOfText <=> PP!EndOfText
  /\ \A kind : F!NewInode(kind) <=> PP!NewInode(kind)
  /\ \A m : F!update_status(m) <=> PP!update_status(m)
<1>1. \A i : F!IsFifo(i) <=> PP!IsFifo(i)
  BY DEF F!IsFifo, PP!IsFifo
<1>2. \A i : F!WritersOf(i) = PP!WritersOf(i) /\ F!Blocked(i) = PP!Blocked(i)
  BY DEF F!WritersOf, PP!WritersOf, F!Blocked, PP!Blocked
<1>3. \A i, text : F!Holding(i, text) = PP!Holding(i, text)
  BY Zenon DEF F!Holding, PP!Holding
<1>4. \A i, open : F!Contents(i, open) = PP!Contents(i, open)
  BY <1>1, <1>3, Zenon DEF F!Contents, PP!Contents
<1>5. \A a, b : F!Join(a, b) = PP!Join(a, b) /\ F!Overlay(a, b) = PP!Overlay(a, b)
  <2>1. \A a, b : F!Join(a, b) = PP!Join(a, b)
    BY Zenon DEF F!Join, PP!Join, F!Front, PP!Front, F!Last, PP!Last, F!Glue, PP!Glue,
                 F!Blank, PP!Blank
  <2>2. \A a, b : F!Overlay(a, b) = PP!Overlay(a, b)
    BY Zenon DEF F!Overlay, PP!Overlay, F!Pieces, PP!Pieces, F!Join, PP!Join, F!Front,
                 PP!Front, F!Last, PP!Last, F!Glue, PP!Glue, F!Blank, PP!Blank
  <2> QED BY <2>1, <2>2
<1>6. /\ \A text, n : F!Cut(text, n) = PP!Cut(text, n)
      /\ F!Room = PP!Room
  BY Zenon DEF F!Cut, PP!Cut, F!Pieces, PP!Pieces, F!Blank, PP!Blank, F!Room, PP!Room
<1>7. \A s : F!parse_metrics(s) = PP!parse_metrics(s)
  BY Zenon DEF F!parse_metrics, PP!parse_metrics, F!Tokens, PP!Tokens, F!Kept, PP!Kept,
               F!Rank, PP!Rank, F!Cardinality, PP!Cardinality
<1>8. \A s : /\ F!NothingToServe(s) <=> PP!NothingToServe(s)
             /\ F!RepeatsMetric(s) <=> PP!RepeatsMetric(s)
             /\ F!Accepts(s) <=> PP!Accepts(s)
  BY Zenon DEF F!NothingToServe, PP!NothingToServe, F!RepeatsMetric, PP!RepeatsMetric,
               F!Accepts, PP!Accepts, F!ToSet, PP!ToSet
<1>9. F!EndOfText <=> PP!EndOfText
  BY <1>1, <1>2, Zenon DEF F!EndOfText, PP!EndOfText
<1>10. \A kind : F!NewInode(kind) <=> PP!NewInode(kind)
  BY Zenon DEF F!NewInode, PP!NewInode
<1>11. \A m : F!update_status(m) <=> PP!update_status(m)
  BY Zenon DEF F!update_status, PP!update_status
<1> QED BY <1>1, <1>2, <1>3, <1>4, <1>5, <1>6, <1>7, <1>8, <1>9, <1>10, <1>11, Zenon

\* The list is a sequence of names, and not an empty one.
LEMMA ListType ==
  ASSUME PP!FifoInv, ~F!NothingToServe(F!parse_metrics(buf))
  PROVE  /\ DOMAIN F!parse_metrics(buf) = 1 .. Len(F!parse_metrics(buf))
         /\ Len(F!parse_metrics(buf)) \in Nat \ {0}
<1>1. buf \in PP!Texts
  BY DEF PP!FifoInv, PP!TypeOK
<1>2. F!parse_metrics(buf) = PP!parse_metrics(buf)
  BY SameOperators
<1>3. PP!parse_metrics(buf) \in PP!Texts
  BY <1>1, PP!ParseType, WritersAssumption, NamesAssumption, BoundsAssumption DEF PP!Blank
<1>4. F!parse_metrics(buf) \in Seq(PP!Names)
  BY <1>2, <1>3 DEF PP!Texts
<1>5. F!parse_metrics(buf) # << >>
  BY DEF F!NothingToServe
<1> QED BY <1>4, <1>5

\* One table.
LEMMA SameMetrics == E!Metrics = Metrics
BY Zenon DEF E!Metrics, Metrics, E!all_metrics, all_metrics, E!Row, Row

\* Up to the list.
LEMMA ReadSelectionMaps ==
  ASSUME MonitorInv, ReadSelection
  PROVE  PP!Program
<1>1. ~Serving /\ ~Serving' /\ app # "monitoring" /\ app' # "monitoring"
  BY DEF ReadSelection, Serving, F!Boot, F!MakeFifo, F!OpenFifo, F!ReadData, F!ReadEnds,
         F!Goto
<1>2. CASE F!Boot
  <2>1. PP!Boot
    BY <1>1, <1>2, SameOperators DEF F!Boot, PP!Boot, F!Goto, PP!Goto, F!writerVars, PP!writerVars
  <2> QED BY <2>1 DEF PP!Program
<1>3. CASE F!MakeFifo
  <2>1. PP!MakeFifo
    BY <1>1, <1>3, SameOperators DEF F!MakeFifo, PP!MakeFifo, F!Goto, PP!Goto, F!writerVars, PP!writerVars
  <2> QED BY <2>1 DEF PP!Program
<1>4. CASE F!OpenFifo
  <2>1. PP!OpenFifo
    BY <1>1, <1>4, SameOperators DEF F!OpenFifo, PP!OpenFifo, F!Goto, PP!Goto
  <2> QED BY <2>1 DEF PP!Program
<1>5. CASE F!ReadData
  <2>1. PP!ReadData
    BY <1>1, <1>5, SameOperators DEF F!ReadData, PP!ReadData, F!Goto, PP!Goto, F!writerVars, PP!writerVars
  <2> QED BY <2>1 DEF PP!Program
<1>6. CASE F!ReadEnds
  <2>1. PP!ReadEnds
    BY <1>1, <1>6, SameOperators DEF F!ReadEnds, PP!ReadEnds, F!Goto, PP!Goto, F!writerVars, PP!writerVars
  <2> QED BY <2>1 DEF PP!Program
<1> QED BY <1>2, <1>3, <1>4, <1>5, <1>6 DEF ReadSelection

\* Nothing to serve.
LEMMA ServeNothingMaps ==
  ASSUME MonitorInv, ServeNothing
  PROVE  PP!Program
<1>1. ~Serving /\ ~Serving' /\ app # "monitoring" /\ app' = "closing"
  BY DEF ServeNothing, Serving, F!Select, F!Turn, F!Goto
<1>2. PP!Select
  BY <1>1, SameOperators
     DEF ServeNothing, F!Select, PP!Select, F!Turn, PP!Turn, F!Goto, PP!Goto,
         F!writerVars, PP!writerVars
<1> QED BY <1>2 DEF PP!Program

\* The call of start_metrics_monitoring decides nothing yet.
LEMMA StartMonitoringMaps ==
  ASSUME MonitorInv, StartMonitoring
  PROVE  UNCHANGED PP!vars
<1>1. ~Serving /\ ~Serving' /\ app = "parse" /\ app' = "monitoring"
  BY DEF StartMonitoring, Serving, Fresh
<1> QED BY <1>1 DEF StartMonitoring, fifo, PP!vars, PP!appVars, PP!writerVars

\* The four ends of Select are steps of start_metrics_monitoring; the others change
\* nothing that SelectionFifo sees.
LEMMA MonitorMaps ==
  ASSUME PP!FifoInv, MonitorInv, Monitor
  PROVE  PP!Select \/ UNCHANGED PP!vars
<1> DEFINE sel == PP!parse_metrics(buf)
<1>1. /\ app = "monitoring" /\ UNCHANGED fifo /\ E!Main
      /\ app' = IF pc' # "ending" THEN app ELSE IF pc = "init" THEN "exit" ELSE "closing"
  BY DEF Monitor
<1>2. /\ pc \in {"init", "threads", "resolve", "run", "sleep"}
      /\ selected = sel /\ ~PP!NothingToServe(sel) /\ turn \in DOMAIN selected
      /\ pc # "init" => ~PP!RepeatsMetric(sel)
      /\ DOMAIN selected = 1 .. Len(selected)
  BY <1>1, SameOperators, ListType DEF MonitorInv
<1> HIDE DEF sel
<1>3. UNCHANGED << fd, buf, path, inode, wpc, wfd, tries, boots, crashes >>
  BY <1>1 DEF fifo
<1>4. CASE E!RegisterMetric
  <2>1. pc = "init" /\ status' = status /\ ~Serving /\ selected' = selected
    BY <1>4 DEF E!RegisterMetric, Serving
  <2>2. CASE selected[turn] \in registry
    <3>1. pc' = "ending" /\ app' = "exit" /\ ~Serving'
      BY <1>1, <1>4, <2>1, <2>2 DEF E!RegisterMetric, Serving
    <3>2. PICK j \in 1 .. turn - 1 : selected[j] = selected[turn] /\ selected[j] \in Metrics
      BY <1>1, <2>1, <2>2 DEF MonitorInv
    <3>3. PP!RepeatsMetric(sel)
      BY <1>2, <3>2 DEF PP!RepeatsMetric
    <3>4. PP!Select
      BY <1>1, <1>2, <1>3, <2>1, <3>1, <3>3
         DEF PP!Select, PP!Turn, PP!Goto, PP!update_status, PP!writerVars, sel
    <3> QED BY <3>4
  <2>3. CASE selected[turn] \notin registry
    <3>1. pc' \in {"threads", "init"} /\ app' = "monitoring" /\ ~Serving'
      BY <1>1, <1>4, <2>3 DEF E!RegisterMetric, Serving
    <3> QED BY <1>1, <1>3, <2>1, <3>1 DEF PP!vars, PP!appVars, PP!writerVars
  <2> QED BY <2>2, <2>3
<1>5. CASE E!CreateThreads
  <2>1. pc = "threads" /\ ~Serving /\ ~Serving' /\ selected' = selected
    BY <1>5 DEF E!CreateThreads, Serving
  <2>2. CASE pc' = "resolve"
    <3>1. status' = status /\ app' = app
      BY <1>1, <1>5, <2>2 DEF E!CreateThreads
    <3> QED BY <1>1, <1>3, <2>1, <3>1 DEF PP!vars, PP!appVars, PP!writerVars
  <2>3. CASE pc' # "resolve"
    <3>1. pc' = "ending" /\ app' = "closing" /\ status' = "thread_error"
          /\ "pthread_create" \in Faults
      BY <1>1, <1>5, <2>1, <2>3 DEF E!CreateThreads
    <3>2. PP!Select
      BY <1>1, <1>2, <1>3, <2>1, <3>1
         DEF PP!Select, PP!Turn, PP!Goto, PP!update_status, PP!writerVars, sel
    <3> QED BY <3>2
  <2> QED BY <2>2, <2>3
<1>6. CASE E!ResolveFunctions
  <2>1. pc = "resolve" /\ ~Serving /\ selected' = selected
    BY <1>6 DEF E!ResolveFunctions, Serving
  <2>2. E!AllResolved <=> PP!Accepts(sel)
    <3>1. PP!Accepts(sel) <=> \A i \in DOMAIN sel : sel[i] \in Metrics
      BY DEF PP!Accepts, PP!ToSet
    <3>2. selected = sel
      BY <1>2
    <3> QED BY <3>1, <3>2, SameMetrics, Zenon DEF E!AllResolved
  <2>3. CASE E!AllResolved
    <3>1. pc' = "run" /\ app' = "monitoring" /\ status' = "started" /\ Serving'
      BY <1>1, <1>6, <2>3 DEF E!ResolveFunctions, Serving
    <3>2. PP!Serve(sel)
      BY <1>2, <1>3, <2>1, <3>1 DEF PP!Serve, PP!Goto, PP!update_status
    <3> QED BY <1>1, <1>2, <1>3, <2>1, <2>2, <2>3, <3>2 DEF PP!Select, PP!writerVars, sel
  <2>4. CASE ~E!AllResolved
    <3>1. pc' = "ending" /\ app' = "closing" /\ status' = "no_update_function" /\ ~Serving'
      BY <1>1, <1>6, <2>1, <2>4 DEF E!ResolveFunctions, Serving
    <3>2. PP!Select
      BY <1>1, <1>2, <1>3, <2>1, <2>2, <2>4, <3>1
         DEF PP!Select, PP!Turn, PP!Goto, PP!update_status, PP!writerVars, sel
    <3> QED BY <3>2
  <2> QED BY <2>3, <2>4
<1>7. CASE E!Probe \/ E!MutexLock \/ E!GaugeSet \/ E!MutexUnlock \/ E!FunctionReturns \/ E!SleepEnds
  <2>1. /\ pc \in {"run", "sleep"} /\ pc' \in {"run", "sleep"}
        /\ status' = status /\ selected' = selected
    BY <1>7
       DEF E!Probe, E!MutexLock, E!GaugeSet, E!MutexUnlock, E!FunctionReturns,
           E!SleepEnds, E!AtOp
  <2>2. app' = app /\ Serving /\ Serving'
    BY <1>1, <2>1 DEF Serving
  <2> QED BY <1>3, <2>1, <2>2 DEF PP!vars, PP!appVars, PP!writerVars
<1> QED BY <1>1, <1>4, <1>5, <1>6, <1>7 DEF E!Main

\* The rest of main, and the end of the process.
LEMMA FinishMaps ==
  ASSUME MonitorInv, Finish
  PROVE  PP!Program
<1>1. ~Serving /\ ~Serving' /\ app # "monitoring" /\ app' # "monitoring"
  BY DEF Finish, Serving, F!CloseFifo, F!Unlink, F!Goto
<1>2. CASE F!CloseFifo
  <2>1. PP!CloseFifo
    BY <1>1, <1>2, SameOperators
       DEF F!CloseFifo, PP!CloseFifo, F!Goto, PP!Goto, F!writerVars, PP!writerVars
  <2> QED BY <2>1 DEF PP!Program
<1>3. CASE F!Unlink
  <2>1. PP!Unlink
    BY <1>1, <1>3 DEF F!Unlink, PP!Unlink, F!Goto, PP!Goto, F!writerVars, PP!writerVars
  <2> QED BY <2>1 DEF PP!Program
<1> QED BY <1>2, <1>3 DEF Finish

\* The end takes the same things from both.
LEMMA DieMaps ==
  ASSUME F!Die
  PROVE  PP!Die /\ app' = "down"
<1>1. ~Serving' /\ app' = "down"
  BY DEF F!Die, F!Goto, Serving
<1> QED BY <1>1, SameOperators DEF F!Die, PP!Die, F!Goto, PP!Goto

\* Whatever start_metrics_monitoring was doing, the process ends as SelectionFifo has it.
LEMMA EndMaps ==
  ASSUME MonitorInv, Exit \/ Crash
  PROVE  PP!Exit \/ PP!Crash
<1>1. CASE Exit
  BY <1>1, DieMaps DEF Exit, F!Exit, PP!Exit, Serving
<1>2. CASE Crash
  BY <1>2, DieMaps DEF Crash, F!Crash, PP!Crash, Serving
<1> QED BY <1>1, <1>2

\* The writers see no difference.
LEMMA WriterMaps ==
  ASSUME MonitorInv, NEW w \in Writers, Writer(w)
  PROVE  PP!Writer(w)
<1>1. UNCHANGED exporter /\ F!Writer(w)
  BY DEF Writer
<1>2. selected' = selected /\ pc' = pc
  BY <1>1 DEF exporter
<1>3. app' = app \/ (app = "opening" /\ app' = "reading")
  BY <1>1 DEF F!Writer, F!Poll, F!Open, F!Write, F!Close, F!appVars, F!Goto
<1>4. Serving' <=> Serving
  BY <1>2, <1>3 DEF Serving
<1>5. CASE F!Poll(w)
  <2>1. PP!Poll(w)
    BY <1>2, <1>4, <1>5, SameOperators DEF F!Poll, PP!Poll, F!appVars, PP!appVars
  <2> QED BY <2>1 DEF PP!Writer
<1>6. CASE F!Open(w)
  <2>1. PP!Open(w)
    BY <1>2, <1>3, <1>4, <1>6, SameOperators DEF F!Open, PP!Open, F!Goto, PP!Goto, MonitorInv, Serving
  <2> QED BY <2>1 DEF PP!Writer
<1>7. CASE F!Write(w)
  <2>1. PP!Write(w)
    BY <1>2, <1>4, <1>7, SameOperators DEF F!Write, PP!Write, F!appVars, PP!appVars
  <2> QED BY <2>1 DEF PP!Writer
<1>8. CASE F!Close(w)
  <2>1. PP!Close(w)
    BY <1>2, <1>4, <1>8, SameOperators DEF F!Close, PP!Close, F!appVars, PP!appVars
  <2> QED BY <2>1 DEF PP!Writer
<1> QED BY <1>1, <1>5, <1>6, <1>7, <1>8 DEF F!Writer

\* The HTTP thread changes nothing that SelectionFifo sees.
LEMMA OthersMap ==
  ASSUME Answer \/ Scrape \/ UNCHANGED vars
  PROVE  UNCHANGED PP!vars
<1>1. UNCHANGED << app, fifo, status, pc, selected >>
  BY DEF Answer, Scrape, vars, exporter, E!Daemon, E!StartDaemon, E!ReadGauge, E!EndScrape,
         E!BeginScrape, E!mainVars
<1>2. Serving' <=> Serving
  BY <1>1 DEF Serving
<1> QED BY <1>1, <1>2 DEF fifo, PP!vars, PP!appVars, PP!writerVars

\* Every step of Sentinel is one of SelectionFifo or changes nothing that it sees.
LEMMA StepMaps ==
  ASSUME PP!FifoInv, MonitorInv, [Next]_vars
  PROVE  [PP!Next]_PP!vars
<1>1. CASE Program
  BY <1>1, ReadSelectionMaps, ServeNothingMaps, StartMonitoringMaps, MonitorMaps,
     FinishMaps, EndMaps DEF Program, PP!Next, PP!Program
<1>2. CASE Crash
  BY <1>2, EndMaps DEF PP!Next, PP!Program
<1>3. CASE \E w \in Writers : Writer(w)
  BY <1>3, WriterMaps DEF PP!Next
<1>4. CASE Answer \/ Scrape \/ UNCHANGED vars
  BY <1>4, OthersMap
<1> QED BY <1>1, <1>2, <1>3, <1>4 DEF Next

-----------------------------------------------------------------------------
(* The invariant holds.                                                    *)

\* What was registered before `turn' is what the next turn finds.
LEMMA RegisterKeepsMonitorInv ==
  ASSUME PP!FifoInv, MonitorInv, app = "monitoring", E!RegisterMetric,
         app' = IF pc' # "ending" THEN app ELSE "exit", buf' = buf
  PROVE  MonitorInv'
<1>1. /\ pc = "init" /\ selected' = selected
      /\ selected = F!parse_metrics(buf) /\ ~F!NothingToServe(selected)
      /\ turn \in DOMAIN selected
      /\ registry = Metrics \cap {selected[j] : j \in 1 .. turn - 1}
      /\ \A i, j \in 1 .. turn - 1 :
           i < j /\ selected[i] = selected[j] => selected[i] \notin Metrics
  BY DEF MonitorInv, E!RegisterMetric
<1>2. DOMAIN selected = 1 .. Len(selected) /\ Len(selected) \in Nat \ {0}
  BY <1>1, ListType
<1>3. F!parse_metrics(buf)' = F!parse_metrics(buf)
  BY DEF F!parse_metrics, F!Tokens, F!Kept, F!Rank
<1>4. CASE selected[turn] \in registry
  <2>1. app' = "exit"
    BY <1>4 DEF E!RegisterMetric
  <2> QED BY <2>1 DEF MonitorInv
<1>5. CASE selected[turn] \notin registry
  <2>1. /\ pc' = IF turn = Len(selected) THEN "threads" ELSE "init"
        /\ turn' = IF turn = Len(selected) THEN 1 ELSE turn + 1
        /\ registry' = registry \cup ({selected[turn]} \cap Metrics)
        /\ app' = "monitoring"
    BY <1>1, <1>5, SameMetrics DEF E!RegisterMetric, E!LastTurn
  <2>2. \A i, j \in 1 .. turn :
          i < j /\ selected[i] = selected[j] => selected[i] \notin Metrics
    BY <1>1, <1>2, <1>5
  <2>3. CASE turn = Len(selected)
    <3>1. ~F!RepeatsMetric(selected)
      BY <1>2, <2>2, <2>3 DEF F!RepeatsMetric
    <3>2. ~F!RepeatsMetric(selected)' /\ ~F!NothingToServe(selected)'
      BY <1>1, <3>1 DEF F!RepeatsMetric, F!NothingToServe
    <3> QED BY <1>1, <1>2, <1>3, <2>1, <2>3, <3>2 DEF MonitorInv
  <2>4. CASE turn # Len(selected)
    <3>1. turn' = turn + 1 /\ turn' \in DOMAIN selected /\ pc' = "init"
          /\ 1 .. turn' - 1 = (1 .. turn - 1) \cup {turn} /\ 1 .. turn' - 1 = 1 .. turn
      BY <1>1, <1>2, <2>1, <2>4
    <3>2. registry' = Metrics \cap {selected[j] : j \in 1 .. turn' - 1}
      BY <1>1, <2>1, <3>1
    <3>3. ~F!NothingToServe(selected)'
      BY <1>1 DEF F!NothingToServe
    <3> QED BY <1>1, <1>3, <2>1, <2>2, <3>1, <3>2, <3>3 DEF MonitorInv
  <2> QED BY <2>3, <2>4
<1> QED BY <1>4, <1>5

\* The list does not change any more.
LEMMA MonitorKeepsMonitorInv ==
  ASSUME PP!FifoInv, MonitorInv, Monitor
  PROVE  MonitorInv'
<1>1. /\ app = "monitoring" /\ buf' = buf /\ E!Main
      /\ app' = IF pc' # "ending" THEN app ELSE IF pc = "init" THEN "exit" ELSE "closing"
  BY DEF Monitor, fifo
<1>2. F!parse_metrics(buf)' = F!parse_metrics(buf)
  BY <1>1 DEF F!parse_metrics, F!Tokens, F!Kept, F!Rank
<1>3. CASE E!RegisterMetric
  <2>1. app' = IF pc' # "ending" THEN app ELSE "exit"
    BY <1>1, <1>3 DEF E!RegisterMetric
  <2> QED BY <1>1, <1>3, <2>1, RegisterKeepsMonitorInv
<1>4. ASSUME ~E!RegisterMetric
      PROVE  /\ pc \in {"threads", "resolve", "run", "sleep"} /\ selected' = selected
             /\ pc' \in {"resolve", "run", "sleep", "ending"} /\ turn' \in DOMAIN selected
             /\ pc' \in {"run", "sleep"} =>
                  pc \in {"run", "sleep"} \/ (pc = "resolve" /\ E!AllResolved)
  <2>1. turn \in DOMAIN selected /\ DOMAIN selected = 1 .. Len(selected)
        /\ Len(selected) \in Nat \ {0}
    BY <1>1, ListType DEF MonitorInv
  <2>2. turn' = turn \/ turn' = 1 \/ (turn' = turn + 1 /\ turn # Len(selected))
    BY <1>1, <1>4
       DEF E!Main, E!CreateThreads, E!ResolveFunctions, E!Probe, E!MutexLock, E!GaugeSet,
           E!MutexUnlock, E!FunctionReturns, E!SleepEnds, E!LastTurn
  <2>3. turn' \in DOMAIN selected
    BY <2>1, <2>2
  <2>4. /\ pc \in {"threads", "resolve", "run", "sleep"} /\ selected' = selected
        /\ pc' \in {"resolve", "run", "sleep", "ending"}
        /\ pc' \in {"run", "sleep"} =>
             pc \in {"run", "sleep"} \/ (pc = "resolve" /\ E!AllResolved)
    BY <1>1, <1>4
       DEF E!Main, E!CreateThreads, E!ResolveFunctions, E!Probe, E!MutexLock, E!GaugeSet,
           E!MutexUnlock, E!FunctionReturns, E!SleepEnds, E!AtOp
  <2> QED BY <2>3, <2>4
<1>5. CASE ~E!RegisterMetric /\ pc' = "ending"
  <2>1. app' \in {"exit", "closing"}
    BY <1>1, <1>5
  <2> QED BY <2>1 DEF MonitorInv
<1>6. CASE ~E!RegisterMetric /\ pc' # "ending"
  <2>1. /\ selected = F!parse_metrics(buf) /\ ~F!NothingToServe(selected)
        /\ ~F!RepeatsMetric(selected) /\ (pc \in {"run", "sleep"} => F!Accepts(selected))
        /\ DOMAIN selected = 1 .. Len(selected)
    BY <1>1, <1>4, <1>6, ListType DEF MonitorInv
  <2>2. pc' \in {"run", "sleep"} => F!Accepts(selected)
    BY <1>4, <1>6, <2>1, SameMetrics DEF E!AllResolved, F!Accepts, F!ToSet
  <2>3. /\ F!NothingToServe(selected)' <=> F!NothingToServe(selected)
        /\ F!RepeatsMetric(selected)' <=> F!RepeatsMetric(selected)
        /\ F!Accepts(selected)' <=> F!Accepts(selected)
    BY <1>4, <1>6 DEF F!NothingToServe, F!RepeatsMetric, F!Accepts
  <2> QED BY <1>1, <1>2, <1>4, <1>6, <2>1, <2>2, <2>3 DEF MonitorInv
<1> QED BY <1>3, <1>5, <1>6

\* Every step keeps it.
LEMMA StepMonitorInv ==
  ASSUME PP!FifoInv, MonitorInv, [Next]_vars
  PROVE  MonitorInv'
<1>1. CASE ReadSelection \/ ServeNothing \/ Finish
  <2>1. app' \notin {"monitoring", "serving"}
    BY <1>1
       DEF ReadSelection, ServeNothing, Finish, F!Boot, F!MakeFifo, F!OpenFifo, F!ReadData,
           F!ReadEnds, F!Select, F!Turn, F!CloseFifo, F!Unlink, F!Goto, MonitorInv
  <2> QED BY <2>1 DEF MonitorInv
<1>2. CASE StartMonitoring
  <2>1. /\ app' = "monitoring" /\ buf' = buf /\ pc' = "init" /\ turn' = 1 /\ registry' = {}
        /\ selected' = F!parse_metrics(buf) /\ ~F!NothingToServe(F!parse_metrics(buf))
    BY <1>2 DEF StartMonitoring, Fresh, fifo
  <2>5. buf' = buf
    BY <2>1
  <2>2. F!parse_metrics(buf)' = F!parse_metrics(buf)
    BY <2>5
  <2>3. ~F!NothingToServe(selected)'
    BY <2>1 DEF F!NothingToServe
  <2>4. turn' \in DOMAIN selected'
    BY <2>1, ListType
  <2> QED BY <2>1, <2>2, <2>3, <2>4 DEF MonitorInv
<1>3. CASE Exit \/ Crash
  BY <1>3 DEF Exit, Crash, F!Exit, F!Crash, F!Die, F!Goto, MonitorInv
<1>4. CASE Answer \/ Scrape \/ UNCHANGED vars \/ \E w \in Writers : Writer(w)
  <2>1. UNCHANGED << buf, pc, selected, turn, registry >>
        /\ (app' = app \/ (app = "opening" /\ app' = "reading"))
    BY <1>4
       DEF Answer, Scrape, vars, exporter, fifo, E!Daemon, E!StartDaemon, E!ReadGauge,
           E!EndScrape, E!BeginScrape, E!mainVars, Writer, F!Writer, F!Poll, F!Open,
           F!Write, F!Close, F!appVars, F!Goto
  <2>2. F!parse_metrics(buf)' = F!parse_metrics(buf)
    BY <2>1 DEF F!parse_metrics, F!Tokens, F!Kept, F!Rank
  <2>3. /\ F!NothingToServe(selected)' <=> F!NothingToServe(selected)
        /\ F!RepeatsMetric(selected)' <=> F!RepeatsMetric(selected)
        /\ F!Accepts(selected)' <=> F!Accepts(selected)
    BY <2>1 DEF F!NothingToServe, F!RepeatsMetric, F!Accepts
  <2> QED BY <2>1, <2>2, <2>3 DEF MonitorInv
<1> QED BY <1>1, <1>2, <1>3, <1>4, MonitorKeepsMonitorInv DEF Next, Program

\* The start of the process is that of SelectionFifo.
LEMMA InitMaps == Init => PP!Init /\ MonitorInv
BY DEF Init, F!Init, PP!Init, MonitorInv, Serving

\* The invariants of both planes, and the refinement that they carry.
LEMMA InvariantOfSentinel == Safe => [](PP!FifoInv /\ MonitorInv) /\ PP!Safe
<1>1. Init => PP!FifoInv
  BY InitMaps, PP!InitFifoInv, WritersAssumption, NamesAssumption, BoundsAssumption
     DEF PP!Blank
<1>2. PP!FifoInv /\ MonitorInv /\ [Next]_vars => [PP!Next]_PP!vars
  BY StepMaps
<1>3. PP!FifoInv /\ [PP!Next]_PP!vars => PP!FifoInv'
  BY PP!StepFifoInv, WritersAssumption, NamesAssumption, BoundsAssumption DEF PP!Blank
<1>4. PP!FifoInv /\ MonitorInv /\ [Next]_vars => MonitorInv'
  BY StepMonitorInv
<1>5. Init => PP!Init /\ MonitorInv
  BY InitMaps
<1> QED BY <1>1, <1>2, <1>3, <1>4, <1>5, PTL DEF Safe, PP!Safe

\* PP and Plane are the same instance of the same formulas.
LEMMA SamePlane == /\ PP!Init <=> Plane!Init
                   /\ [PP!Next]_PP!vars <=> [Plane!Next]_Plane!vars
<1>1. PP!Init <=> Plane!Init
  BY Zenon DEF PP!Init, Plane!Init
<1>2. UNCHANGED PP!vars <=> UNCHANGED Plane!vars
  BY DEF PP!vars, Plane!vars, PP!appVars, Plane!appVars, PP!writerVars, Plane!writerVars
<1>3. PP!Next <=> Plane!Next
  BY Zenon
     DEF PP!Program, Plane!Program, PP!Crash, Plane!Crash, PP!Writer, Plane!Writer,
         PP!Boot, Plane!Boot, PP!MakeFifo, Plane!MakeFifo, PP!OpenFifo,
         Plane!OpenFifo, PP!ReadData, Plane!ReadData, PP!ReadEnds, Plane!ReadEnds,
         PP!Select, Plane!Select, PP!CloseFifo, Plane!CloseFifo, PP!Unlink,
         Plane!Unlink, PP!Exit, Plane!Exit, PP!Die, Plane!Die, PP!Poll, Plane!Poll,
         PP!Open, Plane!Open, PP!Write, Plane!Write, PP!Close, Plane!Close, PP!Goto,
         Plane!Goto, PP!update_status, Plane!update_status, PP!NewInode,
         Plane!NewInode, PP!Turn, Plane!Turn, PP!Serve, Plane!Serve, PP!Holding,
         Plane!Holding, PP!Contents, Plane!Contents, PP!IsFifo, Plane!IsFifo,
         PP!WritersOf, Plane!WritersOf, PP!Blocked, Plane!Blocked, PP!Join,
         Plane!Join, PP!Overlay, Plane!Overlay, PP!Front, Plane!Front, PP!Last,
         Plane!Last, PP!Glue, Plane!Glue, PP!Blank, Plane!Blank, PP!Pieces,
         Plane!Pieces, PP!Cut, Plane!Cut, PP!Room, Plane!Room, PP!Tokens,
         Plane!Tokens, PP!Kept, Plane!Kept, PP!Rank, Plane!Rank,
         PP!Cardinality, Plane!Cardinality, PP!EndOfText, Plane!EndOfText, PP!parse_metrics,
         Plane!parse_metrics, PP!NothingToServe, Plane!NothingToServe,
         PP!RepeatsMetric, Plane!RepeatsMetric, PP!Accepts, Plane!Accepts, PP!ToSet,
         Plane!ToSet, PP!appVars, Plane!appVars, PP!writerVars, Plane!writerVars,
         PP!Next, Plane!Next
<1> QED BY <1>1, <1>2, <1>3

\* Both planes together do what SelectionFifo says: start_metrics_monitoring, step by
\* step and with the HTTP thread beside it, has the four outcomes of Select and no
\* other, for every set of writers and selections and whatever fails.
THEOREM SentinelImplementsFifo == Spec => ImplementsFifo
BY InvariantOfSentinel, SamePlane, PTL DEF Spec, ImplementsFifo, Plane!Safe, PP!Safe

\* So the whole process keeps what the control plane promises: it serves nothing or
\* one acceptable selection, which it never changes, and the status file, if it can be
\* written, says "started" exactly while the gauges are updated.
THEOREM SentinelServesOneSelection ==
  /\ Spec => Plane!ImplementsConfiguration
  /\ "status" \notin Faults => (Spec => []Plane!StatusTellsTheTruth)
<1> USE WritersAssumption, NamesAssumption, BoundsAssumption DEF PP!Blank
<1>1. Spec => Plane!ImplementsConfiguration
  <2>1. PP!Init => Plane!Board!Init
    BY DEF PP!Init, Plane!Board!Init
  <2>2. PP!FifoInv /\ [PP!Next]_PP!vars => [Plane!Board!Next]_(IF Serving THEN selected ELSE << >>)
    BY PP!StepBoard
       DEF PP!Board!Next, PP!Board!Adopt, PP!Board!Lose, PP!Board!Acceptable,
           Plane!Board!Next, Plane!Board!Adopt, Plane!Board!Lose, Plane!Board!Acceptable
  <2> QED
    BY <2>1, <2>2, InvariantOfSentinel, PTL
       DEF Spec, PP!Safe, Plane!ImplementsConfiguration, Plane!Board!Spec
<1>2. ASSUME "status" \notin Faults PROVE Spec => []Plane!StatusTellsTheTruth
  <2>1. PP!Init => PP!StatusInv
    BY DEF PP!Init, PP!StatusInv
  <2>2. PP!StatusInv /\ [PP!Next]_PP!vars => PP!StatusInv'
    BY <1>2, PP!StepStatusInv
  <2>3. PP!StatusInv => Plane!StatusTellsTheTruth
    BY DEF PP!StatusInv, Plane!StatusTellsTheTruth
  <2> QED BY <2>1, <2>2, <2>3, InvariantOfSentinel, PTL DEF Spec, PP!Safe
<1> QED BY <1>1, <1>2

-----------------------------------------------------------------------------
(* What a scrape shows.                                                    *)

\* Nothing is sampled before the loop runs; while it runs, the registry is what was
\* selected.
ShownInv ==
  /\ ~Serving => gauge = E!Blank /\ got = E!Blank
  /\ Serving => status = "started" /\ registry = ToSet(selected)
  /\ app = "monitoring" /\ pc \in {"threads", "resolve"} =>
       registry = Metrics \cap ToSet(selected)

\* The gauges are set only while the loop runs.
LEMMA MonitorKeepsShownInv ==
  ASSUME PP!FifoInv, MonitorInv, ShownInv, Monitor
  PROVE  ShownInv'
<1>1. /\ app = "monitoring" /\ E!Main
      /\ app' = IF pc' # "ending" THEN app ELSE IF pc = "init" THEN "exit" ELSE "closing"
      /\ pc \in {"init", "threads", "resolve", "run", "sleep"}
      /\ turn \in DOMAIN selected /\ DOMAIN selected = 1 .. Len(selected)
  BY ListType DEF Monitor, MonitorInv
<1>2. CASE E!RegisterMetric
  <2>1. ~Serving /\ ~Serving' /\ gauge' = gauge /\ got' = got /\ selected' = selected
        /\ pc = "init" /\ registry = Metrics \cap {selected[j] : j \in 1 .. turn - 1}
    BY <1>1, <1>2 DEF E!RegisterMetric, E!scrapeVars, Serving, MonitorInv
  <2>2. ASSUME pc' = "threads" PROVE registry' = Metrics \cap ToSet(selected)
    <3>1. turn = Len(selected) /\ registry' = registry \cup ({selected[turn]} \cap Metrics)
      BY <1>2, <2>2, SameMetrics DEF E!RegisterMetric, E!LastTurn
    <3>2. DOMAIN selected = (1 .. turn - 1) \cup {turn}
      BY <1>1, <3>1
    <3>3. ToSet(selected) = {selected[j] : j \in 1 .. turn - 1} \cup {selected[turn]}
      BY <3>2 DEF ToSet
    <3> QED BY <2>1, <3>1, <3>3
  <2>3. pc' # "resolve"
    BY <1>2 DEF E!RegisterMetric
  <2> QED BY <2>1, <2>2, <2>3 DEF ShownInv, E!Blank
<1>3. CASE E!CreateThreads
  <2>1. /\ ~Serving /\ ~Serving' /\ gauge' = gauge /\ got' = got /\ selected' = selected
        /\ pc = "threads" /\ registry' = registry
    BY <1>3 DEF E!CreateThreads, E!scrapeVars, Serving
  <2> QED BY <1>1, <2>1 DEF ShownInv, E!Blank
<1>4. CASE E!ResolveFunctions
  <2>1. /\ ~Serving /\ gauge' = gauge /\ got' = got /\ selected' = selected
        /\ pc = "resolve" /\ registry' = registry
        /\ pc' \in {"run", "ending"}
        /\ pc' = "run" => status' = "started" /\ E!AllResolved
    BY <1>4 DEF E!ResolveFunctions, E!scrapeVars, Serving
  <2>2. registry = Metrics \cap ToSet(selected)
    BY <1>1, <2>1 DEF ShownInv
  <2>3. E!AllResolved => registry = ToSet(selected)
    BY <2>2, SameMetrics DEF E!AllResolved, ToSet
  <2> QED BY <1>1, <2>1, <2>3 DEF ShownInv, Serving, E!Blank
<1>5. CASE E!Probe \/ E!MutexLock \/ E!GaugeSet \/ E!MutexUnlock \/ E!FunctionReturns \/ E!SleepEnds
  <2>1. /\ pc \in {"run", "sleep"} /\ pc' \in {"run", "sleep"}
        /\ status' = status /\ selected' = selected /\ registry' = registry
    BY <1>5
       DEF E!Probe, E!MutexLock, E!GaugeSet, E!MutexUnlock, E!FunctionReturns,
           E!SleepEnds, E!AtOp
  <2>2. app' = app /\ Serving /\ Serving'
    BY <1>1, <2>1 DEF Serving
  <2> QED BY <2>1, <2>2 DEF ShownInv
<1> QED BY <1>1, <1>2, <1>3, <1>4, <1>5 DEF E!Main

\* Every step keeps it.
LEMMA StepShownInv ==
  ASSUME PP!FifoInv, MonitorInv, ShownInv, [Next]_vars
  PROVE  ShownInv'
<1>1. CASE ReadSelection \/ ServeNothing \/ Finish
  <2>1. app # "monitoring" /\ app' # "monitoring" /\ gauge' = gauge /\ got' = got
    BY <1>1
       DEF ReadSelection, ServeNothing, Finish, F!Boot, F!MakeFifo, F!OpenFifo, F!ReadData,
           F!ReadEnds, F!Select, F!Turn, F!CloseFifo, F!Unlink, F!Goto, exporter
  <2> QED BY <2>1 DEF ShownInv, Serving, E!Blank
<1>2. CASE StartMonitoring
  BY <1>2 DEF StartMonitoring, Fresh, ShownInv, Serving, E!Blank
<1>3. CASE Exit \/ Crash
  BY <1>3 DEF Exit, Crash, Fresh, F!Exit, F!Crash, F!Die, F!Goto, ShownInv, Serving, E!Blank
<1>4. CASE \E w \in Writers : Writer(w)
  <2>1. UNCHANGED << pc, selected, registry, gauge, got, status >>
        /\ (app' = app \/ (app = "opening" /\ app' = "reading"))
    BY <1>4
       DEF exporter, Writer, F!Writer, F!Poll, F!Open, F!Write, F!Close, F!appVars, F!Goto
  <2> QED BY <2>1 DEF ShownInv, Serving, E!Blank
<1>5. CASE Answer \/ Scrape \/ UNCHANGED vars
  <2>1. UNCHANGED << app, pc, selected, registry, gauge, status >>
    BY <1>5
       DEF Answer, Scrape, vars, exporter, E!Daemon, E!StartDaemon, E!ReadGauge,
           E!EndScrape, E!BeginScrape, E!mainVars
  <2>2. gauge = E!Blank /\ got = E!Blank => got' = E!Blank
    BY <1>5
       DEF Answer, Scrape, vars, exporter, E!Daemon, E!StartDaemon, E!ReadGauge,
           E!EndScrape, E!BeginScrape, E!scrapeVars, E!Blank
  <2> QED BY <2>1, <2>2 DEF ShownInv, Serving, E!Blank
<1> QED BY <1>1, <1>2, <1>3, <1>4, <1>5, MonitorKeepsShownInv DEF Next, Program

\* Whatever the writers do and whatever fails, a value that a scrape shows belongs to
\* the selection that is monitored, registered as a whole and reported as started; and
\* if that came through the FIFO, and none of the texts written begins or ends with a
\* comma or a blank field, it is what one writer asked for (see OneWriterIsServed in
\* SelectionFifoProofs).
THEOREM ScrapesShowOneSelection == Spec => []ValuesAreOfOneSelection
<1>1. Init => ShownInv
  BY DEF Init, F!Init, ShownInv, Serving
<1>2. PP!FifoInv /\ MonitorInv /\ ShownInv /\ [Next]_vars => ShownInv'
  BY StepShownInv
<1>3. Init => PP!OneInv
  BY InitMaps, PP!InitOneInv, WritersAssumption, NamesAssumption, BoundsAssumption DEF PP!Blank
<1>4. PP!FifoInv /\ PP!OneInv /\ [PP!Next]_PP!vars => PP!OneInv'
  BY PP!StepOneInv, WritersAssumption, NamesAssumption, BoundsAssumption DEF PP!Blank
<1>5. PP!FifoInv /\ MonitorInv /\ [Next]_vars => [PP!Next]_PP!vars
  BY StepMaps
<1>6. PP!OneInv /\ ShownInv => ValuesAreOfOneSelection
  <2> SUFFICES ASSUME PP!OneInv, ShownInv, NEW g \in Metrics, got[g] # NoSample
               PROVE  /\ status = "started" /\ registry = ToSet(selected)
                      /\ F!IsFifo(fd) /\ F!TextsAreTight =>
                           \E w \in Writers : F!HasWritten(w) /\ F!AsksFor(w, selected)
    BY DEF ValuesAreOfOneSelection
  <2>1. Serving
    BY SameMetrics DEF ShownInv, E!Blank
  <2>2. PP!IsFifo(fd) /\ PP!TextsAreTight =>
          \E w \in Writers : PP!HasWritten(w) /\ PP!AsksFor(w, selected)
    BY <2>1 DEF PP!OneInv, PP!ServedFromOneWriter
  <2>3. /\ \A w \in Writers : F!HasWritten(w) <=> PP!HasWritten(w)
        /\ \A w \in Writers : F!AsksFor(w, selected) <=> PP!AsksFor(w, selected)
    <3>1. \A w \in Writers : F!Asks(w) = PP!Asks(w)
      BY SameOperators DEF PP!Asks, F!Asks
    <3>2. \A a, b : F!IsPrefix(a, b) <=> PP!IsPrefix(a, b)
      BY Zenon DEF F!IsPrefix, PP!IsPrefix
    <3> QED BY <3>1, <3>2, Zenon DEF F!HasWritten, PP!HasWritten, F!AsksFor, PP!AsksFor
  <2>4. F!TextsAreTight <=> PP!TextsAreTight
    BY <2>3, Zenon DEF F!TextsAreTight, PP!TextsAreTight, F!Tight, PP!Tight, F!Blank, PP!Blank,
                       F!Last, PP!Last
  <2> QED BY <2>1, <2>2, <2>3, <2>4, SameOperators DEF ShownInv
<1> QED BY <1>1, <1>2, <1>3, <1>4, <1>5, <1>6, InvariantOfSentinel, PTL DEF Spec, Safe
=============================================================================
