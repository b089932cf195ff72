---------------------------- MODULE SelectionFifo ----------------------------
(***************************************************************************)
(* The control plane of SystemSentinel: how a metric selection reaches the *)
(* program.  The program creates /tmp/monitor_fifo, reads one selection    *)
(* from it and serves it for ever, or lists the metrics or reports an      *)
(* error, removes the FIFO and ends.  Shell writers (scripts/up.sh, the    *)
(* installer, CI, an operator) wait for the FIFO, or do not, and redirect  *)
(* a printf into it.  The program runs in a container that is restarted    *)
(* with an empty /tmp whenever it ends, or natively.                       *)
(*                                                                         *)
(* A text is the sequence of its comma-separated fields, each of which is  *)
(* a name, empty, or Blank.  Texts written one after the other have no     *)
(* comma between them, so that the fields that meet become one.  A name    *)
(* broken off, or run together with another, is Garbled: texts in which    *)
(* somebody types a piece of a metric's name, or a name that begins or     *)
(* ends with one, are outside the model.                                   *)
(***************************************************************************)
EXTENDS Integers, Sequences, SequencesExt, FiniteSets

CONSTANTS
  Writers,       \* the shells that write a selection
  Selection,     \* what each of them writes
  Waits,         \* the writers that test for the FIFO before they write
  KnownMetrics,  \* the names of all_metrics
  Garbled,       \* a name broken off, or names run together
  MaxMetrics,    \* MAX_METRICS
  BufferFields,  \* fields that fit into the buffer, the last perhaps in part
  MaxTries,      \* SYSTEM_SENTINEL_INIT_TRIES
  Container,     \* runs in a container, not natively
  Faults,        \* the calls of the program that may fail
  MaxBoots,      \* bound on the number of starts
  MaxCrashes     \* bound on the number of crashes

Blank == " "  \* a field of white space, which is trimmed to a name of no letters

Names == KnownMetrics \cup {"", Blank, Garbled}
         \cup UNION {ToSet(Selection[w]) : w \in Writers}

ASSUME WritersAssumption ==
  /\ Selection \in [Writers -> Seq(STRING) \ {<< >>, << "" >>}]
  /\ Waits \subseteq Writers
ASSUME NamesAssumption ==
  /\ KnownMetrics \subseteq STRING \ {"", Blank, "1"}
  /\ Garbled \in STRING \ ({"", Blank, "1"} \cup KnownMetrics)
ASSUME BoundsAssumption ==
  /\ MaxMetrics \in Nat \ {0} /\ BufferFields \in Nat \ {0, 1}
  /\ MaxTries \in Nat \ {0} /\ MaxBoots \in Nat /\ MaxCrashes \in Nat
  /\ Container \in BOOLEAN

VARIABLES
  app,      \* where the program is
  fd,       \* the inode it has open for reading, or 0
  buf,      \* buffer
  served,   \* the selection it serves
  status,   \* what /tmp/monitor_status says
  path,     \* the inode at /tmp/monitor_fifo, or 0
  inode,    \* kind of the inodes made so far, and the texts in them
  wpc,      \* where each writer is
  wfd,      \* the inode each writer has open or waits for, or 0
  tries,    \* tests each writer has made
  boots,    \* number of starts
  crashes   \* number of crashes

appVars    == << app, fd, buf, served, status >>
writerVars == << wpc, wfd, tries >>
vars == << appVars, path, inode, writerVars, boots, crashes >>

-----------------------------------------------------------------------------
(* Texts.                                                                  *)

\* One field of two, the second written right behind the first.
Glue(x, y) == IF x = "" \/ (x = Blank /\ y # "") THEN y
              ELSE IF y \in {"", Blank} THEN x ELSE Garbled

Join(a, b) == IF a = << >> THEN b ELSE IF b = << >> THEN a
              ELSE Front(a) \o << Glue(Last(a), Head(b)) >> \o Tail(b)

\* What a cut in or beside a field can leave of it.
Pieces(f) == {f, "", IF f \in {"", Blank} THEN f ELSE Garbled}

\* A text cut in its n-th field.
Cut(text, n) == {Append(SubSeq(text, 1, n - 1), f) : f \in Pieces(text[n])}

\* A text written over a longer one leaves the end of the longer one.
Overlay(a, b) ==
  {b} \cup UNION {{Join(b, << f >> \o SubSeq(a, k + 1, Len(a))) : f \in Pieces(a[k])} :
                 k \in DOMAIN a}

\* parse_metrics passes over empty fields; the n-th of the others is the n-th name.
Kept(text)    == {i \in DOMAIN text : text[i] # ""}
Rank(text, i) == Cardinality({j \in Kept(text) : j <= i})
Tokens(text)  == [n \in 1 .. Cardinality(Kept(text)) |->
                    text[CHOOSE i \in Kept(text) : Rank(text, i) = n]]

\* A mutated form: the loop has no bound.
parse_metrics_Unbounded(text) == Tokens(text)

parse_metrics(text) ==
  LET found == Cardinality(Kept(text)) IN
  SubSeq(Tokens(text), 1, IF found < MaxMetrics THEN found ELSE MaxMetrics)

-----------------------------------------------------------------------------
(* Pipes and files.  A pipe holds the texts written to it, each put there   *)
(* at once, and a file at most one.                                         *)

IsFifo(i)    == i # 0 /\ inode[i].kind = "fifo"
WritersOf(i) == {w \in Writers : wfd[w] = i /\ wpc[w] \in {"write", "written"}}
Blocked(i)   == {w \in Writers : wfd[w] = i /\ wpc[w] = "blocked"}

NewInode(kind) == /\ inode' = Append(inode, [kind |-> kind, data |-> << >>])
                  /\ path' = Len(inode) + 1

\* The inodes when inode i holds these texts and no others.
Holding(i, texts) == [inode EXCEPT ![i].data = texts]

\* A pipe that nobody has open loses its contents.
Contents(i, open) == IF open \/ ~IsFifo(i) THEN inode ELSE Holding(i, << >>)

Init ==
  /\ app = "down" /\ fd = 0 /\ buf = << >> /\ served = << >> /\ status = "absent"
  /\ path = 0 /\ inode = << >>
  /\ wpc = [w \in Writers |-> IF w \in Waits THEN "poll" ELSE "open"]
  /\ wfd = [w \in Writers |-> 0] /\ tries = [w \in Writers |-> 0]
  /\ boots = 0 /\ crashes = 0

-----------------------------------------------------------------------------
(* The program.                                                            *)

Goto(label) == app' = label

\* A file that cannot be written keeps its message, and nobody is told.
update_status(message) ==
  status' = message \/ ("status" \in Faults /\ UNCHANGED status)

\* A mutated form: main does not reset the status.
Boot_KeepsStatus ==
  /\ app = "down" /\ boots < MaxBoots
  /\ Goto("mkfifo") /\ boots' = boots + 1
  /\ UNCHANGED << fd, buf, served, status, path, inode, writerVars, crashes >>

\* main.
Boot ==
  /\ app = "down" /\ boots < MaxBoots
  /\ Goto("mkfifo") /\ boots' = boots + 1
  /\ update_status("starting")
  /\ UNCHANGED << fd, buf, served, path, inode, writerVars, crashes >>

\* A path that exists, FIFO or not, is taken as it is.
MakeFifo ==
  /\ app = "mkfifo"
  /\ \/ path = 0 /\ NewInode("fifo") /\ Goto("open")
     \/ path # 0 /\ UNCHANGED << path, inode >> /\ Goto("open")
     \/ "mkfifo" \in Faults /\ UNCHANGED << path, inode >> /\ Goto("exit")
  /\ UNCHANGED << fd, buf, served, status, writerVars, boots, crashes >>

\* fopen for reading blocks until the FIFO has a writer, and lets the writers
\* go that were blocked.
OpenFifo ==
  /\ app = "open"
  /\ \/ "fopen" \in Faults /\ Goto("exit") /\ UNCHANGED << fd, wpc >>
     \/ /\ fd' = path
        /\ Goto(IF IsFifo(path) /\ WritersOf(path) \cup Blocked(path) = {}
                THEN "opening" ELSE "reading")
        /\ wpc' = [w \in Writers |-> IF w \in Blocked(path) THEN "write" ELSE wpc[w]]
  /\ UNCHANGED << buf, served, status, path, inode, wfd, tries, boots, crashes >>

\* The field that the next text continues takes no room of its own.
Room == BufferFields - Len(buf) + (IF buf = << >> THEN 0 ELSE 1)

\* fread takes the next text.  With the rest of one that does not fit, the stream
\* has drained the pipe, and what is in the stream is never used.  A file keeps its
\* contents.
ReadData ==
  LET text == Head(inode[fd].data) IN
  /\ app = "reading" /\ inode[fd].data # << >>
  /\ \/ /\ Len(text) <= Room
        /\ buf' = Join(buf, text)
        /\ IF IsFifo(fd)
             THEN inode' = Holding(fd, Tail(inode[fd].data)) /\ UNCHANGED app
             ELSE Goto("parse") /\ UNCHANGED inode
     \/ /\ Len(text) >= Room
        /\ \E part \in Cut(text, Room) : buf' = Join(buf, part)
        /\ Goto("parse")
        /\ inode' = IF IsFifo(fd) THEN Holding(fd, << >>) ELSE inode
  /\ UNCHANGED << fd, served, status, path, writerVars, boots, crashes >>

\* A mutated form: an empty pipe is taken for the end of the text.
EndOfText_Empty == Len(buf) >= BufferFields \/ inode[fd].data = << >>

\* fread returns on a full buffer or at the end: an empty pipe is at its end
\* only when no writer has it open.
EndOfText == \/ Len(buf) >= BufferFields
             \/ inode[fd].data = << >> /\ (IsFifo(fd) => WritersOf(fd) = {})

ReadEnds ==
  /\ app = "reading" /\ EndOfText
  /\ Goto("parse")
  /\ UNCHANGED << fd, buf, served, status, path, inode, writerVars, boots, crashes >>

\* No text, or the request to list the metrics.
NothingToServe(sel) == sel = << >> \/ (sel # << >> /\ sel[1] = "1")

RepeatsMetric(sel) ==
  \E i, j \in DOMAIN sel : i < j /\ sel[i] = sel[j] /\ sel[i] \in KnownMetrics

\* A mutated form: unknown names are left out.
Accepts_Any(sel) == ToSet(sel) \cap KnownMetrics # {}

Accepts(sel) == ToSet(sel) \subseteq KnownMetrics

Turn(label, message) == Goto(label) /\ update_status(message) /\ UNCHANGED << fd, served >>

\* The FIFO stays open, and at its path, while the program serves.
Serve(sel) ==
  Goto("serving") /\ update_status("started") /\ served' = sel /\ UNCHANGED fd

\* The rest of start_monitoring_from_fifo up to the fclose, with
\* start_metrics_monitoring (see Exporter) as one step.
Select ==
  LET sel == parse_metrics(buf) IN
  /\ app = "parse"
  /\ \/ NothingToServe(sel) /\ Turn("closing", status)
     \/ /\ ~NothingToServe(sel)
        /\ \/ RepeatsMetric(sel) /\ Turn("exit", status)
           \/ /\ ~RepeatsMetric(sel)
              /\ \/ "pthread_create" \in Faults /\ Turn("closing", "thread_error")
                 \/ ~Accepts(sel) /\ Turn("closing", "no_update_function")
                 \/ Accepts(sel) /\ Serve(sel)
  /\ UNCHANGED << buf, path, inode, writerVars, boots, crashes >>

CloseFifo ==
  /\ app = "closing"
  /\ Goto("unlinking")
  /\ fd' = 0 /\ inode' = Contents(fd, WritersOf(fd) # {})
  /\ UNCHANGED << buf, served, status, path, writerVars, boots, crashes >>

Unlink ==
  /\ app = "unlinking"
  /\ Goto("exit") /\ path' = 0
  /\ UNCHANGED << fd, buf, served, status, inode, writerVars, boots, crashes >>

\* The end of the process.  A container ends with it: its other processes are
\* killed and its /tmp is gone.
Die ==
  /\ Goto("down")
  /\ fd' = 0 /\ buf' = << >> /\ served' = << >>
  /\ IF Container
       THEN /\ path' = 0 /\ inode' = << >> /\ status' = "absent"
            /\ wpc' = [w \in Writers |-> IF wfd[w] # 0 THEN "failed" ELSE wpc[w]]
            /\ wfd' = [w \in Writers |-> 0]
       ELSE /\ inode' = Contents(fd, WritersOf(fd) # {})
            /\ UNCHANGED << path, status, wpc, wfd >>
  /\ UNCHANGED << tries, boots >>

Exit  == app = "exit" /\ Die /\ UNCHANGED crashes

\* A kill, or a recreation of the container, at any point.
Crash == /\ app # "down" /\ crashes < MaxCrashes
         /\ Die /\ crashes' = crashes + 1

Program == Boot \/ MakeFifo \/ OpenFifo \/ ReadData \/ ReadEnds \/ Select
           \/ CloseFifo \/ Unlink \/ Exit

-----------------------------------------------------------------------------
(* The writers.                                                            *)

\* until test -p /tmp/monitor_fifo; do ... done
Poll(w) ==
  /\ wpc[w] = "poll"
  /\ IF IsFifo(path)
       THEN wpc' = [wpc EXCEPT ![w] = "open"] /\ UNCHANGED tries
       ELSE /\ tries' = [tries EXCEPT ![w] = @ + 1]
            /\ wpc' = [wpc EXCEPT ![w] = IF tries'[w] >= MaxTries THEN "failed" ELSE "poll"]
  /\ UNCHANGED << appVars, path, inode, wfd, boots, crashes >>

\* The shell opens the target of its redirection, which creates or truncates a
\* file and blocks on a FIFO that has no reader.  A container that is down
\* runs no shell.
Open(w) ==
  /\ wpc[w] = "open"
  /\ \/ /\ Container /\ app = "down"
        /\ wpc' = [wpc EXCEPT ![w] = "failed"]
        /\ UNCHANGED << app, path, inode, wfd >>
     \/ /\ ~(Container /\ app = "down")
        /\ \/ path = 0 /\ NewInode("file") /\ UNCHANGED app
              /\ wpc' = [wpc EXCEPT ![w] = "write"]
           \/ path # 0 /\ ~IsFifo(path) /\ UNCHANGED << app, path >>
              /\ inode' = Holding(path, << >>)
              /\ wpc' = [wpc EXCEPT ![w] = "write"]
           \/ IsFifo(path) /\ fd = path /\ UNCHANGED << path, inode >>
              /\ Goto(IF app = "opening" THEN "reading" ELSE app)
              /\ wpc' = [wpc EXCEPT ![w] = "write"]
           \/ IsFifo(path) /\ fd # path /\ UNCHANGED << app, path, inode >>
              /\ wpc' = [wpc EXCEPT ![w] = "blocked"]
        /\ wfd' = [wfd EXCEPT ![w] = path']
  /\ UNCHANGED << fd, buf, served, status, tries, boots, crashes >>

\* The printf.  A pipe without a reader kills the writer.
Write(w) ==
  LET i == wfd[w] IN
  /\ wpc[w] = "write"
  /\ \/ /\ IsFifo(i) /\ fd # i
        /\ wpc' = [wpc EXCEPT ![w] = "failed"] /\ wfd' = [wfd EXCEPT ![w] = 0]
        /\ inode' = Contents(i, WritersOf(i) # {w})
     \/ /\ IsFifo(i) /\ fd = i
        /\ inode' = Holding(i, Append(inode[i].data, Selection[w]))
        /\ wpc' = [wpc EXCEPT ![w] = "written"] /\ UNCHANGED wfd
     \/ /\ ~IsFifo(i)
        /\ \E text \in IF inode[i].data = << >> THEN {Selection[w]}
                      ELSE Overlay(Head(inode[i].data), Selection[w]) :
             inode' = Holding(i, << text >>)
        /\ wpc' = [wpc EXCEPT ![w] = "written"] /\ UNCHANGED wfd
  /\ UNCHANGED << appVars, path, tries, boots, crashes >>

Close(w) ==
  /\ wpc[w] = "written"
  /\ wpc' = [wpc EXCEPT ![w] = "done"] /\ wfd' = [wfd EXCEPT ![w] = 0]
  /\ inode' = Contents(wfd[w], fd = wfd[w] \/ WritersOf(wfd[w]) # {w})
  /\ UNCHANGED << appVars, path, tries, boots, crashes >>

Writer(w) == Poll(w) \/ Open(w) \/ Write(w) \/ Close(w)

-----------------------------------------------------------------------------
Next == Program \/ Crash \/ \E w \in Writers : Writer(w)

Safe == Init /\ [][Next]_vars

\* The program and every shell are scheduled; Docker restarts the container.
Spec == Safe /\ WF_vars(Program) /\ \A w \in Writers : WF_vars(Writer(w))

-----------------------------------------------------------------------------
(* Properties.                                                             *)

Asks(w) == parse_metrics(Selection[w])

HasWritten(w) == wpc[w] \in {"written", "done"}

\* A text that fits into the buffer is served as it was asked for, another perhaps
\* without its last names.
AsksFor(w, sel) == IF Len(Selection[w]) < BufferFields THEN sel = Asks(w)
                   ELSE IsPrefix(sel, Asks(w))

\* A text that neither begins nor ends with a comma or a blank field.
Tight(text) == Head(text) \notin {"", Blank} /\ Last(text) \notin {"", Blank}

TextsAreTight == \A w \in Writers : HasWritten(w) => Tight(Selection[w])

Texts == Seq(Names)
TypeOK ==
  /\ app \in {"down", "mkfifo", "open", "opening", "reading", "parse", "serving",
              "closing", "unlinking", "exit"}
  /\ path \in 0 .. Len(inode) /\ fd \in 0 .. Len(inode)
  /\ buf \in Texts /\ Len(buf) <= BufferFields
  /\ served \in Texts /\ Len(served) <= MaxMetrics
  /\ status \in {"absent", "starting", "started", "thread_error", "no_update_function"}
  /\ inode \in Seq([kind : {"fifo", "file"}, data : Seq(Texts)])
  /\ wpc \in [Writers -> {"poll", "open", "blocked", "write", "written", "done", "failed"}]
  /\ wfd \in [Writers -> 0 .. Len(inode)]
  /\ tries \in [Writers -> 0 .. MaxTries]
  /\ boots \in 0 .. MaxBoots /\ crashes \in 0 .. MaxCrashes

\* However many writers meet at the FIFO, in whatever order their texts arrive and
\* wherever the buffer cuts them, what is served is the selection of one that has
\* written: names run together are no metric, and one is enough to reject the whole
\* (the test of start_metrics_monitoring, main.c:165).  That takes texts without a
\* comma at either end: behind or before one, two texts join into a selection that
\* nobody wrote.  And it takes a FIFO: in a regular file, one text can mix with
\* another.
ServedFromOneWriter ==
  app = "serving" /\ IsFifo(fd) /\ TextsAreTight =>
    \E w \in Writers : HasWritten(w) /\ AsksFor(w, served)

\* While the program runs, the status file says "started" exactly when it
\* serves, also after a restart over the file of the previous run.
StatusTellsTheTruth == app # "down" => (status = "started" <=> app = "serving")

\* A writer that succeeded has configured the program: its selection comes
\* into effect.
DoneTakesEffect ==
  \A w \in Writers : wpc[w] = "done" ~> (app = "serving" /\ served = Asks(w))

\* Once configured, the program serves again after whatever restarts there are.
ServesAgain == app = "serving" ~> []<>(app = "serving")

\* The program never serves a selection that is not acceptable and never
\* changes the one it serves: it implements Configuration.
Board == INSTANCE Configuration WITH config <- served
ImplementsConfiguration == Board!Spec
=============================================================================
