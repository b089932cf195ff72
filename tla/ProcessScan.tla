----------------------------- MODULE ProcessScan -----------------------------
(***************************************************************************)
(* get_process_states: one walk over /proc, a process at a time, while the *)
(* processes start, end and change state.                                  *)
(***************************************************************************)
EXTENDS Naturals, FiniteSets

CONSTANTS
  Pids,      \* numbers of processes
  Comm,      \* what the state is taken from: "plain", or the letter that
             \* follows the first blank of a command name that has one
  Gone       \* no process has this number

Letters == {"S", "R", "D", "Z"}
Counted == [S |-> "suspended", R |-> "ready", D |-> "blocked"]

ASSUME PidsAssumption == Pids \subseteq Nat /\ IsFiniteSet(Pids)
ASSUME CommAssumption == Pids \subseteq DOMAIN Comm /\ Gone \notin Letters

VARIABLES
  proc,    \* state of each process
  scan,    \* "walking" or "returned"
  left,    \* the numbers readdir has still to come to
  count,   \* *total, *suspended, *ready, *blocked
  seen     \* history: the states of each process since the walk began

scanVars == << proc, scan, left, count, seen >>

None == [total |-> 0, suspended |-> 0, ready |-> 0, blocked |-> 0]

ScanInit ==
  /\ proc = [p \in Pids |-> "S"]
  /\ scan = "returned" /\ left = {} /\ count = None
  /\ seen = [p \in Pids |-> {}]

\* A process changes state, ends, or starts under this number.
ProcessChanges(p) ==
  /\ \E s \in (Letters \cup {Gone}) \ {proc[p]} :
       /\ proc' = [proc EXCEPT ![p] = s]
       /\ seen' = IF scan = "walking" THEN [seen EXCEPT ![p] = @ \cup {s}] ELSE seen
  /\ UNCHANGED << scan, left, count >>

\* A mutated form: the counters go on from the last call.
OpenProc_KeepsCounts ==
  /\ scan = "returned"
  /\ scan' = "walking" /\ left' = Pids
  /\ seen' = [p \in Pids |-> {proc[p]}]
  /\ UNCHANGED << proc, count >>

\* opendir succeeds.  If it fails nothing is written: see Failure in Exporter.
OpenProc ==
  /\ scan = "returned"
  /\ scan' = "walking" /\ left' = Pids /\ count' = None
  /\ seen' = [p \in Pids |-> {proc[p]}]
  /\ UNCHANGED proc

\* fscanf with "%*d %*s %c": the command name ends at its first blank.
StateRead(p) == IF Comm[p] = "plain" THEN proc[p] ELSE Comm[p]

Tally(s) ==
  [k \in DOMAIN count |->
     count[k] + IF k = "total" \/ (s \in DOMAIN Counted /\ Counted[s] = k) THEN 1 ELSE 0]

\* One entry of the directory: it is in numerical order.  A process that has ended
\* is not listed, or its file cannot be opened or read any more.
ReadStat ==
  /\ scan = "walking"
  /\ \E p \in left :
       /\ \A q \in left : p <= q
       /\ left' = left \ {p}
       /\ count' = IF proc[p] = Gone THEN count ELSE Tally(StateRead(p))
  /\ UNCHANGED << proc, scan, seen >>

CloseProc ==
  /\ scan = "walking" /\ left = {}
  /\ scan' = "returned" /\ seen' = [p \in Pids |-> {}]
  /\ UNCHANGED << proc, left, count >>

ScanNext == (\E p \in Pids : ProcessChanges(p)) \/ OpenProc \/ ReadStat \/ CloseProc

ScanSafe == ScanInit /\ [][ScanNext]_scanVars

-----------------------------------------------------------------------------
(* Properties.                                                             *)

Plain == {p \in Pids : Comm[p] = "plain"}

WalkIsOver == scan = "walking" /\ left = {}

\* The counters of the states, as far as these processes go, lie between what was so
\* all the time and what was so at some time.
StatesWithin(processes) ==
  \A s \in DOMAIN Counted :
    /\ count[Counted[s]] >= Cardinality({p \in processes : seen[p] = {s}})
    /\ count[Counted[s]] <= Cardinality({p \in Pids : p \in processes => s \in seen[p]})

\* However the processes change during the walk, each number lies between what
\* was so all the time and what was so at some time: no process is counted twice
\* and none that stayed is left out.  The total holds for all processes, the
\* states only for those without a blank in their name: any other may go missing
\* from its state and appear under a different one (EveryStateIsCounted).
ScanIsBounded ==
  WalkIsOver =>
    /\ count.total >= Cardinality({p \in Pids : Gone \notin seen[p]})
    /\ count.total <= Cardinality({p \in Pids : seen[p] # {Gone}})
    /\ StatesWithin(Plain)

\* The same of the states of all processes, as include/metrics.h:146 says it.  The
\* "%*s" of metrics.c:261 does not keep it.
EveryStateIsCounted == WalkIsOver => StatesWithin(Pids)
=============================================================================
