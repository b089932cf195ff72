----------------------------- MODULE ErrorAlert ------------------------------
(***************************************************************************)
(* The alert rules NetworkErrorPackets and NetworkDroppedPackets:          *)
(*                                                                         *)
(*    max_over_time(g[5m]) - min_over_time(g[5m]) > 0      for: 5m         *)
(*                                                                         *)
(* for one of several gauges g, the errors received and sent, or for one   *)
(* gauge, the packets dropped.  Prometheus samples the gauges together and *)
(* evaluates the rule at the same interval.  Five minutes are Window       *)
(* intervals.                                                              *)
(***************************************************************************)
EXTENDS Integers, Sequences, FiniteSets

CONSTANTS
  Gauges,   \* the gauges of the rule
  Window,   \* scrapes in five minutes, 60
  Readings, \* what a gauge may show, failed readings included
  Missed    \* a scrape that was lost

ASSUME WindowAssumption == Window \in Nat /\ Window > 1
ASSUME ReadingsAssumption == Readings \subseteq Int /\ Missed \notin [Gauges -> Readings]

VARIABLES
  counter,  \* what each gauge of the exporter shows
  samples,  \* the last 2 * Window scrapes
  pending   \* evaluations in a row that found the expression true

alertVars == << counter, samples, pending >>

AlertStart(c) == counter = c /\ samples = << >> /\ pending = 0
AlertInit == \E c \in [Gauges -> Readings] : AlertStart(c)

Recent(s, n) == SubSeq(s, (IF Len(s) > n THEN Len(s) - n ELSE 0) + 1, Len(s))

\* Gauges change: errors were counted, the interface came or went, a reading
\* failed or was possible again.
CounterChanges ==
  /\ \E c \in [Gauges -> Readings] \ {counter} : counter' = c
  /\ UNCHANGED << samples, pending >>

\* The rule is true when two samples in the window differ in one gauge or another:
\* the terms of its `or' have the same labels and are one alert.
Expr(s) ==
  \E g \in Gauges : \E i, j \in DOMAIN Recent(s, Window) :
    LET a == Recent(s, Window)[i]
        b == Recent(s, Window)[j]
    IN  Missed \notin {a, b} /\ a[g] > b[g]

\* A mutated form: without `for: 5m'.
HoldFor_Nothing == 0

\* `for: 5m': the rule must stay true for as many further evaluations.
HoldFor == Window

\* A scrape, which may fail, and the evaluation that follows it.
ScrapeAndEvaluate ==
  /\ \E v \in {counter, Missed} : samples' = Recent(Append(samples, v), 2 * Window)
  /\ pending' = IF ~Expr(samples') THEN 0
                ELSE IF pending > HoldFor THEN pending ELSE pending + 1
  /\ UNCHANGED counter

AlertNext == CounterChanges \/ ScrapeAndEvaluate

AlertSafe == AlertInit /\ [][AlertNext]_alertVars

Firing == pending > HoldFor

-----------------------------------------------------------------------------
(* Properties.                                                             *)

\* The positions of the samples that differ, in one gauge or more, from the last one
\* before that arrived.
Changes ==
  {j \in DOMAIN samples :
     /\ samples[j] # Missed
     /\ \E i \in 1 .. j - 1 : /\ samples[i] \notin {Missed, samples[j]}
                              /\ \A k \in i + 1 .. j - 1 : samples[k] = Missed}

\* With a range as long as the `for' clause, what one scrape finds changed, in one
\* gauge or in all, leaves the window before the rule has been true for long enough:
\* one burst of errors, or one step to the value of a failed reading, is never
\* reported.  What fires has changed at two scrapes of the last ten minutes at least,
\* be it the same gauge or one after the other.
FiringNeedsTwoChanges == Firing => Cardinality(Changes) >= 2

\* Samples of gauges that only count, and none lost.
Rising(s) ==
  /\ \A i \in DOMAIN s : s[i] # Missed
  /\ \A i, j \in DOMAIN s : i < j => \A g \in Gauges : s[i][g] <= s[j][g]

\* An increase that is about to leave the last five minutes has been reported, with
\* no scrape lost and no gauge that fell meanwhile (alert.rules.yml.tmpl:83:
\* "rx_errors_total or tx_errors_total increased during the last 5 minutes.").  The
\* `for' clause of the rules does not keep it.
IncreaseIsReported ==
  LET s == Recent(samples, Window) IN
  Len(s) = Window /\ Rising(s) /\ s[1] # s[2] => Firing
=============================================================================
