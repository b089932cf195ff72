----------------------------- MODULE GaugeBoard ------------------------------
(***************************************************************************)
(* What whoever scrapes SystemSentinel may rely on: a board of gauges on   *)
(* which measurements appear one at a time, in the order in which they     *)
(* were made and never before, and of which a page is copied gauge by      *)
(* gauge.  A measurement is represented by the time at which it was made.  *)
(***************************************************************************)
EXTENDS Naturals

CONSTANTS
  Gauges,
  NoSample  \* a gauge that shows nothing

VARIABLES now, shown, page

Empty == [g \in Gauges |-> NoSample]

Init == now = 1 /\ shown = Empty /\ page = Empty

TimePasses == now' = now + 1 /\ UNCHANGED << shown, page >>

\* No gauge shows anything newer than what appears.
Publish(g) ==
  /\ shown' = [shown EXCEPT ![g] = shown'[g]]
  /\ shown'[g] \in 1 .. now
  /\ \A h \in Gauges : shown[h] # NoSample => shown[h] <= shown'[g]
  /\ UNCHANGED << now, page >>

Copy(g) ==
  /\ page' = [page EXCEPT ![g] = shown[g]]
  /\ UNCHANGED << now, shown >>

TurnPage == page' = Empty /\ UNCHANGED << now, shown >>

Next == TimePasses \/ TurnPage \/ \E g \in Gauges : Publish(g) \/ Copy(g)

Spec == Init /\ [][Next]_<< now, shown, page >>
=============================================================================
