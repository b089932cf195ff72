---------------------------- MODULE Configuration ----------------------------
(***************************************************************************)
(* What a user of SystemSentinel may rely on, whatever goes on inside: at  *)
(* any time the program serves nothing, or one acceptable selection, which *)
(* it adopted as a whole and keeps until it stops serving.                 *)
(***************************************************************************)
EXTENDS Sequences, Naturals

CONSTANT KnownMetrics

VARIABLE config  \* the selection in effect, or the empty sequence

\* Known names, none of them twice.
Acceptable(sel) ==
  /\ sel \in Seq(KnownMetrics) \ {<< >>}
  /\ \A i, j \in DOMAIN sel : sel[i] = sel[j] => i = j

Init == config = << >>

Adopt == config = << >> /\ Acceptable(config')

Lose == config # << >> /\ config' = << >>

Next == Adopt \/ Lose

Spec == Init /\ [][Next]_config
=============================================================================
