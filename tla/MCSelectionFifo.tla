--------------------------- MODULE MCSelectionFifo ---------------------------
(***************************************************************************)
(* Instances of SelectionFifo for TLC: what the writers of each run write. *)
(* Names stand for metrics: a to d are in all_metrics, x is not.           *)
(***************************************************************************)
EXTENDS SelectionFifo

MCKnown == {"a", "b", "c", "d"}

\* One writer with one name too many, one with a list so padded that the buffer
\* can cut it, one with a comma at the end.
MixedSelection == [up |-> << "a", "b", "c" >>, ci |-> << "d", "", "", "b" >>,
                   op |-> << "a", "" >>]

OneSelection  == [up |-> << "a", "b", "c" >>]
SameSelection == [up |-> << "a", "b" >>, again |-> << "c" >>]
=============================================================================
