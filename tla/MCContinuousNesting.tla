------------------------- MODULE MCContinuousNesting ------------------------
(* A hybrid round with one helper beside the grid search, three             *)
(* improvements, and layouts that differ in completeness and in waste.      *)
EXTENDS ContinuousNesting

=============================================================================
