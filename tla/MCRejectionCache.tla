--------------------------- MODULE MCRejectionCache ---------------------------
(* Two workers, two trials.  Each cache has five origins in two pages of    *)
(* two words; the limit admits two and a half of the four pages wanted.     *)
EXTENDS StrategyTrials, TLC

Symmetry == Permutations(Strategies)

=============================================================================
