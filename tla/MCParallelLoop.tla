---------------------------- MODULE MCParallelLoop ----------------------------
(* Three slots and four masks: one is larger than the budget, and one that  *)
(* is needed may be older than one that is not.                             *)
EXTENDS RasterPixels

MCMasks == {"large", "tall", "flat", "thin"}
Sizes(large, tall, flat, thin) ==
  [m \in MCMasks |-> CASE m = "large" -> large [] m = "tall" -> tall
                       [] m = "flat" -> flat [] OTHER -> thin]
MCHeight == Sizes(4, 2, 1, 1)
MCEstimate == Sizes(5, 3, 2, 1)
MCCost == Sizes(5, 2, 2, 1)
MCBreadth == Sizes(4, 2, 3, 1)

=============================================================================
