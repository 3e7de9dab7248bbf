----------------------- MODULE MCIntegrationDelivery -----------------------
(* One partner and contract, whose import has one template. *)
EXTENDS IntegrationDelivery, TLC

CONSTANTS clubs, corrected, original, changed, k1, k2

Symmetry == Permutations(Labels) \cup Permutations(Keys)
=============================================================================
