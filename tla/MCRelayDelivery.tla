--------------------------- MODULE MCRelayDelivery ---------------------------
(* Model values for the instances of RelayDelivery. *)
EXTENDS RelayDelivery, TLC

CONSTANTS d1, j1, j2

MCSymmetry == Permutations({j1, j2})
=============================================================================
