-------------------------- MODULE MCRelayRetention --------------------------
(* Model values for the instances of RelayRetention. *)
EXTENDS RelayRetention, TLC

CONSTANTS d1, d2, j1, j2, j3, s1, s2, h1

MCJobSymmetry == Permutations({d1, d2}) \cup Permutations({j1, j2, j3}) \cup Permutations({s1, s2})
=============================================================================
