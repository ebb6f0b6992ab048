--------------------------- MODULE MCRelayBindings ---------------------------
(* Two devices with two projects each, three jobs, one snapshot. *)
EXTENDS RelayBindings, TLC

CONSTANTS d1, d2, j1, j2, j3, s1, p1, p2, x1, x2, b1, b2

MCSymmetry ==
  Permutations({d1, d2}) \cup Permutations({j1, j2, j3}) \cup Permutations({p1, p2})
    \cup Permutations({x1, x2}) \cup Permutations({b1, b2})
=============================================================================
