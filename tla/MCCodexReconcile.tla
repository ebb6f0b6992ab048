-------------------------- MODULE MCCodexReconcile --------------------------
(* Two restored threads and one of another project, on pages of one thread. *)
EXTENDS CodexReconcile

CONSTANTS t1, t2, t3, mine, other
=============================================================================
