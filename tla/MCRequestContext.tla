-------------------------- MODULE MCRequestContext --------------------------
(* Small instances of RequestContext for TLC. *)
EXTENDS RequestContext, TLC

CONSTANTS th1, th2, j1, j2, alice, red

Symmetry == Permutations(Thread) \cup Permutations(Job)
=============================================================================
