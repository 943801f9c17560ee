----------------------------- MODULE MCKeyRing -----------------------------
(* Small instances of KeyRing for TLC. *)
EXTENDS KeyRing, TLC

CONSTANTS k1, k2, k3, r1, r2, s1, v1, v2

\* Keys are interchangeable, and so are the threads of one kind.
Symmetry == Permutations(Key) \cup Permutations(Rotator) \cup Permutations(Verifier)
=============================================================================
