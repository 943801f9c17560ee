--------------------------- MODULE MCAuditedModel ---------------------------
(* Small instances of AuditedModel for TLC. *)
EXTENDS AuditedModel, TLC

CONSTANTS w1, w2, o1, o2, active, inactive

\* Workers and rows are interchangeable.
Symmetry == Permutations(Worker) \cup Permutations(Obj)
=============================================================================
