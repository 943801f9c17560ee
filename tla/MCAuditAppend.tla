---------------------------- MODULE MCAuditAppend ----------------------------
(* Small instances of AuditAppend for TLC. *)
EXTENDS AuditAppendRefinement, TLC

CONSTANTS p1, p2, p3, t1, t2, k1, k2, k3, b1, b2

\* Sessions and keys are interchangeable: no definition tells one key from another, inside
\* hashes or out of them.
Symmetry == Permutations(Session) \cup Permutations(Key)

\* b1 is a dictionary with text keys and b2 the same with integer keys, which comes back as b1.
OneChanges == [b \in Body |-> b1]

LockIds == {1, 2}
\* A lock for each table; the proofs cover tables whose names share a crc32.
OwnLocks == [t \in Table |-> IF t = t1 THEN 1 ELSE 2]

\* Bounds on appends: two in every table; one in the first table only.
TwoRows == [t \in Table |-> 2]
FirstTableOnly == [t \in Table |-> IF t = t1 THEN 1 ELSE 0]
=============================================================================
