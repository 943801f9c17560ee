------------------------ MODULE AuditAppendRefinement ------------------------
(***************************************************************************)
(* AuditAppend implements AuditLedger: read in pk order, the committed     *)
(* rows of a table are its ledger and the row counts of its checkpoints    *)
(* are its anchors.                                                        *)
(***************************************************************************)
EXTENDS AuditAppend

\* A row as the ledger sees it: what it says and the key that sealed it.
RecordOf(r) == [body |-> r.body, key |-> r.entry_hash[1]]

\* The ledger the rows R make, and the anchors of the checkpoints C.
LedgerOf(R) == [i \in 1..Cardinality(R) |-> RecordOf(InPkOrder(R)[i])]
AnchorsOf(C) == [i \in 1..Cardinality(C) |-> InPkOrder(C)[i].row_count]

Ledger == INSTANCE AuditLedger WITH
  Record  <- [body : Body, key : Key],
  ledger  <- [t \in Table |-> LedgerOf(rows[t])],
  anchors <- [t \in Table |-> AnchorsOf(checkpoints[t])]

\* Every transaction extends every ledger at its end and anchors lengths it really saw;
\* nothing else changes a ledger (the sessions of AuditAppend, operations.py).
ImplementsLedger == Ledger!Spec
=============================================================================
