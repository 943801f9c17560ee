----------------------------- MODULE AuditLedger -----------------------------
(***************************************************************************)
(* What osivault.audit promises, without rows, hashes, locks or sessions:  *)
(* every audit table is a ledger that only ever grows at its end, one      *)
(* transaction at a time, and every checkpoint anchors a length the ledger *)
(* had while its transaction ran.                                          *)
(***************************************************************************)
EXTENDS Integers, Sequences, SequencesExt

CONSTANTS Table, Record

VARIABLES
  ledger,   \* ledger[t]: the records of table t, oldest first
  anchors   \* anchors[t]: the lengths checkpointed, oldest first

Init ==
  /\ ledger = [t \in Table |-> <<>>]
  /\ anchors = [t \in Table |-> <<>>]

\* What a transaction may add to a ledger and its anchors: it extends both, and each new
\* anchor lies between the length it found and the length it leaves, in order.
Extends(t, newLedger, newAnchors) ==
  /\ newLedger \in Seq(Record)
  /\ IsPrefix(ledger[t], newLedger) /\ IsPrefix(anchors[t], newAnchors)
  /\ \A i \in Len(anchors[t]) + 1 .. Len(newAnchors) :
       /\ newAnchors[i] \in Len(ledger[t]) .. Len(newLedger)
       /\ i > 1 => newAnchors[i - 1] <= newAnchors[i]

Transaction == \A t \in Table : Extends(t, ledger'[t], anchors'[t])

Spec == Init /\ [][Transaction]_<<ledger, anchors>>
=============================================================================
