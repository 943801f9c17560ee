-------------------------- MODULE AuditAppendProofs --------------------------
(***************************************************************************)
(* Proofs about AuditAppend, for any number of sessions, tables, keys,     *)
(* rows and checkpoints.  First types, the two chains and the append-only  *)
(* promise, from the inductive invariant IInv; then what checkpoints       *)
(* describe and with which keys the rows verify; last the refinement of    *)
(* AuditLedger.                                                            *)
(***************************************************************************)
EXTENDS AuditAppendRefinement, AuditRecordsProofs, SequenceTheorems

-----------------------------------------------------------------------------
(* Types.                                                                  *)

\* The initial state satisfies the whole invariant.
LEMMA InitIInv == Init => IInv
<1> SUFFICES ASSUME Init PROVE IInv
  OBVIOUS
<1>1. TypeOK
  BY FS_EmptySet, BoundAssumption DEF Init, TypeOK, PcValue
<1>2. LockInv /\ FreshInv /\ PkInv
  BY DEF Init, LockInv, UsesTable, Reading, FreshInv, PkInv
<1>3. LinkInv /\ ChainLinked /\ CheckpointsLinked
  BY DEF Init, LinkInv, ChainLinked, CheckpointsLinked, Linked, LinkedCheckpoints,
         VisibleRows, VisibleCps
<1> QED BY <1>1, <1>2, <1>3 DEF IInv

\* The end of a transaction, published or not, keeps the types.
LEMMA EndTransactionType ==
  ASSUME TypeOK, NEW p \in Session, EndTransaction(p),
         \/ UNCHANGED committed
         \/ /\ rows' = [t \in Table |-> VisibleRows(p, t)]
            /\ checkpoints' = [t \in Table |-> VisibleCps(p, t)]
  PROVE  TypeOK'
<1>1. DOMAIN rows' = Table /\ DOMAIN checkpoints' = Table
  BY DEF TypeOK, committed
<1>2. \A t \in Table : IsFiniteSet(rows'[t]) /\ \A q \in Session : IsFiniteSet(newRows'[q][t])
  <2>1. ASSUME NEW t \in Table PROVE IsFiniteSet(rows'[t])
    <3>1. rows'[t] = rows[t] \/ rows'[t] = VisibleRows(p, t)
      BY DEF committed
    <3>2. IsFiniteSet(rows[t]) /\ IsFiniteSet(newRows[p][t])
      BY DEF TypeOK
    <3>3. IsFiniteSet(VisibleRows(p, t))
      BY <3>2, FS_Union DEF VisibleRows
    <3> QED BY <3>1, <3>2, <3>3
  <2>2. \A t \in Table, q \in Session : IsFiniteSet(newRows'[q][t])
    BY FS_EmptySet DEF TypeOK, EndTransaction
  <2> QED BY <2>1, <2>2
<1>3. /\ DOMAIN newRows' = Session /\ DOMAIN newCps' = Session
      /\ \A q \in Session : DOMAIN newRows'[q] = Table /\ DOMAIN newCps'[q] = Table
  BY DEF TypeOK, EndTransaction
<1>4. /\ pc' \in [Session -> PcValue]
      /\ \A q \in Session : pc'[q] \notin {"idle", "commit"} => call'[q].table \in Table
  BY DEF TypeOK, EndTransaction, PcValue
<1> QED BY <1>1, <1>2, <1>3, <1>4 DEF TypeOK, EndTransaction, sequences, keys

\* The same of the block of a failing call.
LEMMA AbortCallType ==
  ASSUME TypeOK, NEW p \in Session, AbortCall(p) PROVE TypeOK'
<1>1. CASE outer[p]
  <2>1. \A q \in Session : pc'[q] \notin {"idle", "commit"} => call'[q].table \in Table
    BY <1>1 DEF TypeOK, AbortCall
  <2>2. UNCHANGED <<rows, checkpoints, rowSeq, cpSeq, currentKey, previousKey, rotations,
                    outer, newRows, newCps>>
    BY <1>1 DEF AbortCall, committed, sequences, keys, pending
  <2>3. holder' \in [LockId -> Session \cup {NoSession}]
    BY <1>1 DEF TypeOK, AbortCall
  <2>4. pc' \in [Session -> PcValue]
    BY <1>1 DEF TypeOK, AbortCall, PcValue
  <2>5. rowCount' \in [Session -> Nat] 
    BY <1>1 DEF TypeOK, AbortCall, PcValue
  <2>6.  fresh' \in [Session -> BOOLEAN]
    BY <1>1 DEF TypeOK, AbortCall, PcValue
  <2>7. DOMAIN call' = Session /\ DOMAIN lastHash' = Session /\ DOMAIN prevCpHash' = Session
    BY <1>1 DEF TypeOK, AbortCall
  <2> QED BY <2>1, <2>2, <2>3, <2>4, <2>5, <2>6, <2>7 DEF TypeOK
<1>2. CASE ~outer[p]
  BY <1>2, EndTransactionType DEF AbortCall, Rollback
<1> QED BY <1>1, <1>2

\* Every step keeps the types.
LEMMA TypeStep == TypeOK /\ [Next]_vars => TypeOK'
<1> SUFFICES ASSUME TypeOK, [Next]_vars PROVE TypeOK'
  OBVIOUS
<1> USE DEF TypeOK, PcValue, committed, sequences, keys, reads, pending
<1>1. ASSUME NEW p \in Session, NEW t \in Table, NEW body \in Body, AppendCall(p, t, body)
      PROVE  TypeOK'
  BY <1>1 DEF AppendCall, StartCall
<1>2. ASSUME NEW p \in Session, NEW t \in Table, CheckpointCall(p, t)
      PROVE  TypeOK'
  BY <1>2 DEF CheckpointCall, StartCall
<1>3. ASSUME NEW p \in Session, TableLock(p) PROVE TypeOK'
  BY <1>3, LockAssumption DEF TableLock, LockStep
<1>4. ASSUME NEW p \in Session, SelectLast(p) PROVE TypeOK'
  BY <1>4 DEF SelectLast
<1>5. ASSUME NEW p \in Session, CountRows(p) PROVE TypeOK'
  <2>1. Cardinality(VisibleRows(p, call[p].table)) \in Nat
    BY <1>5, FS_Union, FS_CardinalityType DEF CountRows, VisibleRows
  <2> QED BY <1>5, <2>1 DEF CountRows
<1>6. ASSUME NEW p \in Session, SelectPrevCheckpoint(p) PROVE TypeOK'
  BY <1>6 DEF SelectPrevCheckpoint
<1>7. ASSUME NEW p \in Session, SaveRow(p) PROVE TypeOK'
  <2> DEFINE t == call[p].table
             row == Entry(rowSeq[t] + 1, call[p].key, lastHash[p], call[p].body, ReadBack[call[p].body])
  <2>1. newRows' = [newRows EXCEPT ![p][t] = @ \cup {row}]
    BY <1>7 DEF SaveRow
  <2>2. IsFiniteSet(newRows[p][t] \cup {row})
    BY <1>7, FS_AddElement DEF SaveRow
  <2> HIDE DEF row
  <2>3. /\ DOMAIN newRows' = Session
        /\ \A q \in Session : DOMAIN newRows'[q] = Table
        /\ \A q \in Session, u \in Table : IsFiniteSet(newRows'[q][u])
    BY <2>1, <2>2
  <2>4. /\ UNCHANGED <<rows, checkpoints, cpSeq, newCps, holder, currentKey, previousKey,
                         rotations, outer>>
        /\ rowSeq' \in [Table -> Nat]
    BY <1>7 DEF SaveRow, AfterSave
  <2>5. /\ pc' \in [Session -> PcValue]
        /\ \A q \in Session : pc'[q] \notin {"idle", "commit"} => call'[q].table \in Table
        /\ rowCount' \in [Session -> Nat] /\ fresh' \in [Session -> BOOLEAN]
        /\ DOMAIN call' = Session /\ DOMAIN lastHash' = Session /\ DOMAIN prevCpHash' = Session
    BY <1>7 DEF SaveRow, AfterSave
  <2> QED BY <2>3, <2>4, <2>5
<1>8. ASSUME NEW p \in Session, SaveCheckpoint(p) PROVE TypeOK'
  BY <1>8 DEF SaveCheckpoint, AfterSave
<1>9. ASSUME NEW p \in Session, CommitCall(p) \/ CommitOuter(p) PROVE TypeOK'
  BY <1>9, EndTransactionType DEF CommitCall, CommitOuter, Commit
<1>10. ASSUME NEW p \in Session, RollbackOuter(p) \/ Disconnect(p) PROVE TypeOK'
  BY <1>10, EndTransactionType DEF RollbackOuter, Disconnect, Rollback
<1>11. ASSUME NEW p \in Session, CallRaises(p) \/ DeadlockDetected(p) PROVE TypeOK'
  BY <1>11, AbortCallType DEF CallRaises, DeadlockDetected
<1>12. ASSUME NEW p \in Session, BeginOuter(p) PROVE TypeOK'
  BY <1>12 DEF BeginOuter
<1>13. ASSUME NEW k \in Key, RotateKey(k) PROVE TypeOK'
  BY <1>13, BoundAssumption DEF RotateKey
<1>14. CASE UNCHANGED vars
  BY <1>14 DEF vars
<1> QED BY <1>1, <1>2, <1>3, <1>4, <1>5, <1>6, <1>7, <1>8, <1>9, <1>10, <1>11, <1>12,
           <1>13, <1>14 DEF Next, CallStep

\* Every reachable state is well typed.
THEOREM TypeCorrect == Spec => []TypeOK
<1>1. Init => TypeOK
  BY InitIInv DEF IInv
<1> QED BY <1>1, TypeStep, PTL DEF Spec

-----------------------------------------------------------------------------
(* Mutual exclusion: who uses a table holds its lock.                      *)

\* Two sessions never use one table, nor two tables that share a lock.
LEMMA OneUser ==
  ASSUME LockInv, NEW p \in Session, NEW q \in Session, NEW t \in Table, NEW u \in Table,
         LockOf[t] = LockOf[u], UsesTable(p, t), UsesTable(q, u)
  PROVE  p = q
BY DEF LockInv

\* The end of a transaction takes no lock from anybody else.
LEMMA EndTransactionHold ==
  ASSUME TypeOK, LockInv, FreshInv, NEW p \in Session, EndTransaction(p)
  PROVE  LockInv' /\ FreshInv'
<1>1. ASSUME NEW q \in Session, NEW t \in Table, UsesTable(q, t)' PROVE holder'[LockOf[t]] = q
  <2>1. q # p
    BY <1>1 DEF EndTransaction, TypeOK, UsesTable, Reading
  <2>2. UsesTable(q, t)
    BY <1>1, <2>1 DEF EndTransaction, TypeOK, UsesTable, Reading
  <2> QED BY <2>1, <2>2, LockAssumption DEF LockInv, EndTransaction
<1>2. ASSUME NEW q \in Session, fresh'[q]
      PROVE  q # p /\ fresh[q] /\ pc'[q] = pc[q] /\ call'[q] = call[q]
             /\ newRows'[q] = newRows[q] /\ newCps'[q] = newCps[q]
  BY <1>2 DEF EndTransaction, TypeOK
<1> QED BY <1>1, <1>2 DEF LockInv, FreshInv

\* A failing call gives back only a lock that no longer protects anything.
LEMMA AbortCallHold ==
  ASSUME TypeOK, LockInv, FreshInv, NEW p \in Session, AbortCall(p)
  PROVE  LockInv' /\ FreshInv'
<1>1. CASE ~outer[p]
  BY <1>1, EndTransactionHold DEF AbortCall, Rollback
<1>2. CASE outer[p]
  <2> DEFINE k == LockOf[call[p].table]
  <2>1. /\ holder' = [j \in LockId |-> IF fresh[p] /\ j = k THEN NoSession ELSE holder[j]]
        /\ pc' = [pc EXCEPT ![p] = "idle"] /\ call' = [call EXCEPT ![p] = NoCall]
        /\ fresh' = [fresh EXCEPT ![p] = FALSE]
        /\ newRows' = newRows /\ newCps' = newCps
    BY <1>2 DEF AbortCall, pending
  <2>2. ASSUME NEW q \in Session, NEW t \in Table, UsesTable(q, t)'
        PROVE  holder'[LockOf[t]] = q
    <3>1. UsesTable(q, t)
      BY <2>1, <2>2 DEF TypeOK, UsesTable, Reading
    <3>2. holder[LockOf[t]] = q /\ LockOf[t] \in LockId
      BY <3>1, LockAssumption DEF LockInv
    <3>3. ASSUME fresh[p], LockOf[t] = k PROVE FALSE
      <4>1. UsesTable(p, call[p].table) /\ call[p].table \in Table
        BY <3>3 DEF FreshInv, UsesTable, Reading, TypeOK
      <4>2. q = p
        BY <3>1, <3>3, <4>1, OneUser
      <4>3. newRows[p][t] = {} /\ newCps[p][t] = {}
        BY <3>3 DEF FreshInv
      <4> QED BY <2>1, <2>2, <4>2, <4>3 DEF TypeOK, UsesTable, Reading
    <3> QED BY <2>1, <3>2, <3>3
  <2>3. ASSUME NEW q \in Session, fresh'[q]
        PROVE  q # p /\ fresh[q] /\ pc'[q] = pc[q] /\ call'[q] = call[q]
    BY <2>1, <2>3 DEF TypeOK
  <2> QED BY <2>1, <2>2, <2>3 DEF LockInv, FreshInv
<1> QED BY <1>1, <1>2

\* Every step keeps mutual exclusion.
LEMMA HoldStep == TypeOK /\ LockInv /\ FreshInv /\ [Next]_vars => LockInv' /\ FreshInv'
<1> SUFFICES ASSUME TypeOK, LockInv, FreshInv, [Next]_vars PROVE LockInv' /\ FreshInv'
  OBVIOUS
<1> USE DEF TypeOK, UsesTable, Reading
<1>1. ASSUME NEW p \in Session, NEW c, StartCall(p, c) PROVE LockInv' /\ FreshInv'
  BY <1>1 DEF StartCall, LockInv, FreshInv, pending
<1>2. ASSUME NEW p \in Session, TableLock(p) PROVE LockInv' /\ FreshInv'
  <2> DEFINE k == LockOf[call[p].table]
  <2>1. /\ k \in LockId /\ holder[k] \in {NoSession, p}
        /\ holder' = [holder EXCEPT ![k] = p]
        /\ pc[p] = "lock" /\ pc' = [pc EXCEPT ![p] = "last"]
        /\ fresh' = [fresh EXCEPT ![p] = (holder[k] = NoSession)]
        /\ call' = call /\ newRows' = newRows /\ newCps' = newCps
    BY <1>2, LockAssumption DEF TableLock, LockStep, pending
  <2>2. ASSUME NEW q \in Session, NEW t \in Table, UsesTable(q, t)'
        PROVE  holder'[LockOf[t]] = q
    <3>1. CASE q = p /\ t = call[p].table
      BY <2>1, <3>1
    <3>2. CASE UsesTable(q, t)
      BY <2>1, <3>2, SessionAssumption, LockAssumption DEF LockInv
    <3> QED BY <2>1, <2>2, <3>1, <3>2
  <2>3. ASSUME NEW t \in Table, LockOf[t] = k, holder[k] = NoSession
        PROVE  newRows[p][t] = {} /\ newCps[p][t] = {}
    BY <2>3, SessionAssumption DEF LockInv
  <2> QED BY <2>1, <2>2, <2>3 DEF LockInv, FreshInv
<1>3. ASSUME NEW p \in Session, SelectLast(p) \/ CountRows(p) \/ SelectPrevCheckpoint(p)
      PROVE  LockInv' /\ FreshInv'
  BY <1>3 DEF SelectLast, CountRows, SelectPrevCheckpoint, LockInv, FreshInv, pending
<1>4. ASSUME NEW p \in Session, SaveRow(p) PROVE LockInv' /\ FreshInv'
  BY <1>4 DEF SaveRow, AfterSave, LockInv, FreshInv
<1>5. ASSUME NEW p \in Session, SaveCheckpoint(p) PROVE LockInv' /\ FreshInv'
  BY <1>5 DEF SaveCheckpoint, AfterSave, LockInv, FreshInv
<1>6. ASSUME NEW p \in Session,
             CommitCall(p) \/ CommitOuter(p) \/ RollbackOuter(p) \/ Disconnect(p)
      PROVE  LockInv' /\ FreshInv'
  BY <1>6, EndTransactionHold DEF CommitCall, CommitOuter, RollbackOuter, Disconnect,
                                  Commit, Rollback
<1>7. ASSUME NEW p \in Session, CallRaises(p) \/ DeadlockDetected(p)
      PROVE  LockInv' /\ FreshInv'
  BY <1>7, AbortCallHold DEF CallRaises, DeadlockDetected
<1>8. CASE \/ \E p \in Session : BeginOuter(p)
           \/ \E k \in Key : RotateKey(k)
           \/ UNCHANGED vars
  BY <1>8 DEF BeginOuter, RotateKey, vars, pending, LockInv, FreshInv
<1> QED BY <1>1, <1>2, <1>3, <1>4, <1>5, <1>6, <1>7, <1>8
        DEF Next, CallStep, AppendCall, CheckpointCall

-----------------------------------------------------------------------------
(* Order of pks.                                                           *)

\* What p is about to publish in a table, nobody else has pending.
LEMMA SoleWriter ==
  ASSUME LockInv, NEW p \in Session, NEW q \in Session, p # q, NEW t \in Table,
         newRows[p][t] # {} \/ newCps[p][t] # {}
  PROVE  ~UsesTable(q, t) /\ newRows[q][t] = {} /\ newCps[q][t] = {}
BY OneUser DEF UsesTable

LEMMA RollbackPk ==
  ASSUME TypeOK, PkInv, NEW p \in Session, Rollback(p) PROVE PkInv'
BY DEF TypeOK, PkInv, Rollback, EndTransaction, committed, sequences

LEMMA CommitPk ==
  ASSUME TypeOK, LockInv, PkInv, NEW p \in Session, Commit(p) PROVE PkInv'
<1>1. /\ \A t \in Table : rows'[t] = rows[t] \cup newRows[p][t]
      /\ \A t \in Table : checkpoints'[t] = checkpoints[t] \cup newCps[p][t]
      /\ \A t \in Table : newRows'[p][t] = {} /\ newCps'[p][t] = {}
      /\ \A q \in Session \ {p} : newRows'[q] = newRows[q] /\ newCps'[q] = newCps[q]
      /\ rowSeq' = rowSeq /\ cpSeq' = cpSeq
  BY DEF Commit, EndTransaction, VisibleRows, VisibleCps, sequences, TypeOK
<1>2. \A t \in Table : \A r \in rows'[t] : r.pk \in 1..rowSeq'[t]
  BY <1>1 DEF PkInv
<1>3. \A t \in Table : \A c \in checkpoints'[t] : c.pk \in 1..cpSeq'
  BY <1>1 DEF PkInv
<1>4. ASSUME NEW q \in Session, NEW t \in Table
      PROVE  /\ \A r \in newRows'[q][t] : /\ r.pk \in 1..rowSeq'[t]
                                         /\ \A old \in rows'[t] : old.pk < r.pk
             /\ \A c \in newCps'[q][t] : /\ c.pk \in 1..cpSeq'
                                        /\ \A old \in checkpoints'[t] : old.pk < c.pk
  <2>1. CASE q = p
    BY <1>1, <2>1
  <2>2. CASE q # p /\ newRows[p][t] = {} /\ newCps[p][t] = {}
    BY <1>1, <2>2 DEF PkInv
  <2>3. CASE q # p /\ (newRows[p][t] # {} \/ newCps[p][t] # {})
    BY <1>1, <2>3, SoleWriter
  <2> QED BY <2>1, <2>2, <2>3
<1> QED BY <1>2, <1>3, <1>4 DEF PkInv

\* Every step keeps pks in order: a sequence is read and a row published under the lock.
LEMMA PkStep == TypeOK /\ LockInv /\ PkInv /\ [Next]_vars => PkInv'
<1> SUFFICES ASSUME TypeOK, LockInv, PkInv, [Next]_vars PROVE PkInv'
  OBVIOUS
<1>1. ASSUME NEW p \in Session, SaveRow(p) PROVE PkInv'
  <2> DEFINE t == call[p].table
             row == Entry(rowSeq[t] + 1, call[p].key, lastHash[p], call[p].body, ReadBack[call[p].body])
  <2>1. /\ t \in Table /\ row.pk = rowSeq[t] + 1
        /\ rows' = rows /\ checkpoints' = checkpoints /\ cpSeq' = cpSeq /\ newCps' = newCps
        /\ rowSeq' = [rowSeq EXCEPT ![t] = @ + 1]
        /\ newRows' = [newRows EXCEPT ![p][t] = @ \cup {row}]
    BY <1>1 DEF SaveRow, AfterSave, committed, TypeOK, Entry
  <2> HIDE DEF row
  <2>2. \A u \in Table : rowSeq[u] \in Nat /\ rowSeq'[u] \in Nat /\ rowSeq[u] <= rowSeq'[u]
    BY <2>1 DEF TypeOK
  <2>3. rowSeq'[t] = rowSeq[t] + 1
    BY <2>1 DEF TypeOK
  <2>4. \A q \in Session, u \in Table : \A r \in newRows'[q][u] :
          r \in newRows[q][u] \/ (u = t /\ r = row)
    BY <2>1 DEF TypeOK
  <2>5. \A q \in Session, u \in Table : \A r \in newRows'[q][u] :
          r.pk \in 1..rowSeq'[u] /\ \A old \in rows[u] : old.pk < r.pk
    BY <2>1, <2>2, <2>3, <2>4 DEF PkInv
  <2> QED BY <2>1, <2>2, <2>5 DEF PkInv
<1>2. ASSUME NEW p \in Session, SaveCheckpoint(p) PROVE PkInv'
  <2> DEFINE t == call[p].table
             cp == Checkpoint(cpSeq + 1, call[p].key, lastHash[p], prevCpHash[p], rowCount[p], t)
  <2>1. /\ t \in Table /\ cp.pk = cpSeq + 1
        /\ rows' = rows /\ checkpoints' = checkpoints /\ rowSeq' = rowSeq /\ newRows' = newRows
        /\ cpSeq' = cpSeq + 1 /\ cpSeq \in Nat
        /\ newCps' = [newCps EXCEPT ![p][t] = @ \cup {cp}]
    BY <1>2 DEF SaveCheckpoint, AfterSave, committed, TypeOK, Checkpoint
  <2> HIDE DEF cp
  <2>2. \A q \in Session, u \in Table : \A c \in newCps'[q][u] :
          c \in newCps[q][u] \/ (u = t /\ c = cp)
    BY <2>1 DEF TypeOK
  <2> QED BY <2>1, <2>2 DEF PkInv
<1>3. ASSUME NEW p \in Session, CommitCall(p) \/ CommitOuter(p) PROVE PkInv'
  BY <1>3, CommitPk DEF CommitCall, CommitOuter
<1>4. ASSUME NEW p \in Session, AbortCall(p) \/ Rollback(p) PROVE PkInv'
  <2>1. CASE Rollback(p)
    BY <2>1, RollbackPk
  <2>2. CASE outer[p] /\ AbortCall(p)
    BY <2>2 DEF AbortCall, PkInv, committed, sequences, pending
  <2> QED BY <1>4, <2>1, <2>2 DEF AbortCall
<1>5. CASE UNCHANGED <<committed, sequences, pending>>
  BY <1>5 DEF PkInv, committed, sequences, pending
<1>6. ASSUME NEW p \in Session,
             \/ \E t \in Table, body \in Body : AppendCall(p, t, body)
             \/ \E t \in Table : CheckpointCall(p, t)
             \/ TableLock(p) \/ SelectLast(p) \/ CountRows(p) \/ SelectPrevCheckpoint(p)
             \/ BeginOuter(p)
      PROVE  UNCHANGED <<committed, sequences, pending>>
  BY <1>6 DEF AppendCall, CheckpointCall, StartCall, TableLock, LockStep, SelectLast,
              CountRows, SelectPrevCheckpoint, BeginOuter
<1>7. ASSUME NEW k \in Key, RotateKey(k) PROVE UNCHANGED <<committed, sequences, pending>>
  BY <1>7 DEF RotateKey
<1>8. ASSUME UNCHANGED vars PROVE UNCHANGED <<committed, sequences, pending>>
  BY <1>8 DEF vars
<1> QED BY <1>1, <1>2, <1>3, <1>4, <1>5, <1>6, <1>7, <1>8
        DEF Next, CallStep, RollbackOuter, CallRaises, Disconnect, DeadlockDetected

-----------------------------------------------------------------------------
(* The chains.                                                             *)

\* What one session would commit in one table is linked, and its reads are current.
SessionLinked(p, t) ==
  /\ Linked(VisibleRows(p, t)) /\ LinkedCheckpoints(VisibleCps(p, t))
  /\ pc[p] = "save" /\ call[p].table = t => lastHash[p] = LastEntryHash(VisibleRows(p, t))
  /\ pc[p] = "save_cp" /\ call[p].table = t =>
       prevCpHash[p] = LastCheckpointHash(VisibleCps(p, t))

LEMMA LinkInvIsSessionLinked ==
  LinkInv <=> \A p \in Session, t \in Table : SessionLinked(p, t)
BY DEF LinkInv, SessionLinked

LEMMA RollbackLink ==
  ASSUME TypeOK, LinkInv, ChainLinked, CheckpointsLinked, NEW p \in Session, Rollback(p)
  PROVE  LinkInv' /\ ChainLinked' /\ CheckpointsLinked'
<1>1. /\ rows' = rows /\ checkpoints' = checkpoints /\ pc'[p] = "idle"
      /\ \A t \in Table : newRows'[p][t] = {} /\ newCps'[p][t] = {}
      /\ \A q \in Session \ {p} :
           /\ newRows'[q] = newRows[q] /\ newCps'[q] = newCps[q] /\ pc'[q] = pc[q]
           /\ call'[q] = call[q] /\ lastHash'[q] = lastHash[q] /\ prevCpHash'[q] = prevCpHash[q]
  BY DEF Rollback, EndTransaction, committed, TypeOK
<1>2. ASSUME NEW q \in Session, NEW t \in Table PROVE SessionLinked(q, t)'
  <2>1. CASE q = p
    BY <1>1, <2>1 DEF ChainLinked, CheckpointsLinked, SessionLinked, VisibleRows, VisibleCps
  <2>2. CASE q # p
    <3>1. VisibleRows(q, t)' = VisibleRows(q, t) /\ VisibleCps(q, t)' = VisibleCps(q, t)
      BY <1>1, <2>2 DEF VisibleRows, VisibleCps
    <3>2. /\ pc'[q] = pc[q] /\ call'[q] = call[q]
          /\ lastHash'[q] = lastHash[q] /\ prevCpHash'[q] = prevCpHash[q]
      BY <1>1, <2>2
    <3>3. SessionLinked(q, t)
      BY LinkInvIsSessionLinked
    <3> QED BY <3>1, <3>2, <3>3 DEF SessionLinked
  <2> QED BY <2>1, <2>2
<1>3. LinkInv'
  BY <1>2 DEF LinkInv, SessionLinked
<1> QED BY <1>1, <1>3 DEF ChainLinked, CheckpointsLinked

LEMMA CommitLink ==
  ASSUME TypeOK, LockInv, LinkInv, NEW p \in Session, Commit(p)
  PROVE  LinkInv' /\ ChainLinked' /\ CheckpointsLinked'
<1>1. /\ \A t \in Table : rows'[t] = VisibleRows(p, t) /\ checkpoints'[t] = VisibleCps(p, t)
      /\ \A t \in Table : newRows'[p][t] = {} /\ newCps'[p][t] = {}
      /\ pc'[p] = "idle"
      /\ \A q \in Session \ {p} :
           /\ newRows'[q] = newRows[q] /\ newCps'[q] = newCps[q] /\ pc'[q] = pc[q]
           /\ call'[q] = call[q] /\ lastHash'[q] = lastHash[q] /\ prevCpHash'[q] = prevCpHash[q]
  BY DEF Commit, EndTransaction, TypeOK
<1>2. ChainLinked' /\ CheckpointsLinked'
  BY <1>1 DEF LinkInv, ChainLinked, CheckpointsLinked
<1>3. ASSUME NEW q \in Session, NEW t \in Table PROVE SessionLinked(q, t)'
  <2>1. CASE q = p
    BY <1>1, <1>2, <2>1 DEF ChainLinked, CheckpointsLinked, SessionLinked, VisibleRows, VisibleCps
  <2>2. CASE q # p /\ newRows[p][t] = {} /\ newCps[p][t] = {}
    <3>1. rows'[t] = rows[t] /\ checkpoints'[t] = checkpoints[t]
      BY <1>1, <2>2 DEF VisibleRows, VisibleCps
    <3>2. VisibleRows(q, t)' = VisibleRows(q, t) /\ VisibleCps(q, t)' = VisibleCps(q, t)
      BY <1>1, <2>2, <3>1 DEF VisibleRows, VisibleCps
    <3>3. SessionLinked(q, t)
      BY LinkInvIsSessionLinked
    <3>4. pc'[q] = pc[q] /\ call'[q] = call[q] /\ lastHash'[q] = lastHash[q]
          /\ prevCpHash'[q] = prevCpHash[q]
      BY <1>1, <2>2
    <3> QED BY <3>2, <3>3, <3>4 DEF SessionLinked
  <2>3. CASE q # p /\ (newRows[p][t] # {} \/ newCps[p][t] # {})
    <3>1. ~UsesTable(q, t) /\ newRows[q][t] = {} /\ newCps[q][t] = {}
      BY <2>3, SoleWriter
    <3>2. rows'[t] \cup newRows'[q][t] = rows'[t]
          /\ checkpoints'[t] \cup newCps'[q][t] = checkpoints'[t]
      BY <1>1, <2>3, <3>1
    <3>3. ~(pc'[q] \in {"save", "save_cp"} /\ call'[q].table = t)
      BY <1>1, <2>3, <3>1 DEF UsesTable, Reading
    <3> QED BY <1>2, <3>2, <3>3 DEF ChainLinked, CheckpointsLinked, SessionLinked,
                                     VisibleRows, VisibleCps
  <2> QED BY <2>1, <2>2, <2>3
<1> QED BY <1>2, <1>3 DEF LinkInv, SessionLinked

\* Every step keeps the chains.
LEMMA LinkStep == IInv /\ [Next]_vars => LinkInv' /\ ChainLinked' /\ CheckpointsLinked'
<1> SUFFICES ASSUME IInv, [Next]_vars PROVE LinkInv' /\ ChainLinked' /\ CheckpointsLinked'
  OBVIOUS
<1> USE DEF IInv
<1>1. ASSUME NEW p \in Session, SaveRow(p)
      PROVE  LinkInv' /\ ChainLinked' /\ CheckpointsLinked'
  <2> DEFINE t == call[p].table
             row == Entry(rowSeq[t] + 1, call[p].key, lastHash[p], call[p].body, ReadBack[call[p].body])
  <2>1. /\ t \in Table /\ row.pk = rowSeq[t] + 1 /\ row.previous_hash = lastHash[p]
        /\ rows' = rows /\ checkpoints' = checkpoints /\ newCps' = newCps
        /\ newRows' = [newRows EXCEPT ![p][t] = @ \cup {row}]
        /\ pc[p] = "save" /\ pc'[p] \in {"idle", "commit"}
        /\ \A q \in Session \ {p} :
             pc'[q] = pc[q] /\ call'[q] = call[q] /\ lastHash'[q] = lastHash[q]
             /\ prevCpHash'[q] = prevCpHash[q]
    BY <1>1 DEF SaveRow, AfterSave, committed, TypeOK, Entry
  <2> HIDE DEF row
  <2>2. Linked(VisibleRows(p, t) \cup {row})
    <3>1. row.pk \in Int /\ \A r \in VisibleRows(p, t) : r.pk \in Int /\ r.pk < row.pk
      BY <2>1 DEF PkInv, TypeOK, VisibleRows
    <3>2. Linked(VisibleRows(p, t)) /\ row.previous_hash = LastEntryHash(VisibleRows(p, t))
      BY <2>1 DEF LinkInv
    <3> QED BY <3>1, <3>2, NewestRowLinks
  <2>3. ASSUME NEW q \in Session, NEW u \in Table PROVE SessionLinked(q, u)'
    <3>1. CASE q = p /\ u = t
      <4>1. rows'[u] \cup newRows'[q][u] = VisibleRows(p, t) \cup {row}
        BY <2>1, <3>1 DEF VisibleRows, TypeOK
      <4> QED BY <2>1, <2>2, <3>1, <4>1 DEF LinkInv, SessionLinked, VisibleRows, VisibleCps
    <3>2. CASE q = p /\ u # t
      <4>1. newRows'[q][u] = newRows[q][u]
        BY <2>1, <3>2 DEF TypeOK
      <4> QED BY <2>1, <3>2, <4>1 DEF LinkInv, SessionLinked, VisibleRows, VisibleCps
    <3>3. CASE q # p
      <4>1. newRows'[q][u] = newRows[q][u]
        BY <2>1, <3>3 DEF TypeOK
      <4> QED BY <2>1, <3>3, <4>1 DEF LinkInv, SessionLinked, VisibleRows, VisibleCps
    <3> QED BY <3>1, <3>2, <3>3
  <2> QED BY <2>1, <2>3 DEF LinkInv, SessionLinked, ChainLinked, CheckpointsLinked
<1>2. ASSUME NEW p \in Session, SaveCheckpoint(p)
      PROVE  LinkInv' /\ ChainLinked' /\ CheckpointsLinked'
  <2> DEFINE t == call[p].table
             cp == Checkpoint(cpSeq + 1, call[p].key, lastHash[p], prevCpHash[p], rowCount[p], t)
  <2>1. /\ t \in Table /\ cp.pk = cpSeq + 1 /\ cp.previous_checkpoint_hash = prevCpHash[p]
        /\ rows' = rows /\ checkpoints' = checkpoints /\ newRows' = newRows
        /\ newCps' = [newCps EXCEPT ![p][t] = @ \cup {cp}]
        /\ pc[p] = "save_cp" /\ pc'[p] \in {"idle", "commit"}
        /\ \A q \in Session \ {p} :
             pc'[q] = pc[q] /\ call'[q] = call[q] /\ lastHash'[q] = lastHash[q]
             /\ prevCpHash'[q] = prevCpHash[q]
    BY <1>2 DEF SaveCheckpoint, AfterSave, committed, TypeOK, Checkpoint
  <2> HIDE DEF cp
  <2>2. LinkedCheckpoints(VisibleCps(p, t) \cup {cp})
    <3>1. cp.pk \in Int /\ \A c \in VisibleCps(p, t) : c.pk \in Int /\ c.pk < cp.pk
      BY <2>1 DEF PkInv, TypeOK, VisibleCps
    <3>2. /\ LinkedCheckpoints(VisibleCps(p, t))
          /\ cp.previous_checkpoint_hash = LastCheckpointHash(VisibleCps(p, t))
      BY <2>1 DEF LinkInv
    <3> QED BY <3>1, <3>2, NewestCheckpointLinks
  <2>3. ASSUME NEW q \in Session, NEW u \in Table PROVE SessionLinked(q, u)'
    <3>1. CASE q = p /\ u = t
      <4>1. checkpoints'[u] \cup newCps'[q][u] = VisibleCps(p, t) \cup {cp}
        BY <2>1, <3>1 DEF VisibleCps, TypeOK
      <4> QED BY <2>1, <2>2, <3>1, <4>1 DEF LinkInv, SessionLinked, VisibleRows, VisibleCps
    <3>2. CASE q # p \/ u # t
      <4>1. newCps'[q][u] = newCps[q][u]
        BY <2>1, <3>2 DEF TypeOK
      <4> QED BY <2>1, <3>2, <4>1 DEF LinkInv, SessionLinked, VisibleRows, VisibleCps
    <3> QED BY <3>1, <3>2
  <2> QED BY <2>1, <2>3 DEF LinkInv, SessionLinked, ChainLinked, CheckpointsLinked
<1>3. ASSUME NEW p \in Session, CommitCall(p) \/ CommitOuter(p)
      PROVE  LinkInv' /\ ChainLinked' /\ CheckpointsLinked'
  BY <1>3, CommitLink DEF CommitCall, CommitOuter
<1>4. ASSUME NEW p \in Session, AbortCall(p) \/ Rollback(p)
      PROVE  LinkInv' /\ ChainLinked' /\ CheckpointsLinked'
  <2>1. CASE Rollback(p)
    BY <2>1, RollbackLink
  <2>2. CASE outer[p] /\ AbortCall(p)
    <3>1. /\ UNCHANGED <<rows, checkpoints, newRows, newCps>> /\ pc'[p] = "idle"
          /\ \A q \in Session \ {p} :
               pc'[q] = pc[q] /\ call'[q] = call[q] /\ lastHash'[q] = lastHash[q]
               /\ prevCpHash'[q] = prevCpHash[q]
      BY <2>2 DEF AbortCall, committed, pending, TypeOK
    <3>2. \A q \in Session, u \in Table : SessionLinked(q, u)'
      BY <3>1 DEF LinkInv, SessionLinked, VisibleRows, VisibleCps
    <3> QED BY <3>1, <3>2 DEF LinkInv, SessionLinked, ChainLinked, CheckpointsLinked
  <2> QED BY <1>4, <2>1, <2>2 DEF AbortCall
<1>5. ASSUME NEW p \in Session,
             \/ \E c : StartCall(p, c)
             \/ TableLock(p) \/ SelectLast(p) \/ CountRows(p) \/ SelectPrevCheckpoint(p)
      PROVE  LinkInv' /\ ChainLinked' /\ CheckpointsLinked'
  <2>1. UNCHANGED <<rows, checkpoints, newRows, newCps>>
    BY <1>5 DEF StartCall, TableLock, LockStep, SelectLast, CountRows,
                SelectPrevCheckpoint, committed, pending
  <2>2. \A q \in Session : pc'[q] = "save" =>
          \/ /\ pc[q] = "save" /\ call'[q] = call[q] /\ lastHash'[q] = lastHash[q]
          \/ lastHash'[q] = LastEntryHash(VisibleRows(q, call'[q].table))
    BY <1>5 DEF StartCall, TableLock, LockStep, SelectLast, CountRows,
                SelectPrevCheckpoint, TypeOK, reads
  <2>3. \A q \in Session : pc'[q] = "save_cp" =>
          \/ /\ pc[q] = "save_cp" /\ call'[q] = call[q] /\ prevCpHash'[q] = prevCpHash[q]
          \/ prevCpHash'[q] = LastCheckpointHash(VisibleCps(q, call'[q].table))
    BY <1>5 DEF StartCall, TableLock, LockStep, SelectLast, CountRows,
                SelectPrevCheckpoint, TypeOK, reads
  <2>4. ASSUME NEW q \in Session, NEW u \in Table PROVE SessionLinked(q, u)'
    BY <2>1, <2>2, <2>3 DEF LinkInv, SessionLinked, VisibleRows, VisibleCps
  <2> QED BY <2>1, <2>4 DEF LinkInv, SessionLinked, ChainLinked, CheckpointsLinked
<1>6. CASE \/ \E p \in Session : BeginOuter(p)
           \/ \E k \in Key : RotateKey(k)
           \/ UNCHANGED vars
  BY <1>6 DEF BeginOuter, RotateKey, vars, LinkInv, ChainLinked, CheckpointsLinked,
              VisibleRows, VisibleCps, committed, pending, reads
<1> QED BY <1>1, <1>2, <1>3, <1>4, <1>5, <1>6
        DEF Next, CallStep, AppendCall, CheckpointCall, RollbackOuter, CallRaises,
            Disconnect, DeadlockDetected

-----------------------------------------------------------------------------
(* The theorems.                                                           *)

\* The invariant holds in every reachable state.
THEOREM IInvCorrect == Spec => []IInv
<1>1. IInv /\ [Next]_vars => IInv'
  BY TypeStep, HoldStep, PkStep, LinkStep DEF IInv
<1> QED BY <1>1, InitIInv, PTL DEF Spec

\* The committed rows of every audit table form one chain, for any number of sessions
\* appending to any number of tables, alone or in transactions of the application.
THEOREM ChainCorrect == Spec => []ChainLinked
<1>1. IInv => ChainLinked
  BY DEF IInv
<1> QED BY <1>1, IInvCorrect, PTL

\* The committed checkpoints of every audit table form one chain.
THEOREM CheckpointChainCorrect == Spec => []CheckpointsLinked
<1>1. IInv => CheckpointsLinked
  BY DEF IInv
<1> QED BY <1>1, IInvCorrect, PTL

\* Rows never go away, and become visible in pk order.
THEOREM AppendOnlyCorrect == Spec => AppendOnly
<1> DEFINE Step == \A t \in Table :
                     /\ rows[t] \subseteq rows'[t]
                     /\ \A new \in rows'[t] \ rows[t], old \in rows[t] : old.pk < new.pk
<1>1. IInv /\ [Next]_vars => [Step]_rows
  <2> SUFFICES ASSUME IInv, Next, rows' # rows PROVE Step
    BY DEF vars, committed
  <2>1. PICK p \in Session : Commit(p)
    BY DEF Next, CallStep, AppendCall, CheckpointCall, StartCall, TableLock, LockStep,
           SelectLast, CountRows, SelectPrevCheckpoint, SaveRow, SaveCheckpoint, AfterSave,
           CommitCall, CommitOuter, RollbackOuter, CallRaises, Disconnect, DeadlockDetected,
           BeginOuter, RotateKey, AbortCall, Rollback, committed
  <2>2. \A t \in Table : rows'[t] = rows[t] \cup newRows[p][t]
    BY <2>1 DEF Commit, VisibleRows
  <2> QED BY <2>2 DEF IInv, PkInv
<1> QED BY <1>1, IInvCorrect, PTL DEF Spec, AppendOnly

-----------------------------------------------------------------------------
(* Checkpoints of one view of a table.                                     *)

UpTo(R, n) == {r \in R : r.pk <= n}

\* The checkpoints C describe prefixes of the rows R, whose pks go up to m, in order.
Described(R, C, m) ==
  \A c \in C :
    /\ \E n \in 0..m : c.row_count = Cardinality(UpTo(R, n))
                       /\ c.last_entry_hash = LastEntryHash(UpTo(R, n))
    /\ c.row_count <= Cardinality(R)
    /\ \A d \in C : d.pk < c.pk => d.row_count <= c.row_count

\* A new row at the end leaves every prefix what it was.
LEMMA NewestRowDescribes ==
  ASSUME NEW R, NEW C, NEW m \in Nat, NEW row, Described(R, C, m), IsFiniteSet(R),
         row.pk = m + 1, \A r \in R : r.pk \in 1..m
  PROVE  Described(R \cup {row}, C, m + 1)
<1>1. \A n \in 0..m : UpTo(R \cup {row}, n) = UpTo(R, n)
  BY DEF UpTo
<1>2. Cardinality(R) <= Cardinality(R \cup {row})
  <2>1. IsFiniteSet(R \cup {row})
    BY FS_AddElement
  <2>2. R \in SUBSET (R \cup {row})
    OBVIOUS
  <2> QED BY <2>1, <2>2, FS_Subset
<1>3. \A n \in 0..m : Cardinality(UpTo(R, n)) \in Nat
  BY FS_Subset, FS_CardinalityType DEF UpTo
<1>4. Cardinality(R) \in Nat /\ Cardinality(R \cup {row}) \in Nat
  BY FS_AddElement, FS_CardinalityType
<1>5. \A c \in C : c.row_count \in Nat
  BY <1>3 DEF Described
<1>6. \A n \in 0..m : n \in 0..(m + 1)
  OBVIOUS
<1> SUFFICES ASSUME NEW c \in C
             PROVE  /\ \E n \in 0..(m + 1) :
                         /\ c.row_count = Cardinality(UpTo(R \cup {row}, n))
                         /\ c.last_entry_hash = LastEntryHash(UpTo(R \cup {row}, n))
                    /\ c.row_count <= Cardinality(R \cup {row})
                    /\ \A d \in C : d.pk < c.pk => d.row_count <= c.row_count
  BY Zenon DEF Described
<1>7. PICK n \in 0..m : /\ c.row_count = Cardinality(UpTo(R, n))
                        /\ c.last_entry_hash = LastEntryHash(UpTo(R, n))
  BY DEF Described
<1>8. c.row_count <= Cardinality(R) /\ \A d \in C : d.pk < c.pk => d.row_count <= c.row_count
  BY DEF Described
<1>9. c.row_count <= Cardinality(R \cup {row})
  BY <1>2, <1>4, <1>5, <1>8
<1> QED BY <1>1, <1>6, <1>7, <1>8, <1>9

\* A new checkpoint of all rows describes the longest prefix so far.
LEMMA NewestCheckpointDescribes ==
  ASSUME NEW R, NEW C, NEW m \in Nat, NEW cp, Described(R, C, m), IsFiniteSet(R),
         \A r \in R : r.pk \in 1..m,
         cp.row_count = Cardinality(R), cp.last_entry_hash = LastEntryHash(R),
         cp.pk \in Int, \A c \in C : c.pk \in Int /\ c.pk < cp.pk
  PROVE  Described(R, C \cup {cp}, m)
<1>1. UpTo(R, m) = R /\ m \in 0..m
  BY DEF UpTo
<1>2. Cardinality(R) \in Nat
  BY FS_CardinalityType
<1> QED BY <1>1, <1>2 DEF Described

LEMMA LongerSequenceDescribes ==
  ASSUME NEW R, NEW C, NEW m \in Nat, NEW n \in Nat, m <= n, Described(R, C, m)
  PROVE  Described(R, C, n)
BY DEF Described

-----------------------------------------------------------------------------
(* Checkpoints describe prefixes.                                          *)

\* What p has read of table t is still what it sees of it.
ReadsCurrent(p, t) ==
  call[p].table = t =>
    /\ pc[p] \in {"count", "prev_cp", "save_cp"} => lastHash[p] = LastEntryHash(VisibleRows(p, t))
    /\ pc[p] \in {"prev_cp", "save_cp"} => rowCount[p] = Cardinality(VisibleRows(p, t))

SessionDescribed(p, t) ==
  Described(VisibleRows(p, t), VisibleCps(p, t), rowSeq[t]) /\ ReadsCurrent(p, t)

PrefixInv ==
  \A t \in Table :
    /\ Described(rows[t], checkpoints[t], rowSeq[t])
    /\ \A p \in Session : SessionDescribed(p, t)

LEMMA InitPrefix == Init => PrefixInv
BY DEF Init, PrefixInv, SessionDescribed, ReadsCurrent, Described, VisibleRows, VisibleCps

\* What a session sees is finite and has pks of the sequence.
LEMMA ViewBounds ==
  ASSUME IInv, NEW p \in Session, NEW t \in Table
  PROVE  /\ IsFiniteSet(VisibleRows(p, t)) /\ rowSeq[t] \in Nat
         /\ \A r \in VisibleRows(p, t) : r.pk \in 1..rowSeq[t]
BY FS_Union DEF IInv, TypeOK, PkInv, VisibleRows

LEMMA RollbackPrefix ==
  ASSUME IInv, PrefixInv, NEW p \in Session, Rollback(p)
  PROVE  PrefixInv'
<1>1. /\ rows' = rows /\ checkpoints' = checkpoints /\ pc'[p] = "idle" /\ rowSeq' = rowSeq
      /\ \A t \in Table : newRows'[p][t] = {} /\ newCps'[p][t] = {}
      /\ \A q \in Session \ {p} :
           /\ newRows'[q] = newRows[q] /\ newCps'[q] = newCps[q] /\ pc'[q] = pc[q]
           /\ call'[q] = call[q] /\ lastHash'[q] = lastHash[q] /\ rowCount'[q] = rowCount[q]
  BY DEF Rollback, EndTransaction, committed, sequences, IInv, TypeOK
<1>2. ASSUME NEW q \in Session, NEW t \in Table PROVE SessionDescribed(q, t)'
  <2>1. CASE q = p
    BY <1>1, <2>1 DEF PrefixInv, SessionDescribed, ReadsCurrent, VisibleRows, VisibleCps
  <2>2. CASE q # p
    BY <1>1, <2>2 DEF PrefixInv, SessionDescribed, ReadsCurrent, VisibleRows, VisibleCps
  <2> QED BY <2>1, <2>2
<1> QED BY <1>1, <1>2 DEF PrefixInv

LEMMA CommitPrefix ==
  ASSUME IInv, PrefixInv, NEW p \in Session, Commit(p)
  PROVE  PrefixInv'
<1>1. /\ \A t \in Table : rows'[t] = VisibleRows(p, t) /\ checkpoints'[t] = VisibleCps(p, t)
      /\ \A t \in Table : newRows'[p][t] = {} /\ newCps'[p][t] = {}
      /\ pc'[p] = "idle" /\ rowSeq' = rowSeq
      /\ \A q \in Session \ {p} :
           /\ newRows'[q] = newRows[q] /\ newCps'[q] = newCps[q] /\ pc'[q] = pc[q]
           /\ call'[q] = call[q] /\ lastHash'[q] = lastHash[q] /\ rowCount'[q] = rowCount[q]
  BY DEF Commit, EndTransaction, sequences, IInv, TypeOK
<1>2. ASSUME NEW t \in Table PROVE Described(rows'[t], checkpoints'[t], rowSeq'[t])
  BY <1>1 DEF PrefixInv, SessionDescribed
<1>3. ASSUME NEW q \in Session, NEW t \in Table PROVE SessionDescribed(q, t)'
  <2>1. CASE q = p
    BY <1>1, <1>2, <2>1 DEF SessionDescribed, ReadsCurrent, VisibleRows, VisibleCps
  <2>2. CASE q # p /\ newRows[p][t] = {} /\ newCps[p][t] = {}
    <3>1. VisibleRows(q, t)' = VisibleRows(q, t) /\ VisibleCps(q, t)' = VisibleCps(q, t)
      BY <1>1, <2>2 DEF VisibleRows, VisibleCps
    <3> QED BY <1>1, <2>2, <3>1 DEF PrefixInv, SessionDescribed, ReadsCurrent
  <2>3. CASE q # p /\ (newRows[p][t] # {} \/ newCps[p][t] # {})
    <3>1. ~UsesTable(q, t) /\ newRows[q][t] = {} /\ newCps[q][t] = {}
      BY <2>3, SoleWriter DEF IInv
    <3>2. VisibleRows(q, t)' = rows'[t] /\ VisibleCps(q, t)' = checkpoints'[t]
      BY <1>1, <2>3, <3>1 DEF VisibleRows, VisibleCps
    <3>3. ~(pc'[q] \in {"count", "prev_cp", "save_cp"} /\ call'[q].table = t)
      BY <1>1, <2>3, <3>1 DEF UsesTable, Reading
    <3> QED BY <1>2, <3>2, <3>3 DEF SessionDescribed, ReadsCurrent
  <2> QED BY <2>1, <2>2, <2>3
<1> QED BY <1>2, <1>3 DEF PrefixInv

LEMMA SaveRowPrefix ==
  ASSUME IInv, PrefixInv, NEW p \in Session, SaveRow(p)
  PROVE  PrefixInv'
<1> DEFINE t == call[p].table
           row == Entry(rowSeq[t] + 1, call[p].key, lastHash[p], call[p].body, ReadBack[call[p].body])
<1>1. /\ t \in Table /\ row.pk = rowSeq[t] + 1
      /\ rows' = rows /\ checkpoints' = checkpoints /\ newCps' = newCps
      /\ newRows' = [newRows EXCEPT ![p][t] = @ \cup {row}]
      /\ rowSeq' = [rowSeq EXCEPT ![t] = @ + 1]
      /\ pc'[p] \in {"idle", "commit"}
      /\ \A q \in Session \ {p} :
           pc'[q] = pc[q] /\ call'[q] = call[q] /\ lastHash'[q] = lastHash[q]
           /\ rowCount'[q] = rowCount[q]
  BY DEF SaveRow, AfterSave, committed, IInv, TypeOK, Entry
<1> HIDE DEF row
<1>2. \A u \in Table : /\ rowSeq[u] \in Nat /\ rowSeq'[u] \in Nat /\ rowSeq[u] <= rowSeq'[u]
                       /\ u = t => rowSeq'[u] = rowSeq[t] + 1
  BY <1>1 DEF IInv, TypeOK
<1>3. Described(VisibleRows(p, t) \cup {row}, VisibleCps(p, t), rowSeq[t] + 1)
  <2>1. Described(VisibleRows(p, t), VisibleCps(p, t), rowSeq[t])
    BY <1>1 DEF PrefixInv, SessionDescribed
  <2> QED BY <1>1, <2>1, ViewBounds, NewestRowDescribes
<1>4. ASSUME NEW q \in Session, NEW u \in Table PROVE SessionDescribed(q, u)'
  <2>1. CASE q = p /\ u = t
    <3>1. VisibleRows(q, u)' = VisibleRows(p, t) \cup {row} /\ VisibleCps(q, u)' = VisibleCps(p, t)
      BY <1>1, <2>1 DEF VisibleRows, VisibleCps, IInv, TypeOK
    <3> QED BY <1>1, <1>2, <1>3, <2>1, <3>1 DEF SessionDescribed, ReadsCurrent
  <2>2. CASE ~(q = p /\ u = t)
    <3>1. newRows'[q][u] = newRows[q][u]
      BY <1>1, <2>2 DEF IInv, TypeOK
    <3>2. VisibleRows(q, u)' = VisibleRows(q, u) /\ VisibleCps(q, u)' = VisibleCps(q, u)
      BY <1>1, <3>1 DEF VisibleRows, VisibleCps
    <3>3. Described(VisibleRows(q, u), VisibleCps(q, u), rowSeq[u])
      BY DEF PrefixInv, SessionDescribed
    <3>4. Described(VisibleRows(q, u), VisibleCps(q, u), rowSeq'[u])
      BY <1>2, <3>3, LongerSequenceDescribes
    <3>5. ReadsCurrent(q, u)'
      BY <1>1, <3>2 DEF PrefixInv, SessionDescribed, ReadsCurrent
    <3> QED BY <3>2, <3>4, <3>5 DEF SessionDescribed
  <2> QED BY <2>1, <2>2
<1>5. ASSUME NEW u \in Table PROVE Described(rows'[u], checkpoints'[u], rowSeq'[u])
  BY <1>1, <1>2, LongerSequenceDescribes DEF PrefixInv
<1> QED BY <1>4, <1>5 DEF PrefixInv

LEMMA SaveCheckpointPrefix ==
  ASSUME IInv, PrefixInv, NEW p \in Session, SaveCheckpoint(p)
  PROVE  PrefixInv'
<1> DEFINE t == call[p].table
           cp == Checkpoint(cpSeq + 1, call[p].key, lastHash[p], prevCpHash[p], rowCount[p], t)
<1>1. /\ t \in Table /\ cp.pk = cpSeq + 1 /\ cpSeq \in Nat
      /\ cp.row_count = rowCount[p] /\ cp.last_entry_hash = lastHash[p]
      /\ rows' = rows /\ checkpoints' = checkpoints /\ newRows' = newRows /\ rowSeq' = rowSeq
      /\ newCps' = [newCps EXCEPT ![p][t] = @ \cup {cp}]
      /\ pc[p] = "save_cp" /\ pc'[p] \in {"idle", "commit"}
      /\ \A q \in Session \ {p} :
           pc'[q] = pc[q] /\ call'[q] = call[q] /\ lastHash'[q] = lastHash[q]
           /\ rowCount'[q] = rowCount[q]
  BY DEF SaveCheckpoint, AfterSave, committed, IInv, TypeOK, Checkpoint
<1> HIDE DEF cp
<1>2. Described(VisibleRows(p, t), VisibleCps(p, t) \cup {cp}, rowSeq[t])
  <2>1. SessionDescribed(p, t)
    BY <1>1 DEF PrefixInv
  <2>2. /\ rowCount[p] = Cardinality(VisibleRows(p, t))
        /\ lastHash[p] = LastEntryHash(VisibleRows(p, t))
    BY <1>1, <2>1 DEF SessionDescribed, ReadsCurrent
  <2>3. cp.pk \in Int /\ \A c \in VisibleCps(p, t) : c.pk \in Int /\ c.pk < cp.pk
    BY <1>1 DEF IInv, PkInv, VisibleCps
  <2>4. Described(VisibleRows(p, t), VisibleCps(p, t), rowSeq[t])
    BY <2>1 DEF SessionDescribed
  <2> QED BY <1>1, <2>2, <2>3, <2>4, ViewBounds, NewestCheckpointDescribes
<1>3. ASSUME NEW q \in Session, NEW u \in Table PROVE SessionDescribed(q, u)'
  <2>1. CASE q = p /\ u = t
    <3>1. VisibleCps(q, u)' = VisibleCps(p, t) \cup {cp} /\ VisibleRows(q, u)' = VisibleRows(p, t)
      BY <1>1, <2>1 DEF VisibleRows, VisibleCps, IInv, TypeOK
    <3> QED BY <1>1, <1>2, <2>1, <3>1 DEF SessionDescribed, ReadsCurrent
  <2>2. CASE ~(q = p /\ u = t)
    <3>1. newCps'[q][u] = newCps[q][u]
      BY <1>1, <2>2 DEF IInv, TypeOK
    <3>2. VisibleRows(q, u)' = VisibleRows(q, u) /\ VisibleCps(q, u)' = VisibleCps(q, u)
      BY <1>1, <3>1 DEF VisibleRows, VisibleCps
    <3> QED BY <1>1, <2>2, <3>2 DEF PrefixInv, SessionDescribed, ReadsCurrent
  <2> QED BY <2>1, <2>2
<1> QED BY <1>1, <1>3 DEF PrefixInv

\* A step that changes no row, checkpoint or sequence: what is read is read as it is.
LEMMA QueryPrefix ==
  ASSUME IInv, PrefixInv, UNCHANGED <<rows, checkpoints, newRows, newCps, rowSeq>>,
         NEW p \in Session,
         /\ pc'[p] \in {"count", "prev_cp", "save_cp"} =>
              /\ call'[p] = call[p]
              /\ \/ lastHash'[p] = lastHash[p] /\ pc[p] \in {"count", "prev_cp", "save_cp"}
                 \/ lastHash'[p] = LastEntryHash(VisibleRows(p, call[p].table))
         /\ pc'[p] \in {"prev_cp", "save_cp"} =>
              \/ rowCount'[p] = rowCount[p] /\ pc[p] \in {"prev_cp", "save_cp"}
              \/ rowCount'[p] = Cardinality(VisibleRows(p, call[p].table)),
         \A q \in Session \ {p} :
           pc'[q] = pc[q] /\ call'[q] = call[q] /\ lastHash'[q] = lastHash[q]
           /\ rowCount'[q] = rowCount[q]
  PROVE  PrefixInv'
<1>1. ASSUME NEW q \in Session, NEW t \in Table PROVE SessionDescribed(q, t)'
  <2>1. VisibleRows(q, t)' = VisibleRows(q, t) /\ VisibleCps(q, t)' = VisibleCps(q, t)
    BY DEF VisibleRows, VisibleCps
  <2>2. Described(VisibleRows(q, t), VisibleCps(q, t), rowSeq[t]) /\ ReadsCurrent(q, t)
    BY DEF PrefixInv, SessionDescribed
  <2>3. ReadsCurrent(q, t)'
    BY <2>1, <2>2 DEF ReadsCurrent
  <2> QED BY <2>1, <2>2, <2>3 DEF SessionDescribed
<1> QED BY <1>1 DEF PrefixInv

LEMMA PrefixStep == IInv /\ PrefixInv /\ [Next]_vars => PrefixInv'
<1> SUFFICES ASSUME IInv, PrefixInv, [Next]_vars PROVE PrefixInv'
  OBVIOUS
<1>1. ASSUME NEW p \in Session, \E c : StartCall(p, c) PROVE PrefixInv'
  BY <1>1, QueryPrefix DEF StartCall, committed, sequences, pending, reads, IInv, TypeOK
<1>2. ASSUME NEW p \in Session, TableLock(p) PROVE PrefixInv'
  BY <1>2, QueryPrefix DEF TableLock, LockStep, committed, sequences, pending, reads, IInv, TypeOK
<1>3. ASSUME NEW p \in Session, SelectLast(p) PROVE PrefixInv'
  BY <1>3, QueryPrefix DEF SelectLast, committed, sequences, pending, IInv, TypeOK
<1>4. ASSUME NEW p \in Session, CountRows(p) PROVE PrefixInv'
  BY <1>4, QueryPrefix DEF CountRows, committed, sequences, pending, IInv, TypeOK
<1>5. ASSUME NEW p \in Session, SelectPrevCheckpoint(p) PROVE PrefixInv'
  BY <1>5, QueryPrefix DEF SelectPrevCheckpoint, committed, sequences, pending, IInv, TypeOK
<1>6. ASSUME NEW p \in Session, CommitCall(p) \/ CommitOuter(p) PROVE PrefixInv'
  BY <1>6, CommitPrefix DEF CommitCall, CommitOuter
<1>7. ASSUME NEW p \in Session, AbortCall(p) \/ Rollback(p) PROVE PrefixInv'
  <2>1. CASE Rollback(p)
    BY <2>1, RollbackPrefix
  <2>2. CASE outer[p] /\ AbortCall(p)
    BY <2>2, QueryPrefix DEF AbortCall, committed, sequences, pending, IInv, TypeOK
  <2> QED BY <1>7, <2>1, <2>2 DEF AbortCall
<1>8. CASE \/ \E p \in Session : BeginOuter(p)
           \/ \E k \in Key : RotateKey(k)
           \/ UNCHANGED vars
  <2>1. UNCHANGED <<rows, checkpoints, rowSeq, newRows, newCps, pc, call, lastHash, rowCount>>
    BY <1>8 DEF BeginOuter, RotateKey, vars, committed, sequences, pending, reads
  <2> QED BY <2>1 DEF PrefixInv, SessionDescribed, ReadsCurrent, VisibleRows, VisibleCps
<1> QED BY <1>1, <1>2, <1>3, <1>4, <1>5, <1>6, <1>7, <1>8, SaveRowPrefix, SaveCheckpointPrefix
        DEF Next, CallStep, AppendCall, CheckpointCall, RollbackOuter, CallRaises,
            Disconnect, DeadlockDetected

\* Every committed checkpoint describes a prefix the table had, later ones never an
\* earlier prefix, although checkpoint reads hash and count in two statements.
THEOREM CheckpointsDescribePrefixesCorrect == Spec => []CheckpointsDescribePrefixes
<1>1. IInv /\ PrefixInv /\ [Next]_vars => (IInv /\ PrefixInv)'
  BY TypeStep, HoldStep, PkStep, LinkStep, PrefixStep DEF IInv
<1>2. PrefixInv => CheckpointsDescribePrefixes
  BY DEF PrefixInv, Described, UpTo, CheckpointsDescribePrefixes, Prefix
<1> QED BY <1>1, <1>2, InitIInv, InitPrefix, PTL DEF Spec

-----------------------------------------------------------------------------
(* Keys: until the second rotation every row is signed with a key the      *)
(* provider still has.                                                     *)

UsableKeys == IF rotations = 0 THEN {currentKey} ELSE {currentKey, previousKey}
SignedWith(k, body, r) ==
  /\ r.envelope = StandardEnvelope /\ r.body = ReadBack[body]
  /\ r.entry_hash = HmacSha256(k, ChecksumPayload(StandardEnvelope, r.previous_hash, body))
Signed(r) == \E k \in UsableKeys : \E body : SignedWith(k, body, r)

\* Committed and pending rows are, and a running call is about to sign with such a key.
SignInv ==
  rotations <= 1 =>
    /\ UsableKeys \subseteq Key
    /\ \A t \in Table : \A r \in rows[t] : Signed(r)
    /\ \A p \in Session, t \in Table : \A r \in newRows[p][t] : Signed(r)
    /\ \A p \in Session : pc[p] \notin {"idle", "commit"} => call[p].key \in UsableKeys

LEMMA InitSign == Init => SignInv
BY DEF Init, SignInv, UsableKeys

\* Steps that leave the keys alone and let no call go on with another key.
LEMMA SameKeysSign ==
  ASSUME SignInv, UNCHANGED keys,
         \A t \in Table : \A r \in rows'[t] :
           r \in rows[t] \/ \E q \in Session : r \in newRows[q][t],
         \A q \in Session, t \in Table : \A r \in newRows'[q][t] :
           r \in newRows[q][t] \/ (rotations <= 1 => Signed(r)),
         \A q \in Session : pc'[q] \notin {"idle", "commit"} =>
           \/ call'[q] = call[q] /\ pc[q] \notin {"idle", "commit"}
           \/ call'[q].key = currentKey
  PROVE  SignInv'
<1>1. UsableKeys' = UsableKeys /\ currentKey \in UsableKeys /\ rotations' = rotations
  BY DEF UsableKeys, keys
<1>2. \A r : Signed(r)' <=> Signed(r)
  BY <1>1 DEF Signed
<1> QED BY <1>1, <1>2 DEF SignInv

LEMMA SignStep == TypeOK /\ SignInv /\ [Next]_vars => SignInv'
<1> SUFFICES ASSUME TypeOK, SignInv, [Next]_vars PROVE SignInv'
  OBVIOUS
<1>1. ASSUME NEW p \in Session,
             \/ \E t \in Table, body \in Body : AppendCall(p, t, body)
             \/ \E t \in Table : CheckpointCall(p, t)
      PROVE  SignInv'
  BY <1>1, SameKeysSign DEF AppendCall, CheckpointCall, StartCall, committed, pending, TypeOK
<1>2. ASSUME NEW p \in Session, TableLock(p) PROVE SignInv'
  BY <1>2, SameKeysSign DEF TableLock, LockStep, committed, pending, TypeOK
<1>3. ASSUME NEW p \in Session, SelectLast(p) \/ CountRows(p) \/ SelectPrevCheckpoint(p)
      PROVE  SignInv'
  BY <1>3, SameKeysSign DEF SelectLast, CountRows, SelectPrevCheckpoint, committed, pending, TypeOK
<1>4. ASSUME NEW p \in Session, SaveRow(p) PROVE SignInv'
  <2> DEFINE t == call[p].table
             row == Entry(rowSeq[t] + 1, call[p].key, lastHash[p], call[p].body, ReadBack[call[p].body])
  <2>1. SignedWith(call[p].key, call[p].body, row)
    BY DEF Entry, SignedWith
  <2>2. rotations <= 1 => Signed(row)
    BY <1>4, <2>1 DEF SaveRow, SignInv, Signed
  <2>3. /\ newRows' = [newRows EXCEPT ![p][t] = @ \cup {row}]
        /\ rows' = rows /\ pc' = [pc EXCEPT ![p] = IF outer[p] THEN "idle" ELSE "commit"]
        /\ call' = [call EXCEPT ![p] = NoCall] /\ UNCHANGED keys
    BY <1>4 DEF SaveRow, AfterSave, committed
  <2> HIDE DEF row
  <2>4. \A q \in Session, u \in Table : \A r \in newRows'[q][u] : r \in newRows[q][u] \/ r = row
    BY <2>3 DEF TypeOK
  <2>5. \A q \in Session : pc'[q] \notin {"idle", "commit"} =>
          call'[q] = call[q] /\ pc[q] \notin {"idle", "commit"}
    BY <2>3 DEF TypeOK
  <2> QED BY <2>2, <2>3, <2>4, <2>5, SameKeysSign
<1>5. ASSUME NEW p \in Session, SaveCheckpoint(p) PROVE SignInv'
  BY <1>5, SameKeysSign DEF SaveCheckpoint, AfterSave, committed, TypeOK
<1>6. ASSUME NEW p \in Session, Commit(p) \/ Rollback(p) PROVE SignInv'
  BY <1>6, SameKeysSign DEF Commit, Rollback, EndTransaction, VisibleRows, committed, TypeOK
<1>7. ASSUME NEW p \in Session, AbortCall(p) PROVE SignInv'
  <2>1. CASE outer[p]
    BY <1>7, <2>1, SameKeysSign DEF AbortCall, committed, pending, TypeOK
  <2> QED BY <1>6, <1>7, <2>1 DEF AbortCall
<1>8. ASSUME NEW k \in Key, RotateKey(k) PROVE SignInv'
  <2> SUFFICES ASSUME rotations' <= 1 PROVE SignInv'
    BY DEF SignInv
  <2>1. rotations = 0 /\ rotations' = 1
    BY <1>8, BoundAssumption DEF RotateKey, TypeOK
  <2>2. UsableKeys = {currentKey} /\ UsableKeys' = {k, currentKey}
    BY <1>8, <2>1 DEF UsableKeys, RotateKey
  <2>3. UNCHANGED <<rows, newRows, pc, call>>
    BY <1>8 DEF RotateKey, committed, pending
  <2>4. \A r : Signed(r) => Signed(r)'
    BY <2>2 DEF Signed
  <2> QED BY <2>1, <2>2, <2>3, <2>4 DEF SignInv, TypeOK
<1>9. CASE (\E p \in Session : BeginOuter(p)) \/ UNCHANGED vars
  BY <1>9, SameKeysSign DEF BeginOuter, vars, committed, pending, keys
<1> QED BY <1>1, <1>2, <1>3, <1>4, <1>5, <1>6, <1>7, <1>8, <1>9
        DEF Next, CallStep, CommitCall, CommitOuter, RollbackOuter, CallRaises, Disconnect,
            DeadlockDetected

\* An entry whose values come back in the form that was signed verifies until the second
\* rotation, also if its call had read the key before the first one; any other never does.
THEOREM VerifiesAfterOneRotationCorrect == Spec => []VerifiesAfterOneRotation
<1>1. TypeOK /\ SignInv /\ [Next]_vars => (TypeOK /\ SignInv)'
  BY TypeStep, SignStep
<1>2. SignInv => VerifiesAfterOneRotation
  <2> SUFFICES ASSUME SignInv, rotations <= 1, NEW t \in Table, NEW r \in rows[t]
               PROVE  Verified(r, currentKey, previousKey) <=> ReadBack[SignedBody(r)] = SignedBody(r)
    BY DEF VerifiesAfterOneRotation
  <2>1. PICK k \in UsableKeys : \E body : SignedWith(k, body, r)
    BY DEF SignInv, Signed
  <2>2. PICK body : SignedWith(k, body, r)
    BY <2>1
  <2>3. UsableKeys \subseteq Key
    BY DEF SignInv
  <2>4. ValidateEnvelope(r.envelope) /\ currentKey # NoKey
    BY <2>2, <2>3, KeyAssumption DEF SignedWith, ValidateEnvelope, StandardEnvelope,
       ALLOWED_MAC_ALGORITHMS, FORMAT_VERSION, UsableKeys
  <2>5. SignedBody(r) = body /\ r.body = ReadBack[body]
    BY <2>2 DEF SignedWith, SignedBody, HmacSha256, ChecksumPayload
  <2>6. ASSUME ReadBack[body] = body PROVE Verified(r, currentKey, previousKey)
    <3>1. r.entry_hash = EntryMac(k, r)
      BY <2>2, <2>6 DEF SignedWith, EntryMac
    <3>2. \/ r.entry_hash = EntryMac(currentKey, r)
          \/ previousKey # NoKey /\ r.entry_hash = EntryMac(previousKey, r)
      BY <2>3, <3>1, KeyAssumption DEF UsableKeys
    <3>3. VerifyEntry(r, currentKey, previousKey) \in {"current", "previous"}
      BY <2>4, <3>2 DEF VerifyEntry
    <3> QED BY <3>3 DEF Verified
  <2>7. ASSUME ReadBack[body] # body PROVE ~Verified(r, currentKey, previousKey)
    <3>1. \A j : r.entry_hash # EntryMac(j, r)
      BY <2>2, <2>5, <2>7 DEF SignedWith, EntryMac, HmacSha256, ChecksumPayload
    <3>2. VerifyEntry(r, currentKey, previousKey) = "mismatch"
      BY <2>4, <3>1 DEF VerifyEntry
    <3> QED BY <3>2 DEF Verified
  <2> QED BY <2>5, <2>6, <2>7
<1>3. Init => TypeOK /\ SignInv
  BY InitIInv, InitSign DEF IInv
<1> QED BY <1>1, <1>2, <1>3, IInvCorrect, PTL DEF Spec

-----------------------------------------------------------------------------
(* What a transaction does to the ledger of a table.                       *)

LEMMA FunctionIsSequence ==
  ASSUME NEW n \in Nat, NEW X, NEW f \in [1..n -> X]
  PROVE  f \in Seq(X) /\ Len(f) = n
BY SeqDef

LEMMA SamePrefix ==
  ASSUME NEW X, NEW s \in Seq(X), NEW t \in Seq(X), Len(s) <= Len(t),
         \A i \in 1..Len(s) : t[i] = s[i]
  PROVE  Ledger!IsPrefix(s, t)
<1>1. Len(s) \in Nat /\ Len(t) \in Nat
  OBVIOUS
<1>2. SubSeq(s, 1, Len(s)) \in Seq(X) /\ SubSeq(t, 1, Len(s)) \in Seq(X)
  OBVIOUS
<1>3. /\ Len(SubSeq(s, 1, Len(s))) = Len(s) /\ Len(SubSeq(t, 1, Len(s))) = Len(s)
      /\ \A i \in 1..Len(s) : SubSeq(s, 1, Len(s))[i] = s[i] /\ SubSeq(t, 1, Len(s))[i] = t[i]
  BY <1>1
<1>4. SubSeq(s, 1, Len(s)) = SubSeq(t, 1, Len(s))
  BY <1>2, <1>3, SeqEqual
<1> QED BY <1>4 DEF Ledger!IsPrefix

\* The rows and checkpoints of a table, as one session or everybody sees them.
WellFormed(R, C) ==
  /\ Keyed(R) /\ Keyed(C)
  /\ \A r \in R : r.body \in Body /\ r.entry_hash[1] \in Key

Rec == [body : Body, key : Key]

LEMMA LedgerOfRows ==
  ASSUME NEW R, NEW C, WellFormed(R, C)
  PROVE  /\ LedgerOf(R) \in Seq(Rec) /\ Len(LedgerOf(R)) = Cardinality(R)
         /\ Cardinality(R) \in Nat
<1>1. Cardinality(R) \in Nat
  BY FS_CardinalityType DEF WellFormed, Keyed
<1>2. \A i \in 1..Cardinality(R) : InPkOrder(R)[i] \in R
  BY InPkOrderRank DEF WellFormed
<1>3. \A r \in R : RecordOf(r) \in Rec
  BY DEF WellFormed, RecordOf, Rec
<1>4. LedgerOf(R) \in [1..Cardinality(R) -> Rec]
  BY <1>2, <1>3 DEF LedgerOf
<1> QED BY <1>1, <1>4, FunctionIsSequence

LEMMA AnchorsOfCheckpoints ==
  ASSUME NEW R, NEW C, NEW m \in Nat, WellFormed(R, C), Described(R, C, m)
  PROVE  /\ AnchorsOf(C) \in Seq(Nat) /\ Len(AnchorsOf(C)) = Cardinality(C)
         /\ Cardinality(C) \in Nat
<1>1. Cardinality(C) \in Nat
  BY FS_CardinalityType DEF WellFormed, Keyed
<1>2. \A n \in 0..m : Cardinality(UpTo(R, n)) \in Nat
  BY FS_Subset, FS_CardinalityType DEF UpTo, WellFormed, Keyed
<1>3. \A c \in C : c.row_count \in Nat
  BY <1>2 DEF Described
<1>4. \A i \in 1..Cardinality(C) : InPkOrder(C)[i] \in C
  BY InPkOrderRank DEF WellFormed
<1>5. AnchorsOf(C) \in [1..Cardinality(C) -> Nat]
  BY <1>3, <1>4 DEF AnchorsOf
<1> QED BY <1>1, <1>5, FunctionIsSequence

\* Rows and checkpoints that come after those that were there extend both.
LEMMA LaterRowsExtend ==
  ASSUME NEW R, NEW R2, NEW C, NEW C2, NEW m \in Nat,
         WellFormed(R, C), Described(R, C, m), WellFormed(R2, C2), Described(R2, C2, m),
         R \subseteq R2, \A r \in R2 \ R : \A s \in R : s.pk < r.pk,
         C \subseteq C2, \A c \in C2 \ C : \A d \in C : d.pk < c.pk,
         \A c \in C2 \ C : Cardinality(R) <= c.row_count
  PROVE  /\ LedgerOf(R2) \in Seq(Rec)
         /\ Ledger!IsPrefix(LedgerOf(R), LedgerOf(R2))
         /\ Ledger!IsPrefix(AnchorsOf(C), AnchorsOf(C2))
         /\ \A i \in Len(AnchorsOf(C)) + 1 .. Len(AnchorsOf(C2)) :
              /\ AnchorsOf(C2)[i] \in Len(LedgerOf(R)) .. Len(LedgerOf(R2))
              /\ i > 1 => AnchorsOf(C2)[i - 1] <= AnchorsOf(C2)[i]
<1>1. /\ LedgerOf(R) \in Seq(Rec) /\ Len(LedgerOf(R)) = Cardinality(R) /\ Cardinality(R) \in Nat
      /\ LedgerOf(R2) \in Seq(Rec) /\ Len(LedgerOf(R2)) = Cardinality(R2)
      /\ Cardinality(R2) \in Nat
  BY LedgerOfRows
<1>2. /\ AnchorsOf(C) \in Seq(Nat) /\ Len(AnchorsOf(C)) = Cardinality(C) /\ Cardinality(C) \in Nat
      /\ AnchorsOf(C2) \in Seq(Nat) /\ Len(AnchorsOf(C2)) = Cardinality(C2)
      /\ Cardinality(C2) \in Nat
  BY AnchorsOfCheckpoints
<1>3. Ledger!IsPrefix(LedgerOf(R), LedgerOf(R2))
  <2>1. /\ Cardinality(R) <= Cardinality(R2)
        /\ \A i \in 1..Cardinality(R) : InPkOrder(R2)[i] = InPkOrder(R)[i]
    BY InPkOrderGrows DEF WellFormed
  <2>2. \A i \in 1..Cardinality(R) : LedgerOf(R2)[i] = LedgerOf(R)[i]
    BY <1>1, <2>1 DEF LedgerOf
  <2> QED BY <1>1, <2>1, <2>2, SamePrefix
<1>4. /\ Cardinality(C) <= Cardinality(C2)
      /\ \A i \in 1..Cardinality(C) : InPkOrder(C2)[i] = InPkOrder(C)[i]
      /\ \A i \in (Cardinality(C) + 1)..Cardinality(C2) : InPkOrder(C2)[i] \in C2 \ C
  BY InPkOrderGrows DEF WellFormed
<1>5. Ledger!IsPrefix(AnchorsOf(C), AnchorsOf(C2))
  <2>1. \A i \in 1..Cardinality(C) : AnchorsOf(C2)[i] = AnchorsOf(C)[i]
    BY <1>2, <1>4 DEF AnchorsOf
  <2> QED BY <1>2, <1>4, <2>1, SamePrefix
<1>6. \A i \in 1..Cardinality(C2) : AnchorsOf(C2)[i] = InPkOrder(C2)[i].row_count
                                   /\ AnchorsOf(C2)[i] \in Nat /\ InPkOrder(C2)[i] \in C2
  <2>1. \A i \in 1..Cardinality(C2) : AnchorsOf(C2)[i] = InPkOrder(C2)[i].row_count
    BY DEF AnchorsOf
  <2>2. \A i \in 1..Cardinality(C2) : InPkOrder(C2)[i] \in C2
    BY InPkOrderRank DEF WellFormed
  <2>3. \A i \in 1..Cardinality(C2) : AnchorsOf(C2)[i] \in Nat
    BY <1>2, ElementOfSeq
  <2> QED BY <2>1, <2>2, <2>3
<1>7. ASSUME NEW i \in Cardinality(C) + 1 .. Cardinality(C2)
      PROVE  /\ AnchorsOf(C2)[i] \in Cardinality(R) .. Cardinality(R2)
             /\ i > 1 => AnchorsOf(C2)[i - 1] <= AnchorsOf(C2)[i]
  <2>1. i \in 1..Cardinality(C2) /\ InPkOrder(C2)[i] \in C2 \ C
    BY <1>2, <1>4
  <2>2. AnchorsOf(C2)[i] \in Cardinality(R) .. Cardinality(R2)
    <3>1. InPkOrder(C2)[i].row_count <= Cardinality(R2)
      BY <2>1 DEF Described
    <3> QED BY <1>1, <1>6, <2>1, <3>1
  <2>3. ASSUME i > 1 PROVE AnchorsOf(C2)[i - 1] <= AnchorsOf(C2)[i]
    <3>1. i - 1 \in 1..Cardinality(C2) /\ i - 1 < i
      BY <1>2, <2>1, <2>3
    <3>2. InPkOrder(C2)[i - 1].pk < InPkOrder(C2)[i].pk
      BY <2>1, <3>1, InPkOrderIncreases DEF WellFormed
    <3>3. InPkOrder(C2)[i - 1] \in C2 /\ InPkOrder(C2)[i] \in C2
      BY <1>6, <2>1, <3>1
    <3>4. InPkOrder(C2)[i - 1].row_count <= InPkOrder(C2)[i].row_count
      BY <3>2, <3>3 DEF Described
    <3> QED BY <1>6, <2>1, <3>1, <3>4
  <2> QED BY <2>2, <2>3
<1> QED BY <1>1, <1>2, <1>3, <1>5, <1>7

-----------------------------------------------------------------------------
(* The invariant: what everybody sees of a table, and what a session would *)
(* commit, is well formed and comes late enough.                           *)

\* A running call has a key and, if it appends, a body.
CallInv(p) ==
  /\ pc[p] \notin {"idle", "commit"} => call[p].key \in Key /\ call[p].body \in Body \cup {NoBody}
  /\ pc[p] = "save" => call[p].body \in Body

SessionSealed(p, t) ==
  /\ WellFormed(VisibleRows(p, t), VisibleCps(p, t))
  /\ \A c \in newCps[p][t] : Cardinality(rows[t]) <= c.row_count

LedgerInv ==
  /\ \A t \in Table : /\ WellFormed(rows[t], checkpoints[t])
                      /\ \A p \in Session : SessionSealed(p, t)
  /\ \A p \in Session : CallInv(p)

LEMMA InitLedger == Init => LedgerInv
BY FS_EmptySet DEF Init, LedgerInv, SessionSealed, CallInv, WellFormed, Keyed, VisibleRows, VisibleCps

\* A transaction's end leaves no call.
LEMMA RollbackLedger ==
  ASSUME IInv, LedgerInv, NEW p \in Session, Rollback(p)
  PROVE  LedgerInv'
<1>1. /\ rows' = rows /\ checkpoints' = checkpoints /\ pc'[p] = "idle"
      /\ \A t \in Table : newRows'[p][t] = {} /\ newCps'[p][t] = {}
      /\ \A q \in Session \ {p} :
           /\ newRows'[q] = newRows[q] /\ newCps'[q] = newCps[q] /\ pc'[q] = pc[q]
           /\ call'[q] = call[q]
  BY DEF Rollback, EndTransaction, committed, IInv, TypeOK
<1>2. ASSUME NEW q \in Session, NEW t \in Table PROVE SessionSealed(q, t)'
  <2>1. CASE q = p
    BY <1>1, <2>1 DEF LedgerInv, SessionSealed, VisibleRows, VisibleCps
  <2>2. CASE q # p
    BY <1>1, <2>2 DEF LedgerInv, SessionSealed, VisibleRows, VisibleCps
  <2> QED BY <2>1, <2>2
<1>3. \A q \in Session : CallInv(q)'
  BY <1>1 DEF LedgerInv, CallInv
<1> QED BY <1>1, <1>2, <1>3 DEF LedgerInv

LEMMA CommitLedger ==
  ASSUME IInv, LedgerInv, NEW p \in Session, Commit(p)
  PROVE  LedgerInv'
<1>1. /\ \A t \in Table : rows'[t] = VisibleRows(p, t) /\ checkpoints'[t] = VisibleCps(p, t)
      /\ \A t \in Table : newRows'[p][t] = {} /\ newCps'[p][t] = {}
      /\ pc'[p] = "idle"
      /\ \A q \in Session \ {p} :
           /\ newRows'[q] = newRows[q] /\ newCps'[q] = newCps[q] /\ pc'[q] = pc[q]
           /\ call'[q] = call[q]
  BY DEF Commit, EndTransaction, IInv, TypeOK
<1>2. ASSUME NEW t \in Table PROVE WellFormed(rows'[t], checkpoints'[t])
  BY <1>1 DEF LedgerInv, SessionSealed
<1>3. ASSUME NEW q \in Session, NEW t \in Table PROVE SessionSealed(q, t)'
  <2>1. CASE q = p
    BY <1>1, <1>2, <2>1 DEF SessionSealed, VisibleRows, VisibleCps
  <2>2. CASE q # p /\ newRows[p][t] = {} /\ newCps[p][t] = {}
    <3>1. /\ VisibleRows(q, t)' = VisibleRows(q, t) /\ VisibleCps(q, t)' = VisibleCps(q, t)
          /\ rows'[t] = rows[t]
      BY <1>1, <2>2 DEF VisibleRows, VisibleCps
    <3> QED BY <1>1, <2>2, <3>1 DEF LedgerInv, SessionSealed
  <2>3. CASE q # p /\ (newRows[p][t] # {} \/ newCps[p][t] # {})
    <3>1. newRows[q][t] = {} /\ newCps[q][t] = {}
      BY <2>3, SoleWriter DEF IInv
    <3>2. VisibleRows(q, t)' = rows'[t] /\ VisibleCps(q, t)' = checkpoints'[t] /\ newCps'[q][t] = {}
      BY <1>1, <2>3, <3>1 DEF VisibleRows, VisibleCps
    <3> QED BY <1>2, <3>2 DEF SessionSealed
  <2> QED BY <2>1, <2>2, <2>3
<1>4. \A q \in Session : CallInv(q)'
  BY <1>1 DEF LedgerInv, CallInv
<1> QED BY <1>2, <1>3, <1>4 DEF LedgerInv

LEMMA SaveRowLedger ==
  ASSUME IInv, LedgerInv, NEW p \in Session, SaveRow(p)
  PROVE  LedgerInv'
<1> DEFINE t == call[p].table
           row == Entry(rowSeq[t] + 1, call[p].key, lastHash[p], call[p].body, ReadBack[call[p].body])
<1>1. /\ t \in Table /\ row.pk = rowSeq[t] + 1 /\ rowSeq[t] \in Nat
      /\ row.body = ReadBack[call[p].body] /\ row.entry_hash[1] = call[p].key
      /\ rows' = rows /\ checkpoints' = checkpoints /\ newCps' = newCps
      /\ newRows' = [newRows EXCEPT ![p][t] = @ \cup {row}]
      /\ pc[p] = "save" /\ pc'[p] \in {"idle", "commit"}
      /\ \A q \in Session \ {p} : pc'[q] = pc[q] /\ call'[q] = call[q]
  BY DEF SaveRow, AfterSave, committed, IInv, TypeOK, Entry, HmacSha256
<1> HIDE DEF row
<1>2. row.body \in Body /\ row.entry_hash[1] \in Key
  BY <1>1, ReadBackAssumption DEF LedgerInv, CallInv
<1>3. WellFormed(VisibleRows(p, t) \cup {row}, VisibleCps(p, t))
  <2>1. WellFormed(VisibleRows(p, t), VisibleCps(p, t))
    BY <1>1 DEF LedgerInv, SessionSealed
  <2>2. row.pk \in Int /\ \A r \in VisibleRows(p, t) : r.pk < row.pk
    BY <1>1, ViewBounds
  <2> QED BY <1>2, <2>1, <2>2, NewestKeyed DEF WellFormed
<1>4. ASSUME NEW q \in Session, NEW u \in Table PROVE SessionSealed(q, u)'
  <2>1. CASE q = p /\ u = t
    <3>1. VisibleRows(q, u)' = VisibleRows(p, t) \cup {row} /\ VisibleCps(q, u)' = VisibleCps(p, t)
      BY <1>1, <2>1 DEF VisibleRows, VisibleCps, IInv, TypeOK
    <3> QED BY <1>1, <1>3, <2>1, <3>1 DEF SessionSealed, LedgerInv
  <2>2. CASE ~(q = p /\ u = t)
    <3>1. newRows'[q][u] = newRows[q][u]
      BY <1>1, <2>2 DEF IInv, TypeOK
    <3> QED BY <1>1, <3>1 DEF LedgerInv, SessionSealed, VisibleRows, VisibleCps
  <2> QED BY <2>1, <2>2
<1>5. \A q \in Session : CallInv(q)'
  BY <1>1 DEF LedgerInv, CallInv
<1> QED BY <1>1, <1>4, <1>5 DEF LedgerInv

LEMMA SaveCheckpointLedger ==
  ASSUME IInv, PrefixInv, LedgerInv, NEW p \in Session, SaveCheckpoint(p)
  PROVE  LedgerInv'
<1> DEFINE t == call[p].table
           cp == Checkpoint(cpSeq + 1, call[p].key, lastHash[p], prevCpHash[p], rowCount[p], t)
<1>1. /\ t \in Table /\ cp.pk = cpSeq + 1 /\ cpSeq \in Nat /\ cp.row_count = rowCount[p]
      /\ rows' = rows /\ checkpoints' = checkpoints /\ newRows' = newRows
      /\ newCps' = [newCps EXCEPT ![p][t] = @ \cup {cp}]
      /\ pc[p] = "save_cp" /\ pc'[p] \in {"idle", "commit"}
      /\ \A q \in Session \ {p} : pc'[q] = pc[q] /\ call'[q] = call[q]
  BY DEF SaveCheckpoint, AfterSave, committed, IInv, TypeOK, Checkpoint
<1> HIDE DEF cp
<1>2. WellFormed(VisibleRows(p, t), VisibleCps(p, t) \cup {cp})
  <2>1. WellFormed(VisibleRows(p, t), VisibleCps(p, t))
    BY <1>1 DEF LedgerInv, SessionSealed
  <2>2. cp.pk \in Int /\ \A c \in VisibleCps(p, t) : c.pk < cp.pk
    BY <1>1 DEF IInv, PkInv, VisibleCps
  <2> QED BY <2>1, <2>2, NewestKeyed DEF WellFormed
<1>3. Cardinality(rows[t]) <= cp.row_count
  <2>1. rowCount[p] = Cardinality(VisibleRows(p, t))
    BY <1>1 DEF PrefixInv, SessionDescribed, ReadsCurrent
  <2>2. IsFiniteSet(VisibleRows(p, t)) /\ rows[t] \in SUBSET VisibleRows(p, t)
    BY <1>1, ViewBounds DEF VisibleRows
  <2> QED BY <1>1, <2>1, <2>2, FS_Subset
<1>4. ASSUME NEW q \in Session, NEW u \in Table PROVE SessionSealed(q, u)'
  <2>1. CASE q = p /\ u = t
    <3>1. /\ VisibleCps(q, u)' = VisibleCps(p, t) \cup {cp} /\ VisibleRows(q, u)' = VisibleRows(p, t)
          /\ newCps'[q][u] = newCps[p][t] \cup {cp}
      BY <1>1, <2>1 DEF VisibleRows, VisibleCps, IInv, TypeOK
    <3>2. \A c \in newCps[p][t] : Cardinality(rows[t]) <= c.row_count
      BY <1>1 DEF LedgerInv, SessionSealed
    <3> QED BY <1>1, <1>2, <1>3, <2>1, <3>1, <3>2 DEF SessionSealed
  <2>2. CASE ~(q = p /\ u = t)
    <3>1. newCps'[q][u] = newCps[q][u]
      BY <1>1, <2>2 DEF IInv, TypeOK
    <3> QED BY <1>1, <3>1 DEF LedgerInv, SessionSealed, VisibleRows, VisibleCps
  <2> QED BY <2>1, <2>2
<1>5. \A q \in Session : CallInv(q)'
  BY <1>1 DEF LedgerInv, CallInv
<1> QED BY <1>1, <1>4, <1>5 DEF LedgerInv

\* A step that changes no row or checkpoint.
LEMMA QueryLedger ==
  ASSUME LedgerInv, UNCHANGED <<rows, checkpoints, newRows, newCps>>,
         NEW p \in Session, CallInv(p)',
         \A q \in Session \ {p} : pc'[q] = pc[q] /\ call'[q] = call[q]
  PROVE  LedgerInv'
<1>1. \A q \in Session, t \in Table : SessionSealed(q, t)'
  BY DEF LedgerInv, SessionSealed, VisibleRows, VisibleCps
<1>2. \A q \in Session : CallInv(q)'
  BY DEF LedgerInv, CallInv
<1> QED BY <1>1, <1>2 DEF LedgerInv

LEMMA LedgerStep == IInv /\ PrefixInv /\ LedgerInv /\ [Next]_vars => LedgerInv'
<1> SUFFICES ASSUME IInv, PrefixInv, LedgerInv, [Next]_vars PROVE LedgerInv'
  OBVIOUS
<1> USE DEF CallInv, committed, pending, IInv, TypeOK
<1>1. ASSUME NEW p \in Session,
             \/ \E t \in Table, body \in Body : AppendCall(p, t, body)
             \/ \E t \in Table : CheckpointCall(p, t)
      PROVE  LedgerInv'
  BY <1>1, QueryLedger DEF AppendCall, CheckpointCall, StartCall
<1>2. ASSUME NEW p \in Session, TableLock(p) PROVE LedgerInv'
  BY <1>2, QueryLedger DEF TableLock, LockStep, LedgerInv
<1>3. ASSUME NEW p \in Session, SelectLast(p) PROVE LedgerInv'
  BY <1>3, QueryLedger DEF SelectLast, LedgerInv
<1>4. ASSUME NEW p \in Session, CountRows(p) PROVE LedgerInv'
  BY <1>4, QueryLedger DEF CountRows, LedgerInv
<1>5. ASSUME NEW p \in Session, SelectPrevCheckpoint(p) PROVE LedgerInv'
  BY <1>5, QueryLedger DEF SelectPrevCheckpoint, LedgerInv
<1>6. ASSUME NEW p \in Session, CommitCall(p) \/ CommitOuter(p) PROVE LedgerInv'
  BY <1>6, CommitLedger DEF CommitCall, CommitOuter
<1>7. ASSUME NEW p \in Session, AbortCall(p) \/ Rollback(p) PROVE LedgerInv'
  <2>1. CASE Rollback(p)
    BY <2>1, RollbackLedger
  <2>2. CASE outer[p] /\ AbortCall(p)
    BY <2>2, QueryLedger DEF AbortCall
  <2> QED BY <1>7, <2>1, <2>2 DEF AbortCall
<1>8. CASE \/ \E p \in Session : BeginOuter(p)
           \/ \E k \in Key : RotateKey(k)
           \/ UNCHANGED vars
  <2>1. UNCHANGED <<rows, checkpoints, newRows, newCps, pc, call>>
    BY <1>8 DEF BeginOuter, RotateKey, vars
  <2> QED BY <2>1 DEF LedgerInv, SessionSealed, VisibleRows, VisibleCps
<1> QED BY <1>1, <1>2, <1>3, <1>4, <1>5, <1>6, <1>7, <1>8, SaveRowLedger, SaveCheckpointLedger
        DEF Next, CallStep, RollbackOuter, CallRaises, Disconnect, DeadlockDetected

-----------------------------------------------------------------------------
(* The refinement.                                                         *)

Ledgers == [t \in Table |-> LedgerOf(rows[t])]
Anchors == [t \in Table |-> AnchorsOf(checkpoints[t])]

LEMMA InitImplements == Init => Ledger!Init
<1> SUFFICES ASSUME Init PROVE Ledger!Init
  OBVIOUS
<1>1. Cardinality({}) = 0
  BY FS_EmptySet
<1>2. LedgerOf({}) = <<>> /\ AnchorsOf({}) = <<>>
  BY <1>1 DEF LedgerOf, AnchorsOf
<1>3. \A t \in Table : rows[t] = {} /\ checkpoints[t] = {}
  BY DEF Init
<1> QED BY <1>2, <1>3 DEF Ledger!Init

LEMMA CommitImplements ==
  ASSUME IInv, PrefixInv, LedgerInv, NEW p \in Session, Commit(p)
  PROVE  Ledger!Transaction
<1> SUFFICES ASSUME NEW t \in Table
             PROVE  Ledger!Extends(t, LedgerOf(rows'[t]), AnchorsOf(checkpoints'[t]))
  BY DEF Ledger!Transaction
<1>1. rows'[t] = VisibleRows(p, t) /\ checkpoints'[t] = VisibleCps(p, t)
  BY DEF Commit
<1>2. /\ WellFormed(rows[t], checkpoints[t]) /\ WellFormed(rows'[t], checkpoints'[t])
      /\ \A c \in newCps[p][t] : Cardinality(rows[t]) <= c.row_count
  BY <1>1 DEF LedgerInv, SessionSealed
<1>3. /\ Described(rows[t], checkpoints[t], rowSeq[t]) /\ rowSeq[t] \in Nat
      /\ Described(rows'[t], checkpoints'[t], rowSeq[t])
  BY <1>1 DEF PrefixInv, SessionDescribed, IInv, TypeOK
<1>4. /\ rows[t] \subseteq rows'[t] /\ rows'[t] \ rows[t] \subseteq newRows[p][t]
      /\ checkpoints[t] \subseteq checkpoints'[t]
      /\ checkpoints'[t] \ checkpoints[t] \subseteq newCps[p][t]
  BY <1>1 DEF VisibleRows, VisibleCps
<1>5. /\ \A r \in newRows[p][t] : \A s \in rows[t] : s.pk < r.pk
      /\ \A c \in newCps[p][t] : \A d \in checkpoints[t] : d.pk < c.pk
  BY DEF IInv, PkInv
<1>6. /\ LedgerOf(rows'[t]) \in Seq(Rec)
      /\ Ledger!IsPrefix(LedgerOf(rows[t]), LedgerOf(rows'[t]))
      /\ Ledger!IsPrefix(AnchorsOf(checkpoints[t]), AnchorsOf(checkpoints'[t]))
      /\ \A i \in Len(AnchorsOf(checkpoints[t])) + 1 .. Len(AnchorsOf(checkpoints'[t])) :
           /\ AnchorsOf(checkpoints'[t])[i] \in Len(LedgerOf(rows[t])) .. Len(LedgerOf(rows'[t]))
           /\ i > 1 => AnchorsOf(checkpoints'[t])[i - 1] <= AnchorsOf(checkpoints'[t])[i]
  BY <1>2, <1>3, <1>4, <1>5, LaterRowsExtend
<1> QED BY <1>6 DEF Ledger!Extends, Rec

LEMMA StepImplements ==
  IInv /\ PrefixInv /\ LedgerInv /\ [Next]_vars => [Ledger!Transaction]_<<Ledgers, Anchors>>
<1> SUFFICES ASSUME IInv, PrefixInv, LedgerInv, [Next]_vars,
                    ~UNCHANGED <<rows, checkpoints>>
             PROVE  Ledger!Transaction
  BY DEF Ledgers, Anchors
<1>1. PICK p \in Session : Commit(p)
  BY DEF Next, CallStep, AppendCall, CheckpointCall, StartCall, TableLock, LockStep,
         SelectLast, CountRows, SelectPrevCheckpoint, SaveRow, SaveCheckpoint, AfterSave,
         CommitCall, CommitOuter, RollbackOuter, CallRaises, Disconnect, DeadlockDetected,
         BeginOuter, RotateKey, AbortCall, Rollback, committed, vars
<1> QED BY <1>1, CommitImplements

\* Every table is a ledger that only grows at its end, a transaction at a time, and its
\* checkpoints anchor lengths it had while their transactions ran: the statements of
\* append and checkpoint, failures included, implement the abstract ledger.
THEOREM ImplementsLedgerCorrect == Spec => ImplementsLedger
<1>1. IInv /\ PrefixInv /\ LedgerInv /\ [Next]_vars => (IInv /\ PrefixInv /\ LedgerInv)'
  BY TypeStep, HoldStep, PkStep, LinkStep, PrefixStep, LedgerStep DEF IInv
<1>2. Init => IInv /\ PrefixInv /\ LedgerInv /\ Ledger!Init
  BY InitIInv, InitPrefix, InitLedger, InitImplements
<1>3. IInv /\ PrefixInv /\ LedgerInv /\ [Next]_vars
        => [Ledger!Transaction]_<<Ledgers, Anchors>>
  BY StepImplements
<1> QED BY <1>1, <1>2, <1>3, PTL DEF Spec, ImplementsLedger, Ledger!Spec, Ledgers, Anchors
=============================================================================
