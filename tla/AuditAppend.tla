----------------------------- MODULE AuditAppend -----------------------------
(***************************************************************************)
(* append and checkpoint of osivault.audit as concurrent database sessions *)
(* run them on PostgreSQL (READ COMMITTED): the key is read before the     *)
(* transaction, the advisory lock of the audit table is taken in it, each  *)
(* query is a statement of its own, pks come from a sequence that no       *)
(* rollback rewinds, and the lock lasts until the OUTERMOST transaction    *)
(* ends.  A call runs either alone (its atomic() block is the transaction) *)
(* or inside an atomic() block of the application, where its own block is  *)
(* only a savepoint and its row stays invisible until the outer commit.    *)
(***************************************************************************)
EXTENDS AuditRecords

CONSTANTS
  Session,    \* database connections, one per thread or process
  NoSession,
  Table,      \* concrete subclasses of OSIVaultAuditLog
  LockId,     \* values of zlib.crc32
  LockOf,     \* LockOf[t]: the advisory lock of table t; two tables may collide
  NoBody,     \* marks a checkpoint call
  ReadBack,   \* ReadBack[b]: the body of the values the JSON columns return for those of b
  Nested,     \* may the application wrap calls in a transaction of its own?
  MaxPk,      \* bound: no append starts once table t has used MaxPk[t] pks
  MaxCpPk,    \* bound: no checkpoint starts once this many checkpoint pks are used
  MaxRotations  \* bound on rotate_key

ASSUME SessionAssumption == NoSession \notin Session
ASSUME LockAssumption == LockOf \in [Table -> LockId]
ASSUME NoBodyAssumption == NoBody \notin Body
ASSUME ReadBackAssumption == ReadBack \in [Body -> Body]
ASSUME BoundAssumption ==
  MaxPk \in [Table -> Nat] /\ MaxCpPk \in Nat /\ MaxRotations \in Nat /\ Nested \in BOOLEAN

VARIABLES
  rows,         \* rows[t]: committed rows of audit table t
  checkpoints,  \* checkpoints[t]: committed checkpoints whose table_name is t
  rowSeq,       \* rowSeq[t]: last pk the sequence of t handed out
  cpSeq,        \* last pk the sequence of the checkpoint table handed out
  holder,       \* holder[k]: the session that holds advisory lock k
  currentKey,   \* the key provider's two keys
  previousKey,
  rotations,    \* how often rotate_key has run
  pc,           \* pc[p]: what the running call of session p does next
  call,         \* call[p]: its arguments and the key it read
  lastHash,     \* lastHash[p], rowCount[p], prevCpHash[p]: what it has read
  rowCount,
  prevCpHash,
  fresh,        \* fresh[p]: the lock was acquired in this call's own savepoint
  outer,        \* outer[p]: the application has a transaction open
  newRows,      \* newRows[p][t], newCps[p][t]: rows inserted, not yet committed
  newCps

committed == <<rows, checkpoints>>
sequences == <<rowSeq, cpSeq>>
keys == <<currentKey, previousKey, rotations>>
reads == <<lastHash, rowCount, prevCpHash>>
pending == <<newRows, newCps>>
vars == <<committed, sequences, keys, holder, pc, call, reads, fresh, outer, pending>>

NoCall == [table |-> "none"]

\* What a statement of session p sees of table t: everything committed, and its own.
VisibleRows(p, t) == rows[t] \cup newRows[p][t]
VisibleCps(p, t) == checkpoints[t] \cup newCps[p][t]

Init ==
  /\ rows = [t \in Table |-> {}] /\ checkpoints = [t \in Table |-> {}]
  /\ rowSeq = [t \in Table |-> 0] /\ cpSeq = 0
  /\ holder = [k \in LockId |-> NoSession]
  /\ currentKey \in Key /\ previousKey = NoKey /\ rotations = 0
  /\ pc = [p \in Session |-> "idle"]
  /\ call = [p \in Session |-> NoCall]
  /\ lastHash = [p \in Session |-> Genesis]
  /\ rowCount = [p \in Session |-> 0]
  /\ prevCpHash = [p \in Session |-> Genesis]
  /\ fresh = [p \in Session |-> FALSE]
  /\ outer = [p \in Session |-> FALSE]
  /\ newRows = [p \in Session |-> [t \in Table |-> {}]]
  /\ newCps = [p \in Session |-> [t \in Table |-> {}]]

-----------------------------------------------------------------------------
(* Starting a call: the key is read here, before the lock.                 *)

StartCall(p, c) ==
  /\ pc[p] = "idle"
  /\ pc' = [pc EXCEPT ![p] = "lock"]
  /\ call' = [call EXCEPT ![p] = c]
  /\ UNCHANGED <<committed, sequences, keys, holder, reads, fresh, outer, pending>>

AppendCall(p, t, body) ==
  /\ rowSeq[t] < MaxPk[t]
  /\ StartCall(p, [table |-> t, body |-> body, key |-> currentKey])

CheckpointCall(p, t) ==
  /\ cpSeq < MaxCpPk
  /\ StartCall(p, [table |-> t, body |-> NoBody, key |-> currentKey])

-----------------------------------------------------------------------------
(* _table_lock: blocks while another session holds the lock, succeeds at   *)
(* once when this session already does.                                    *)

LockStep(p, takes) ==
  LET k == LockOf[call[p].table] IN
  /\ pc[p] = "lock"
  /\ takes => holder[k] \in {NoSession, p}
  /\ holder' = IF takes THEN [holder EXCEPT ![k] = p] ELSE holder
  /\ fresh' = [fresh EXCEPT ![p] = takes /\ holder[k] = NoSession]
  /\ pc' = [pc EXCEPT ![p] = "last"]
  /\ UNCHANGED <<committed, sequences, keys, call, reads, outer, pending>>

\* Mutants: the first append of a table, or a checkpoint, goes without the lock.
TableLockUnlessEmpty(p) == LockStep(p, VisibleRows(p, call[p].table) # {})
TableLockAppendOnly(p) == LockStep(p, call[p].body # NoBody)

\* Mutant: a session that holds the lock waits for itself.
TableLockNotReentrant(p) ==
  /\ pc[p] = "lock" /\ holder[LockOf[call[p].table]] # p
  /\ LockStep(p, TRUE)

TableLock(p) == LockStep(p, TRUE)

\* select_for_update().order_by("-pk").first() of append, the same query of checkpoint.
SelectLast(p) ==
  /\ pc[p] = "last"
  /\ lastHash' = [lastHash EXCEPT ![p] = LastEntryHash(VisibleRows(p, call[p].table))]
  /\ pc' = [pc EXCEPT ![p] = IF call[p].body = NoBody THEN "count" ELSE "save"]
  /\ UNCHANGED <<committed, sequences, keys, holder, call, rowCount, prevCpHash,
                 fresh, outer, pending>>

CountRows(p) ==
  /\ pc[p] = "count"
  /\ rowCount' = [rowCount EXCEPT ![p] = Cardinality(VisibleRows(p, call[p].table))]
  /\ pc' = [pc EXCEPT ![p] = "prev_cp"]
  /\ UNCHANGED <<committed, sequences, keys, holder, call, lastHash, prevCpHash,
                 fresh, outer, pending>>

\* Mutant: the previous checkpoint of any table, not of this one.
SelectPrevCheckpointOfAny(p) ==
  /\ pc[p] = "prev_cp"
  /\ prevCpHash' =
       [prevCpHash EXCEPT ![p] = LastCheckpointHash(UNION {VisibleCps(p, t) : t \in Table})]
  /\ pc' = [pc EXCEPT ![p] = "save_cp"]
  /\ UNCHANGED <<committed, sequences, keys, holder, call, lastHash, rowCount,
                 fresh, outer, pending>>

SelectPrevCheckpoint(p) ==
  /\ pc[p] = "prev_cp"
  /\ prevCpHash' =
       [prevCpHash EXCEPT ![p] = LastCheckpointHash(VisibleCps(p, call[p].table))]
  /\ pc' = [pc EXCEPT ![p] = "save_cp"]
  /\ UNCHANGED <<committed, sequences, keys, holder, call, lastHash, rowCount,
                 fresh, outer, pending>>

-----------------------------------------------------------------------------
(* save(force_insert=True): nextval, then the row.  Inside the             *)
(* application's transaction the call is over; alone it goes on to COMMIT. *)

\* Mutant: the lock is given back before COMMIT.
AfterSaveUnlocks(p) ==
  /\ pc' = [pc EXCEPT ![p] = IF outer[p] THEN "idle" ELSE "commit"]
  /\ holder' = [holder EXCEPT ![LockOf[call[p].table]] = NoSession]
  /\ call' = [call EXCEPT ![p] = NoCall]
  /\ lastHash' = [lastHash EXCEPT ![p] = Genesis]
  /\ rowCount' = [rowCount EXCEPT ![p] = 0]
  /\ prevCpHash' = [prevCpHash EXCEPT ![p] = Genesis]
  /\ fresh' = [fresh EXCEPT ![p] = FALSE]
  /\ UNCHANGED <<committed, keys, outer>>

AfterSave(p) ==
  /\ pc' = [pc EXCEPT ![p] = IF outer[p] THEN "idle" ELSE "commit"]
  /\ call' = [call EXCEPT ![p] = NoCall]
  /\ lastHash' = [lastHash EXCEPT ![p] = Genesis]
  /\ rowCount' = [rowCount EXCEPT ![p] = 0]
  /\ prevCpHash' = [prevCpHash EXCEPT ![p] = Genesis]
  /\ fresh' = [fresh EXCEPT ![p] = FALSE]
  /\ UNCHANGED <<committed, keys, holder, outer>>

SaveRow(p) ==
  LET t == call[p].table
      body == call[p].body
      row == Entry(rowSeq[t] + 1, call[p].key, lastHash[p], body, ReadBack[body]) IN
  /\ pc[p] = "save"
  /\ rowSeq' = [rowSeq EXCEPT ![t] = @ + 1]
  /\ newRows' = [newRows EXCEPT ![p][t] = @ \cup {row}]
  /\ AfterSave(p)
  /\ UNCHANGED <<cpSeq, newCps>>

SaveCheckpoint(p) ==
  LET t == call[p].table
      cp == Checkpoint(cpSeq + 1, call[p].key, lastHash[p], prevCpHash[p], rowCount[p], t) IN
  /\ pc[p] = "save_cp"
  /\ cpSeq' = cpSeq + 1
  /\ newCps' = [newCps EXCEPT ![p][t] = @ \cup {cp}]
  /\ AfterSave(p)
  /\ UNCHANGED <<rowSeq, newRows>>

-----------------------------------------------------------------------------
(* Ends of transactions.  Every one of them releases all advisory locks of *)
(* the session and forgets its pending rows; COMMIT publishes them first.  *)

EndTransaction(p) ==
  /\ holder' = [k \in LockId |-> IF holder[k] = p THEN NoSession ELSE holder[k]]
  /\ newRows' = [newRows EXCEPT ![p] = [t \in Table |-> {}]]
  /\ newCps' = [newCps EXCEPT ![p] = [t \in Table |-> {}]]
  /\ outer' = [outer EXCEPT ![p] = FALSE]
  /\ pc' = [pc EXCEPT ![p] = "idle"]
  /\ call' = [call EXCEPT ![p] = NoCall]
  /\ lastHash' = [lastHash EXCEPT ![p] = Genesis]
  /\ rowCount' = [rowCount EXCEPT ![p] = 0]
  /\ prevCpHash' = [prevCpHash EXCEPT ![p] = Genesis]
  /\ fresh' = [fresh EXCEPT ![p] = FALSE]
  /\ UNCHANGED <<sequences, keys>>

Commit(p) ==
  /\ rows' = [t \in Table |-> VisibleRows(p, t)]
  /\ checkpoints' = [t \in Table |-> VisibleCps(p, t)]
  /\ EndTransaction(p)

Rollback(p) == EndTransaction(p) /\ UNCHANGED committed

\* The atomic() block of a call that ran alone commits.
CommitCall(p) == pc[p] = "commit" /\ Commit(p)

BeginOuter(p) ==
  /\ Nested /\ pc[p] = "idle" /\ ~outer[p]
  /\ outer' = [outer EXCEPT ![p] = TRUE]
  /\ UNCHANGED <<committed, sequences, keys, holder, pc, call, reads, fresh, pending>>

CommitOuter(p) == pc[p] = "idle" /\ outer[p] /\ Commit(p)
RollbackOuter(p) == pc[p] = "idle" /\ outer[p] /\ Rollback(p)

-----------------------------------------------------------------------------
(* Failures.  An exception in the atomic() block of a call undoes that     *)
(* block: the whole transaction when it ran alone, else the savepoint,     *)
(* which gives back the lock only if the lock was acquired inside it.  The *)
(* application may catch it and go on with its transaction.                *)

\* Mutant: the savepoint is undone but the call runs on.
AbortCallRunsOn(p) ==
  IF outer[p]
  THEN /\ call' = [call EXCEPT ![p] = NoCall]
       /\ lastHash' = [lastHash EXCEPT ![p] = Genesis]
       /\ rowCount' = [rowCount EXCEPT ![p] = 0]
       /\ prevCpHash' = [prevCpHash EXCEPT ![p] = Genesis]
       /\ fresh' = [fresh EXCEPT ![p] = FALSE]
       /\ UNCHANGED <<pc, holder, committed, sequences, keys, outer, pending>>
  ELSE Rollback(p)

AbortCall(p) ==
  IF outer[p]
  THEN /\ holder' = [k \in LockId |->
                       IF fresh[p] /\ k = LockOf[call[p].table] THEN NoSession ELSE holder[k]]
       /\ pc' = [pc EXCEPT ![p] = "idle"]
       /\ call' = [call EXCEPT ![p] = NoCall]
       /\ lastHash' = [lastHash EXCEPT ![p] = Genesis]
       /\ rowCount' = [rowCount EXCEPT ![p] = 0]
       /\ prevCpHash' = [prevCpHash EXCEPT ![p] = Genesis]
       /\ fresh' = [fresh EXCEPT ![p] = FALSE]
       /\ UNCHANGED <<committed, sequences, keys, outer, pending>>
  ELSE Rollback(p)

\* Any statement of a call may raise: a timeout, a full disk, a lost constraint.
CallRaises(p) == pc[p] # "idle" /\ AbortCall(p)

\* The connection is lost: the server rolls the session's transaction back.
Disconnect(p) == (pc[p] # "idle" \/ outer[p]) /\ Rollback(p)

Waiting(p) == pc[p] = "lock" /\ holder[LockOf[call[p].table]] \notin {NoSession, p}
Blocker(p) == holder[LockOf[call[p].table]]

\* p is on a cycle of sessions that wait for each other.
OnWaitCycle(p) ==
  \E S \in SUBSET Session :
    /\ p \in S /\ \A q \in S : Waiting(q)
    /\ {Blocker(q) : q \in S} = S

\* PostgreSQL breaks a cycle by raising "deadlock detected" in one of its sessions.
DeadlockDetected(p) == pc[p] = "lock" /\ OnWaitCycle(p) /\ AbortCall(p)

-----------------------------------------------------------------------------
(* rotate_key: may happen while a call waits for the lock.                 *)

\* Mutant: the outgoing key is not kept.
RotateKeyDropsOld(k) ==
  /\ rotations < MaxRotations /\ rotations' = rotations + 1
  /\ currentKey' = k
  /\ UNCHANGED <<previousKey, committed, sequences, holder, pc, call, reads, fresh, outer,
                 pending>>

RotateKey(k) ==
  /\ rotations < MaxRotations /\ rotations' = rotations + 1
  /\ currentKey' = k
  /\ previousKey' = currentKey
  /\ UNCHANGED <<committed, sequences, holder, pc, call, reads, fresh, outer, pending>>

-----------------------------------------------------------------------------
CallStep(p) ==
  \/ TableLock(p) \/ SelectLast(p) \/ CountRows(p) \/ SelectPrevCheckpoint(p)
  \/ SaveRow(p) \/ SaveCheckpoint(p) \/ CommitCall(p)

Next ==
  \/ \E p \in Session :
       \/ \E t \in Table, body \in Body : AppendCall(p, t, body)
       \/ \E t \in Table : CheckpointCall(p, t)
       \/ CallStep(p)
       \/ BeginOuter(p) \/ CommitOuter(p) \/ RollbackOuter(p)
       \/ CallRaises(p) \/ Disconnect(p) \/ DeadlockDetected(p)
  \/ \E k \in Key : RotateKey(k)

Spec == Init /\ [][Next]_vars

\* Fairness.  The server runs every statement it is sent (WF), grants a contended
\* lock in queue order (SF on TableLock), breaks deadlocks (WF), and the application
\* ends each transaction it has opened (SF: it may go on calling append in between).
\* Nothing is assumed of new calls, failures or rotations.
FairSpec ==
  /\ Spec
  /\ \A p \in Session :
       /\ WF_vars(SelectLast(p) \/ CountRows(p) \/ SelectPrevCheckpoint(p)
                  \/ SaveRow(p) \/ SaveCheckpoint(p) \/ CommitCall(p))
       /\ SF_vars(TableLock(p))
       /\ WF_vars(DeadlockDetected(p))
       /\ SF_vars(CommitOuter(p) \/ RollbackOuter(p))

-----------------------------------------------------------------------------
(* Properties.                                                             *)

PcValue == {"idle", "lock", "last", "count", "prev_cp", "save", "save_cp", "commit"}

\* Hashes are nested values without a finite type: the functions that hold them are
\* typed by their domains, the others by their ranges too.
TypeOK ==
  /\ DOMAIN rows = Table /\ DOMAIN checkpoints = Table
  /\ DOMAIN newRows = Session /\ DOMAIN newCps = Session
  /\ \A p \in Session : DOMAIN newRows[p] = Table /\ DOMAIN newCps[p] = Table
  /\ \A t \in Table : IsFiniteSet(rows[t]) /\ \A p \in Session : IsFiniteSet(newRows[p][t])
  /\ rowSeq \in [Table -> Nat] /\ cpSeq \in Nat
  /\ holder \in [LockId -> Session \cup {NoSession}]
  /\ currentKey \in Key /\ previousKey \in Key \cup {NoKey} /\ rotations \in 0..MaxRotations
  /\ pc \in [Session -> PcValue]
  /\ DOMAIN call = Session /\ DOMAIN lastHash = Session /\ DOMAIN prevCpHash = Session
  /\ \A p \in Session : pc[p] \notin {"idle", "commit"} => call[p].table \in Table
  /\ rowCount \in [Session -> Nat]
  /\ fresh \in [Session -> BOOLEAN] /\ outer \in [Session -> BOOLEAN]

\* The committed rows of every table form ONE chain: each row carries the hash of the
\* row before it, whichever sessions wrote them, in whatever order they committed,
\* and however many transactions rolled back in between (append, operations.py).
ChainLinked == \A t \in Table : Linked(rows[t])

\* Checkpoints of a table chain in the same way (checkpoint, operations.py).
CheckpointsLinked == \A t \in Table : LinkedCheckpoints(checkpoints[t])

\* A committed checkpoint describes a state the table really had: its last hash and
\* its row count belong to the same prefix of the chain, although the code reads
\* them in two statements; later checkpoints never describe an earlier prefix.
Prefix(t, n) == {r \in rows[t] : r.pk <= n}
CheckpointsDescribePrefixes ==
  \A t \in Table : \A c \in checkpoints[t] :
    /\ \E n \in 0..rowSeq[t] : /\ c.row_count = Cardinality(Prefix(t, n))
                              /\ c.last_entry_hash = LastEntryHash(Prefix(t, n))
    /\ \A d \in checkpoints[t] : d.pk < c.pk => d.row_count <= c.row_count

\* Whoever has seen the rows of a table up to some pk has seen all of them there will
\* ever be up to that pk: rows never go away and become visible in pk order.
AppendOnly ==
  [][\A t \in Table : /\ rows[t] \subseteq rows'[t]
                      /\ \A new \in rows'[t] \ rows[t], old \in rows[t] : old.pk < new.pk]_rows

\* Until the key ring has rotated twice, an entry verifies exactly when the JSON columns
\* returned its values in the form that was signed, even when its call read the key before
\* a rotation and saved after it.  One that comes back in another form, with integer keys
\* in another order or a large float, never does, although append returned it (append
\* signs the values it was given, verify_entry checks the stored ones).
SignedBody(r) == r.entry_hash[2][3]
VerifiesAfterOneRotation ==
  rotations <= 1 =>
    \A t \in Table : \A r \in rows[t] :
      Verified(r, currentKey, previousKey) <=> ReadBack[SignedBody(r)] = SignedBody(r)

\* Every call ends, and every session that waits for a table gets it or an error,
\* also when sessions lock two tables in opposite orders.
CallsEnd == \A p \in Session : pc[p] # "idle" ~> pc[p] = "idle"

-----------------------------------------------------------------------------
(* The inductive invariant behind ChainLinked, CheckpointsLinked and       *)
(* AppendOnly.                                                             *)

\* p has read table t under the lock, or has written it and not committed.
Reading == {"last", "count", "prev_cp", "save", "save_cp"}
UsesTable(p, t) ==
  \/ pc[p] \in Reading /\ call[p].table = t
  \/ newRows[p][t] # {} \/ newCps[p][t] # {}

\* Only the holder of a table's lock uses the table, and a lock that a failing call
\* would give back protects nothing the session still has to commit.
LockInv == \A p \in Session, t \in Table : UsesTable(p, t) => holder[LockOf[t]] = p
FreshInv ==
  \A p \in Session : fresh[p] =>
    /\ pc[p] \in Reading
    /\ \A t \in Table : LockOf[t] = LockOf[call[p].table] => newRows[p][t] = {} /\ newCps[p][t] = {}

\* pks were handed out by the sequences, and pending ones are above all committed ones.
PkInv ==
  /\ \A t \in Table : \A r \in rows[t] : r.pk \in 1..rowSeq[t]
  /\ \A t \in Table : \A c \in checkpoints[t] : c.pk \in 1..cpSeq
  /\ \A p \in Session, t \in Table :
       /\ \A r \in newRows[p][t] : r.pk \in 1..rowSeq[t] /\ \A old \in rows[t] : old.pk < r.pk
       /\ \A c \in newCps[p][t] : c.pk \in 1..cpSeq /\ \A old \in checkpoints[t] : old.pk < c.pk

\* What a session would commit is linked, and what it has read is still true.
LinkInv ==
  \A p \in Session, t \in Table :
    /\ Linked(VisibleRows(p, t)) /\ LinkedCheckpoints(VisibleCps(p, t))
    /\ pc[p] = "save" /\ call[p].table = t => lastHash[p] = LastEntryHash(VisibleRows(p, t))
    /\ pc[p] = "save_cp" /\ call[p].table = t =>
         prevCpHash[p] = LastCheckpointHash(VisibleCps(p, t))

IInv == TypeOK /\ LockInv /\ FreshInv /\ PkInv /\ LinkInv /\ ChainLinked /\ CheckpointsLinked
=============================================================================
