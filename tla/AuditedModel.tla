---------------------------- MODULE AuditedModel ----------------------------
(***************************************************************************)
(* A Django model whose changes osivault.audit.signals records: the        *)
(* handlers register_audit_signal connects to save() and delete(), and     *)
(* audit_bulk_delete.  Workers run operations on shared rows, statement by *)
(* statement, each statement its own transaction (autocommit) unless the   *)
(* application or Django's delete() has opened one.  A call of append is   *)
(* one step, a transaction of AuditLedger: AuditAppend shows that its      *)
(* statements amount to that, and that its lock lasts to the end of the    *)
(* transaction.                                                            *)
(***************************************************************************)
EXTENDS Integers, Sequences, FiniteSets, SequencesExt

CONSTANTS
  Worker,      \* threads or processes, each with its own connection
  Obj,         \* primary keys
  Value,       \* what the other fields of a row say
  Absent,      \* no such row; as old or new values of an entry, {}
  Matching,    \* the values the filter of audit_bulk_delete's queryset matches
  Registered,  \* has register_audit_signal been called for the model?
  OuterModes,  \* {TRUE}: every operation runs inside a transaction of the
               \* application; {FALSE}: none does; BOOLEAN: some do
  Kinds,       \* the operations the application uses
  MaxOps       \* bound on operations

ASSUME ValueAssumption == Absent \notin Value /\ Matching \subseteq Value
ASSUME ModeAssumption == OuterModes \in SUBSET BOOLEAN /\ Registered \in BOOLEAN
ASSUME KindAssumption == Kinds \subseteq {"create", "save", "delete", "bulk"} /\ MaxOps \in Nat

VARIABLES
  row,         \* row[o]: committed fields of row o
  used,        \* primary keys handed out
  log,         \* log[l]: committed entries of audit model l, in pk order
  outer,       \* outer[w]: the application has a transaction open
  newChanges,  \* newChanges[w]: changes of w's open transaction, not yet committed
  newLog,      \* newLog[w][l]: entries of it
  pc, op,      \* what w runs, and where it is
  opSeq,       \* operations started
  changes,     \* history: committed changes of rows, in commit order
  failed       \* history: operations that raised

Log == {"dedicated", "central"}
committed == <<row, log, changes>>
pending == <<newChanges, newLog>>
vars == <<committed, used, outer, pending, pc, op, opSeq, failed>>

\* The new values of the last change of o in s.
LastOf(s, o, default) ==
  LET i == SelectLastInSeq(s, LAMBDA c : c.obj = o) IN IF i = 0 THEN default ELSE s[i].new

\* What a statement of w sees of row o, and whether another transaction has it locked.
Visible(w, o) == LastOf(newChanges[w], o, row[o])
Touched(w) == {c.obj : c \in Range(newChanges[w])}
RowHolders(w, o) == {v \in Worker \ {w} : o \in Touched(v)}
LogHolders(w, l) == {v \in Worker \ {w} : newLog[v][l] # <<>>}

\* Rows an application can hold an instance of.
Known(w) == {o \in Obj : row[o] # Absent} \cup {c.obj : c \in Range(changes)} \cup Touched(w)
VisibleMatching(w) == {[obj |-> o, old |-> Visible(w, o)] :
                         o \in {o \in Obj : Visible(w, o) \in Matching}}

\* An operation: tx tells whether its statements run in a transaction; todo are the
\* entries to append and next where to go after them; doomed the rows to delete, only
\* if they match the filter.
NoOp == [id |-> 0, todo |-> {}, doomed |-> {}]
Operation(w) ==
  [id |-> opSeq + 1, tx |-> outer[w], obj |-> Absent, old |-> Absent, new |-> Absent,
   todo |-> {}, entry |-> Absent, next |-> "done", doomed |-> {}, filter |-> FALSE]
EntryOfCleared(w, o, action, old, new) ==   \* mutant: read after Django has cleared the pk
  [id |-> op[w].id, obj |-> IF action = "DELETE" THEN Absent ELSE o,
   action |-> action, old |-> old, new |-> new]
EntryOf(w, o, action, old, new) ==
  [id |-> op[w].id, obj |-> o, action |-> action, old |-> old, new |-> new]

Init ==
  /\ row \in [Obj -> Value \cup {Absent}] /\ used = {o \in Obj : row[o] # Absent}
  /\ log = [l \in Log |-> <<>>]
  /\ outer = [w \in Worker |-> FALSE]
  /\ newChanges = [w \in Worker |-> <<>>]
  /\ newLog = [w \in Worker |-> [l \in Log |-> <<>>]]
  /\ pc = [w \in Worker |-> "idle"] /\ op = [w \in Worker |-> NoOp]
  /\ opSeq = 0 /\ changes = <<>> /\ failed = {}

Start(w, kind, o, label) ==
  /\ pc[w] = "idle" /\ outer[w] \in OuterModes /\ kind \in Kinds /\ opSeq < MaxOps
  /\ opSeq' = opSeq + 1
  /\ op' = [op EXCEPT ![w] = o]
  /\ pc' = [pc EXCEPT ![w] = label]
  /\ UNCHANGED <<committed, outer, pending, failed>>

-----------------------------------------------------------------------------
(* save(): pre_save, UPDATE, INSERT if that met no row, post_save.         *)

CreateCall(w, o, v) ==
  /\ o \notin used /\ used' = used \cup {o}
  /\ Start(w, "create", [Operation(w) EXCEPT !.obj = o, !.new = v], "insert")

SaveCall(w, o, v) ==
  /\ o \in Known(w)
  /\ Start(w, "save", [Operation(w) EXCEPT !.obj = o, !.new = v], "pre_save")
  /\ UNCHANGED used

\* The snapshot of the old values: a plain SELECT, no lock.
PreSave(w) ==
  /\ pc[w] = "pre_save"
  /\ op' = [op EXCEPT ![w].old = IF Registered THEN Visible(w, op[w].obj) ELSE Absent]
  /\ pc' = [pc EXCEPT ![w] = "update"]
  /\ UNCHANGED <<committed, used, outer, pending, opSeq, failed>>

\* The handler catches its exceptions.  Outside a transaction the save goes on without a
\* snapshot; inside one every further statement raises, which is Fails.
PreSaveFails(w) ==
  /\ pc[w] = "pre_save" /\ Registered /\ ~op[w].tx
  /\ pc' = [pc EXCEPT ![w] = "update"]
  /\ UNCHANGED <<committed, used, outer, pending, op, opSeq, failed>>

\* A change of a row, committed at once unless a transaction is open.
Write(w, tx, o, action, new) ==
  LET c == [id |-> op[w].id, obj |-> o, action |-> action, new |-> new,
            replaced |-> Visible(w, o), tx |-> tx] IN
  IF tx THEN newChanges' = [newChanges EXCEPT ![w] = Append(@, c)] /\ UNCHANGED <<row, changes>>
  ELSE /\ row' = [row EXCEPT ![o] = new] /\ changes' = Append(changes, c)
       /\ UNCHANGED newChanges

\* Mutant: a save that changes nothing is not recorded.
PostSaveIfChanged(w, action, old) ==
  LET o == op[w].obj IN
  IF Registered /\ old # op[w].new
  THEN /\ op' = [op EXCEPT ![w].todo = {EntryOf(w, o, action, old, op[w].new)}]
       /\ pc' = [pc EXCEPT ![w] = "dedicated"]
  ELSE pc' = [pc EXCEPT ![w] = "done"] /\ UNCHANGED op

\* Go on to append the entry.
PostSave(w, action, old) ==
  LET o == op[w].obj IN
  IF Registered
  THEN /\ op' = [op EXCEPT ![w].todo = {EntryOf(w, o, action, old, op[w].new)}]
       /\ pc' = [pc EXCEPT ![w] = "dedicated"]
  ELSE pc' = [pc EXCEPT ![w] = "done"] /\ UNCHANGED op

UpdateRow(w) ==
  LET o == op[w].obj IN
  /\ pc[w] = "update"
  /\ Visible(w, o) # Absent /\ RowHolders(w, o) = {}
  /\ Write(w, op[w].tx, o, "UPDATE", op[w].new)
  /\ PostSave(w, "UPDATE", op[w].old)
  /\ UNCHANGED <<used, log, outer, newLog, opSeq, failed>>

\* UPDATE waits for no row it does not see: one inserted by an open transaction.
UpdateNothing(w) ==
  /\ pc[w] = "update" /\ Visible(w, op[w].obj) = Absent
  /\ pc' = [pc EXCEPT ![w] = "insert"]
  /\ UNCHANGED <<committed, used, outer, pending, op, opSeq, failed>>

InsertRow(w) ==
  LET o == op[w].obj IN
  /\ pc[w] = "insert"
  /\ Visible(w, o) = Absent /\ RowHolders(w, o) = {}
  /\ Write(w, op[w].tx, o, "CREATE", op[w].new)
  /\ PostSave(w, "CREATE", Absent)
  /\ UNCHANGED <<used, log, outer, newLog, opSeq, failed>>

-----------------------------------------------------------------------------
(* delete() and audit_bulk_delete.                                         *)

\* The instance was loaded before; Django's delete() opens a transaction of its own
\* because a handler listens to post_delete, and needs none for its single statement
\* otherwise.
DeleteCall(w, o) ==
  /\ Visible(w, o) # Absent
  /\ Start(w, "delete", [Operation(w) EXCEPT !.tx = @ \/ Registered,
                           !.doomed = {[obj |-> o, old |-> Visible(w, o)]}], "delete")
  /\ UNCHANGED used

\* list(queryset) has found some rows; an entry for each will be appended.
BulkDeleteCall(w) ==
  LET listed == VisibleMatching(w) IN
  /\ listed # {}
  /\ Start(w, "bulk", [Operation(w) EXCEPT !.next = "collect", !.todo =
       {[id |-> opSeq + 1, obj |-> d.obj, action |-> "DELETE", old |-> d.old, new |-> Absent] :
          d \in listed}], "dedicated")
  /\ UNCHANGED used

\* queryset.delete() evaluates the queryset again, in a transaction.
Collect(w) ==
  LET found == VisibleMatching(w) IN
  /\ pc[w] = "collect"
  /\ op' = [op EXCEPT ![w].tx = TRUE, ![w].next = "done", ![w].doomed = found,
                     ![w].filter = ~Registered]
  /\ pc' = [pc EXCEPT ![w] = IF found = {} THEN "done" ELSE "delete"]
  /\ UNCHANGED <<committed, used, outer, pending, opSeq, failed>>

\* DELETE takes its rows one by one, waits for each to be free, and passes over those
\* gone by then.  With handlers it names primary keys, without it repeats the filter.
\* post_delete is sent for every row of the collection, deleted or passed over.
DeleteRow(w, d) ==
  LET o == d.obj
      left == op[w].doomed \ {d}
      entries == op[w].todo \cup
                 (IF Registered THEN {EntryOf(w, o, "DELETE", d.old, Absent)} ELSE {}) IN
  /\ pc[w] = "delete" /\ d \in op[w].doomed
  /\ RowHolders(w, o) = {}
  /\ IF Visible(w, o) # Absent /\ (op[w].filter => Visible(w, o) \in Matching)
     THEN Write(w, op[w].tx, o, "DELETE", Absent)
     ELSE UNCHANGED <<row, changes, newChanges>>
  /\ op' = [op EXCEPT ![w].doomed = left, ![w].todo = entries]
  /\ pc' = [pc EXCEPT ![w] = IF left # {} THEN "delete"
                             ELSE IF entries # {} THEN "dedicated" ELSE "done"]
  /\ UNCHANGED <<used, log, outer, newLog, opSeq, failed>>

-----------------------------------------------------------------------------
(* The handlers: append to the dedicated audit model, then to the central  *)
(* one.  append waits while another open transaction has appended there.   *)

\* Mutant: the audit tables are in another database, where no transaction is open.
AppendToElsewhere(w, l, e) ==
  /\ log' = [log EXCEPT ![l] = Append(@, e)]
  /\ UNCHANGED <<row, changes, used, outer, pending, opSeq, failed>>

\* Mutant: a transaction that has appended to a log waits for itself.
AppendToNotReentrant(w, l, e) ==
  /\ \A v \in Worker : newLog[v][l] = <<>>
  /\ IF op[w].tx
     THEN newLog' = [newLog EXCEPT ![w][l] = Append(@, e)] /\ UNCHANGED log
     ELSE log' = [log EXCEPT ![l] = Append(@, e)] /\ UNCHANGED newLog
  /\ UNCHANGED <<row, changes, used, outer, newChanges, opSeq, failed>>

AppendTo(w, l, e) ==
  /\ LogHolders(w, l) = {}
  /\ IF op[w].tx
     THEN newLog' = [newLog EXCEPT ![w][l] = Append(@, e)] /\ UNCHANGED log
     ELSE log' = [log EXCEPT ![l] = Append(@, e)] /\ UNCHANGED newLog
  /\ UNCHANGED <<row, changes, used, outer, newChanges, opSeq, failed>>

\* What follows when entry e is in its last log.
Appended(w, e) ==
  LET left == op[w].todo \ {e} IN
  /\ op' = [op EXCEPT ![w].todo = left, ![w].entry = Absent]
  /\ pc' = [pc EXCEPT ![w] = IF left = {} THEN op[w].next ELSE "dedicated"]

\* Mutant: goes on to the central log although the dedicated append failed.
AppendDedicatedTolerant(w, e) ==
  /\ pc[w] = "dedicated" /\ e \in op[w].todo
  /\ op' = [op EXCEPT ![w].entry = e]
  /\ pc' = [pc EXCEPT ![w] = "central"]
  /\ UNCHANGED <<committed, used, outer, pending, opSeq, failed>>

AppendDedicated(w, e) ==
  /\ pc[w] = "dedicated" /\ e \in op[w].todo
  /\ AppendTo(w, "dedicated", e)
  /\ op' = [op EXCEPT ![w].entry = e]
  /\ pc' = [pc EXCEPT ![w] = "central"]

\* Mutant: an error of the central append is swallowed.
AppendCentralTolerant(w) ==
  /\ pc[w] = "central"
  /\ Appended(w, op[w].entry)
  /\ UNCHANGED <<committed, used, outer, pending, opSeq, failed>>

AppendCentral(w) ==
  /\ pc[w] = "central"
  /\ AppendTo(w, "central", op[w].entry)
  /\ Appended(w, op[w].entry)

-----------------------------------------------------------------------------
(* Transactions, errors and lock waits.                                    *)

Forget(w) ==
  /\ newChanges' = [newChanges EXCEPT ![w] = <<>>]
  /\ newLog' = [newLog EXCEPT ![w] = [l \in Log |-> <<>>]]
  /\ op' = [op EXCEPT ![w] = NoOp]
  /\ pc' = [pc EXCEPT ![w] = "idle"]
  /\ UNCHANGED <<used, opSeq>>

Commit(w) ==
  /\ row' = [o \in Obj |-> Visible(w, o)]
  /\ changes' = changes \o newChanges[w]
  /\ log' = [l \in Log |-> log[l] \o newLog[w][l]]
  /\ Forget(w) /\ UNCHANGED failed

\* The operation is over; what it did in a transaction of its own is committed now.
EndOp(w) ==
  /\ pc[w] = "done"
  /\ IF outer[w]
     THEN /\ op' = [op EXCEPT ![w] = NoOp] /\ pc' = [pc EXCEPT ![w] = "idle"]
          /\ UNCHANGED <<committed, used, pending, opSeq, failed>>
     ELSE Commit(w)
  /\ UNCHANGED outer

BeginOuter(w) ==
  /\ TRUE \in OuterModes /\ pc[w] = "idle" /\ ~outer[w] /\ opSeq < MaxOps
  /\ outer' = [outer EXCEPT ![w] = TRUE]
  /\ UNCHANGED <<committed, used, pending, pc, op, opSeq, failed>>

CommitOuter(w) ==
  /\ pc[w] = "idle" /\ outer[w]
  /\ Commit(w)
  /\ outer' = [outer EXCEPT ![w] = FALSE]

\* A statement raises, or the connection is lost.  No handler catches: the operation
\* ends, and so does the transaction it runs in.
Raise(w) ==
  /\ Forget(w)
  /\ outer' = [outer EXCEPT ![w] = FALSE]
  /\ failed' = failed \cup ({op[w].id} \ {0})
  /\ UNCHANGED committed

Fails(w) == (pc[w] # "idle" \/ outer[w]) /\ Raise(w)

\* The row UPDATE did not see has been inserted since: IntegrityError.
InsertConflict(w) ==
  /\ pc[w] = "insert" /\ Visible(w, op[w].obj) # Absent /\ RowHolders(w, op[w].obj) = {}
  /\ Raise(w)

WaitsFor(w) ==
  CASE pc[w] = "update" /\ Visible(w, op[w].obj) # Absent -> RowHolders(w, op[w].obj)
    [] pc[w] = "insert"    -> RowHolders(w, op[w].obj)
    [] pc[w] = "delete"    -> UNION {RowHolders(w, d.obj) : d \in op[w].doomed}
    [] pc[w] = "dedicated" -> LogHolders(w, "dedicated")
    [] pc[w] = "central"   -> LogHolders(w, "central")
    [] OTHER -> {}

\* PostgreSQL raises in one of the sessions that wait for each other.
DeadlockDetected(w) ==
  /\ \E S \in SUBSET Worker : w \in S /\ \A v \in S : WaitsFor(v) \cap S # {}
  /\ Raise(w)

-----------------------------------------------------------------------------
Statement(w) ==
  \/ PreSave(w) \/ PreSaveFails(w) \/ UpdateRow(w) \/ UpdateNothing(w)
  \/ InsertRow(w) \/ InsertConflict(w)
  \/ Collect(w) \/ \E d \in op[w].doomed : DeleteRow(w, d)
  \/ \E e \in op[w].todo : AppendDedicated(w, e)
  \/ AppendCentral(w) \/ EndOp(w)

Call(w) ==
  \/ \E o \in Obj, v \in Value : CreateCall(w, o, v) \/ SaveCall(w, o, v)
  \/ \E o \in Obj : DeleteCall(w, o)
  \/ BulkDeleteCall(w)

Next ==
  \E w \in Worker :
    \/ Call(w) \/ Statement(w)
    \/ BeginOuter(w) \/ CommitOuter(w) \/ Fails(w) \/ DeadlockDetected(w)

Spec == Init /\ [][Next]_vars

\* Fairness.  The server runs every statement and grants contended locks in queue order
\* (SF), it breaks deadlocks (WF), and the application ends each transaction it has
\* opened (SF).  Nothing is assumed of new calls and errors.
FairSpec ==
  /\ Spec
  /\ \A w \in Worker : /\ SF_vars(Statement(w)) /\ WF_vars(DeadlockDetected(w))
                       /\ SF_vars(CommitOuter(w))

-----------------------------------------------------------------------------
(* Properties.                                                             *)

PcValue == {"idle", "pre_save", "update", "insert", "dedicated", "central", "collect",
            "delete", "done"}
OldOrNew == Value \cup {Absent}
Entry == [id : 1..MaxOps, obj : Obj, action : {"CREATE", "UPDATE", "DELETE"},
          old : OldOrNew, new : OldOrNew]

TypeOK ==
  /\ row \in [Obj -> OldOrNew] /\ used \subseteq Obj
  /\ \A l \in Log : Range(log[l]) \subseteq Entry
  /\ \A w \in Worker, l \in Log : Range(newLog[w][l]) \subseteq Entry
  /\ pc \in [Worker -> PcValue] /\ outer \in [Worker -> BOOLEAN]
  /\ \A w \in Worker : op[w].todo \subseteq Entry
  /\ \A o \in Obj : row[o] # Absent => o \in used
  /\ opSeq \in 0..MaxOps /\ failed \subseteq 1..MaxOps

Keys(s) == {<<e.id, e.obj>> : e \in Range(s)}
Logged(c) == \A l \in Log : <<c.id, c.obj>> \in Keys(log[l])

\* Whatever the central audit model says, the dedicated one says too: errors and lost
\* connections between the two calls of append lose central entries only
\* (auto_audit_post_save_handler, signals.py).
CentralFollowsDedicated == Range(log["central"]) \subseteq Range(log["dedicated"])

\* A committed change is in both logs, except for a save that ran without a transaction
\* and has not come to its handler's end, or never did because something raised.  In
\* particular no change made in a transaction, and no deletion, goes unrecorded.
ChangesLogged ==
  \A c \in Range(changes) :
    \/ Logged(c)
    \/ ~c.tx /\ (c.id \in failed \/ \E w \in Worker : op[w].id = c.id)

\* No entry is invented: what an entry says of a save is what that save committed, also
\* when the transaction around it or a later statement failed; and a row said to be
\* deleted was deleted, though not always by the operation that says so.
NoInventedEntries ==
  \A e \in Range(log["dedicated"]) : \E c \in Range(changes) :
    /\ c.obj = e.obj /\ c.action = e.action
    /\ e.action # "DELETE" => c.id = e.id /\ c.new = e.new

\* The log of a row whose changes were all made in transactions tells them one by one and
\* in their order: each has exactly one entry, with its action and values.  Row locks are
\* held to the commit, so entries cannot overtake each other.  (Entries of deletions that
\* found the row already gone tell of no change.)
LogTellsHistory ==
  \A l \in Log, o \in {o \in Obj : \A c \in Range(changes) : c.obj = o => c.tx} :
    LET done == {i \in DOMAIN changes : changes[i].obj = o}
        Tells(p, i) == log[l][p].obj = o /\ log[l][p].id = changes[i].id IN
    /\ \A i \in done : \E p \in DOMAIN log[l] :
         Tells(p, i) /\ log[l][p].action = changes[i].action /\ log[l][p].new = changes[i].new
    /\ \A i, j \in done, p, q \in DOMAIN log[l] : Tells(p, i) /\ Tells(q, j) => (p < q <=> i < j)

\* The old values of an UPDATE entry are those the update replaced ("Snapshot previous
\* values for UPDATE diff tracking", signals.py), unless it gives none.
OldValuesReplaced ==
  \A e \in Range(log["dedicated"]), c \in Range(changes) :
    e.action = "UPDATE" /\ c.id = e.id /\ e.old # Absent => e.old = c.replaced

\* audit_bulk_delete records an entry "for every deleted instance" (signals.py), here on
\* a model without handlers of its own, whose rows nothing else deletes.
DeletedInstancesLogged ==
  \A c \in Range(changes) : c.action = "DELETE" => Logged(c)

\* Every operation ends, although transactions hold row locks while they wait for the
\* lock of an audit table and the other way round.
OpsEnd == \A w \in Worker : pc[w] # "idle" ~> pc[w] = "idle"
=============================================================================
