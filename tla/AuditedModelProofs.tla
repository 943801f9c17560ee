------------------------- MODULE AuditedModelProofs -------------------------
(***************************************************************************)
(* Proofs about AuditedModel, for any number of workers, rows, values and  *)
(* operations: the central log says no more than the dedicated one, the    *)
(* changes of a registered model are logged, without audit_bulk_delete no  *)
(* entry is invented and the log of a row is its history, and types are    *)
(* correct.                                                                *)
(***************************************************************************)
EXTENDS AuditedModel, SequenceTheorems, WellFoundedInduction, TLAPS

-----------------------------------------------------------------------------
(* Sequences.                                                              *)

IsSequence(s) == s \in Seq(Range(s))

LEMMA EmptySequence == IsSequence(<<>>) /\ Range(<<>>) = {}
BY DEF IsSequence, Range

LEMMA RangeOfAppend ==
  ASSUME NEW s, NEW e, IsSequence(s)
  PROVE  IsSequence(Append(s, e)) /\ Range(Append(s, e)) = Range(s) \cup {e}
<1> DEFINE S == Range(s) \cup {e}
<1>1. s \in Seq(S)
  BY DEF IsSequence, Range
<1>2. /\ Append(s, e) \in Seq(S) /\ Len(Append(s, e)) = Len(s) + 1 /\ Len(s) \in Nat
      /\ \A i \in 1..Len(s) : Append(s, e)[i] = s[i]
      /\ Append(s, e)[Len(s) + 1] = e
  BY <1>1
<1>3. Range(Append(s, e)) = S
  BY <1>1, <1>2 DEF Range
<1> QED BY <1>2, <1>3 DEF IsSequence

LEMMA RangeOfConcat ==
  ASSUME NEW s, NEW t, IsSequence(s), IsSequence(t)
  PROVE  IsSequence(s \o t) /\ Range(s \o t) = Range(s) \cup Range(t)
<1> DEFINE S == Range(s) \cup Range(t)
<1>1. s \in Seq(S) /\ t \in Seq(S) /\ s \o t \in Seq(S)
  BY DEF IsSequence
<1>2. Range(s \o t) = S
  BY <1>1, RangeConcatenation
<1> QED BY <1>1, <1>2 DEF IsSequence

-----------------------------------------------------------------------------
(* The shape of the state: as much of the types as the proofs need.        *)

OpFields == {"id", "tx", "obj", "old", "new", "todo", "entry", "next", "doomed", "filter"}

LogShape ==
  /\ DOMAIN log = Log /\ \A l \in Log : IsSequence(log[l])
  /\ DOMAIN newLog = Worker
  /\ \A w \in Worker : DOMAIN newLog[w] = Log /\ \A l \in Log : IsSequence(newLog[w][l])

ChangeShape ==
  /\ IsSequence(changes)
  /\ DOMAIN newChanges = Worker /\ \A w \in Worker : IsSequence(newChanges[w])

\* Operations that run have ids of their own.
OpShape ==
  /\ DOMAIN pc = Worker /\ DOMAIN op = Worker /\ outer \in [Worker -> BOOLEAN]
  /\ opSeq \in Nat
  /\ \A w \in Worker : IF pc[w] = "idle" THEN op[w] = NoOp
                       ELSE /\ DOMAIN op[w] = OpFields
                            /\ op[w].tx \in BOOLEAN /\ op[w].id \in 1..opSeq
                            /\ op[w].next \in {"collect", "done"}
  /\ \A v, w \in Worker : op[v].id = op[w].id /\ pc[v] # "idle" => v = w

Shape == LogShape /\ ChangeShape /\ OpShape

\* The log an operation appends to: that of its transaction, or the committed one.
OwnLog(w, l) == IF op[w].tx THEN newLog[w][l] ELSE log[l]

\* What is in a central log, or about to be, is in the dedicated log of the same kind.
CentralInv ==
  /\ Range(log["central"]) \subseteq Range(log["dedicated"])
  /\ \A w \in Worker :
       /\ Range(newLog[w]["central"]) \subseteq Range(newLog[w]["dedicated"])
       /\ pc[w] = "central" => op[w].entry \in Range(OwnLog(w, "dedicated"))

\* The entry of change c is still to be appended by w, where it belongs.
ToCome(w, c) ==
  /\ pc[w] \in {"delete", "dedicated", "central"}
  /\ op[w].tx = c.tx /\ op[w].id = c.id
  /\ \E e \in op[w].todo : e.id = c.id /\ e.obj = c.obj

\* An outright change of w's operation is logged, or its entry is to come.
OutrightInv(w) ==
  \A c \in Range(changes) : c.id = op[w].id /\ ~c.tx => Logged(c) \/ ToCome(w, c)

\* So is a change of its open transaction, in which all deletions are made.
PendingInv(w) ==
  /\ \A c \in Range(newChanges[w]) :
       /\ c.tx = TRUE /\ c.id \in 1..opSeq
       /\ (\A l \in Log : <<c.id, c.obj>> \in Keys(newLog[w][l])) \/ ToCome(w, c)
  /\ pc[w] = "delete" => op[w].tx

ChangeInv ==
  /\ ChangesLogged /\ \A c \in Range(changes) : c.id \in 1..opSeq
  /\ \A w \in Worker : OutrightInv(w) /\ PendingInv(w)

-----------------------------------------------------------------------------
(* What the parts of the actions do to the sequences.                      *)

\* Write makes one change, in the transaction or at once.
LEMMA WriteEffect ==
  ASSUME Shape, NEW w \in Worker, pc[w] # "idle", NEW o, NEW action, NEW new,
         Write(w, op[w].tx, o, action, new)
  PROVE  /\ ChangeShape'
         /\ \E c : /\ c.id = op[w].id /\ c.obj = o /\ c.tx = op[w].tx
                   /\ IF op[w].tx
                      THEN /\ changes' = changes
                           /\ Range(newChanges'[w]) = Range(newChanges[w]) \cup {c}
                           /\ \A v \in Worker \ {w} : newChanges'[v] = newChanges[v]
                      ELSE /\ newChanges' = newChanges
                           /\ Range(changes') = Range(changes) \cup {c}
<1> DEFINE c == [id |-> op[w].id, obj |-> o, action |-> action, new |-> new,
                 replaced |-> Visible(w, o), tx |-> op[w].tx]
<1>1. c.id = op[w].id /\ c.obj = o /\ c.tx = op[w].tx
  OBVIOUS
<1>2. CASE op[w].tx
  <2>1. newChanges' = [newChanges EXCEPT ![w] = Append(@, c)] /\ changes' = changes
    BY <1>2 DEF Write
  <2> HIDE DEF c
  <2> QED BY <1>1, <1>2, <2>1, RangeOfAppend DEF Shape, ChangeShape
<1>3. CASE ~op[w].tx
  <2>1. newChanges' = newChanges /\ changes' = Append(changes, c)
    BY <1>3 DEF Write
  <2> HIDE DEF c
  <2> QED BY <1>1, <1>3, <2>1, RangeOfAppend DEF Shape, ChangeShape
<1> QED BY <1>2, <1>3

\* AppendTo adds the entry to the operation's own log and to no other.
LEMMA AppendToEffect ==
  ASSUME Shape, NEW w \in Worker, NEW l \in Log, NEW e, AppendTo(w, l, e)
  PROVE  /\ LogShape'
         /\ IF op[w].tx
            THEN /\ log' = log
                 /\ \A v \in Worker, k \in Log :
                      Range(newLog'[v][k]) = IF v = w /\ k = l THEN Range(newLog[v][k]) \cup {e}
                                             ELSE Range(newLog[v][k])
            ELSE /\ newLog' = newLog
                 /\ \A k \in Log : Range(log'[k]) = IF k = l THEN Range(log[k]) \cup {e}
                                                    ELSE Range(log[k])
         /\ UNCHANGED <<changes, newChanges, outer, opSeq, failed>>
<1>1. UNCHANGED <<changes, newChanges, outer, opSeq, failed>>
  BY DEF AppendTo
<1>2. CASE op[w].tx
  <2>1. /\ log' = log /\ DOMAIN newLog' = Worker
        /\ \A v \in Worker : DOMAIN newLog'[v] = Log
        /\ \A v \in Worker, k \in Log :
             newLog'[v][k] = IF v = w /\ k = l THEN Append(newLog[v][k], e) ELSE newLog[v][k]
    <3>1. newLog' = [newLog EXCEPT ![w][l] = Append(@, e)] /\ log' = log
      BY <1>2 DEF AppendTo
    <3>2. DOMAIN newLog = Worker /\ \A v \in Worker : DOMAIN newLog[v] = Log
      BY DEF Shape, LogShape
    <3> QED BY <3>1, <3>2
  <2>2. \A v \in Worker, k \in Log : IsSequence(newLog[v][k])
    BY DEF Shape, LogShape
  <2>3. ASSUME NEW v \in Worker, NEW k \in Log
        PROVE  /\ IsSequence(newLog'[v][k])
               /\ Range(newLog'[v][k]) = IF v = w /\ k = l THEN Range(newLog[v][k]) \cup {e}
                                         ELSE Range(newLog[v][k])
    <3>1. CASE v = w /\ k = l
      BY <2>1, <2>2, <3>1, RangeOfAppend
    <3> QED BY <2>1, <2>2, <3>1
  <2> QED BY <1>1, <1>2, <2>1, <2>3 DEF Shape, LogShape
<1>3. CASE ~op[w].tx
  <2>1. /\ newLog' = newLog /\ DOMAIN log' = Log
        /\ \A k \in Log : log'[k] = IF k = l THEN Append(log[k], e) ELSE log[k]
    BY <1>3 DEF AppendTo, Shape, LogShape
  <2>2. \A k \in Log : IsSequence(log[k])
    BY DEF Shape, LogShape
  <2>3. ASSUME NEW k \in Log
        PROVE  /\ IsSequence(log'[k])
               /\ Range(log'[k]) = IF k = l THEN Range(log[k]) \cup {e} ELSE Range(log[k])
    <3>1. CASE k = l
      <4>1. log'[k] = Append(log[k], e) /\ IsSequence(log[k])
        BY <2>1, <2>2, <3>1
      <4> QED BY <3>1, <4>1, RangeOfAppend
    <3> QED BY <2>1, <2>2, <3>1
  <2> QED BY <1>1, <1>3, <2>1, <2>3 DEF Shape, LogShape
<1> QED BY <1>2, <1>3

\* In particular no log loses an entry, and no other transaction is affected.
LEMMA AppendToGrows ==
  ASSUME Shape, NEW w \in Worker, NEW l \in Log, NEW e, AppendTo(w, l, e)
  PROVE  /\ \A k \in Log : Range(log[k]) \subseteq Range(log'[k])
         /\ \A k \in Log : Range(newLog[w][k]) \subseteq Range(newLog'[w][k])
         /\ \A v \in Worker \ {w}, k \in Log : Range(newLog'[v][k]) = Range(newLog[v][k])
         /\ changes' = changes /\ newChanges' = newChanges /\ failed' = failed /\ opSeq' = opSeq
         /\ IF op[w].tx THEN e \in Range(newLog'[w][l]) ELSE e \in Range(log'[l])
<1>1. CASE op[w].tx
  <2>1. log' = log /\ \A v \in Worker, k \in Log :
          Range(newLog'[v][k]) = IF v = w /\ k = l THEN Range(newLog[v][k]) \cup {e}
                                 ELSE Range(newLog[v][k])
    BY <1>1, AppendToEffect
  <2>2. UNCHANGED <<changes, newChanges, opSeq, failed>>
    BY DEF AppendTo
  <2> QED BY <1>1, <2>1, <2>2
<1>2. CASE ~op[w].tx
  <2>1. newLog' = newLog /\ \A k \in Log : Range(log'[k]) = IF k = l THEN Range(log[k]) \cup {e}
                                                            ELSE Range(log[k])
    BY <1>2, AppendToEffect
  <2>2. UNCHANGED <<changes, newChanges, opSeq, failed>>
    BY DEF AppendTo
  <2> QED BY <1>2, <2>1, <2>2
<1> QED BY <1>1, <1>2

\* COMMIT adds what is pending to what is committed.
LEMMA CommitEffect ==
  ASSUME Shape, NEW w \in Worker, Commit(w)
  PROVE  /\ LogShape' /\ ChangeShape'
         /\ Range(changes') = Range(changes) \cup Range(newChanges[w])
         /\ \A l \in Log : Range(log'[l]) = Range(log[l]) \cup Range(newLog[w][l])
         /\ Range(newChanges'[w]) = {} /\ \A l \in Log : Range(newLog'[w][l]) = {}
         /\ \A v \in Worker \ {w} : newChanges'[v] = newChanges[v] /\ newLog'[v] = newLog[v]
BY EmptySequence, RangeOfConcat DEF Commit, Forget, Shape, LogShape, ChangeShape

LEMMA ForgetEffect ==
  ASSUME Shape, NEW w \in Worker, Forget(w), UNCHANGED committed
  PROVE  /\ LogShape' /\ ChangeShape'
         /\ Range(newChanges'[w]) = {} /\ \A l \in Log : Range(newLog'[w][l]) = {}
         /\ \A v \in Worker \ {w} : newChanges'[v] = newChanges[v] /\ newLog'[v] = newLog[v]
BY EmptySequence DEF Forget, Shape, LogShape, ChangeShape, committed

-----------------------------------------------------------------------------
(* The shape is kept.                                                      *)

\* A step of w that goes on with its operation, or ends it.
LEMMA OpGoesOn ==
  ASSUME OpShape, NEW w \in Worker,
         DOMAIN op' = Worker, DOMAIN pc' = Worker, outer' \in [Worker -> BOOLEAN], opSeq' = opSeq,
         \A v \in Worker \ {w} : op'[v] = op[v] /\ pc'[v] = pc[v],
         \/ pc'[w] = "idle" /\ op'[w] = NoOp
         \/ /\ pc[w] # "idle" /\ pc'[w] # "idle"
            /\ DOMAIN op'[w] = OpFields /\ op'[w].tx \in BOOLEAN /\ op'[w].id = op[w].id
            /\ op'[w].next \in {"collect", "done"}
  PROVE  OpShape'
BY DEF OpShape, NoOp

LEMMA StartShape ==
  ASSUME Shape, NEW w \in Worker, NEW kind, NEW o, NEW label, label # "idle",
         Start(w, kind, o, label), DOMAIN o = OpFields, o.tx \in BOOLEAN, o.id = opSeq + 1,
         o.next \in {"collect", "done"}
  PROVE  Shape'
<1>1. LogShape' /\ ChangeShape'
  BY DEF Start, Shape, LogShape, ChangeShape, committed, pending
<1>2. OpShape'
  <2>1. /\ pc' = [pc EXCEPT ![w] = label] /\ op' = [op EXCEPT ![w] = o]
        /\ opSeq' = opSeq + 1 /\ outer' = outer /\ pc[w] = "idle"
    BY DEF Start
  <2>2. /\ DOMAIN pc' = Worker /\ DOMAIN op' = Worker /\ outer' \in [Worker -> BOOLEAN]
        /\ opSeq' \in Nat
        /\ op'[w] = o /\ pc'[w] = label
        /\ \A v \in Worker \ {w} : op'[v] = op[v] /\ pc'[v] = pc[v]
    BY <2>1 DEF Shape, OpShape
  <2>3. \A v \in Worker \ {w} : op[v].id \in 0..opSeq
    BY DEF Shape, OpShape, NoOp
  <2>4. \A v \in Worker : IF pc'[v] = "idle" THEN op'[v] = NoOp
                          ELSE /\ DOMAIN op'[v] = OpFields
                               /\ op'[v].tx \in BOOLEAN /\ op'[v].id \in 1..opSeq'
                               /\ op'[v].next \in {"collect", "done"}
    BY <2>1, <2>2 DEF Shape, OpShape
  <2>5. ASSUME NEW u \in Worker, NEW v \in Worker, op'[u].id = op'[v].id, pc'[u] # "idle"
        PROVE  u = v
    BY <2>1, <2>2, <2>3, <2>5 DEF Shape, OpShape
  <2> QED BY <2>2, <2>4, <2>5 DEF OpShape
<1> QED BY <1>1, <1>2 DEF Shape

\* Every step keeps the shape.
LEMMA ShapeStep == Shape /\ [Next]_vars => Shape'
<1> SUFFICES ASSUME Shape, [Next]_vars PROVE Shape'
  OBVIOUS
<1>1. ASSUME NEW w \in Worker, Call(w) PROVE Shape'
  <2>1. /\ DOMAIN Operation(w) = OpFields /\ Operation(w).tx \in BOOLEAN
        /\ Operation(w).id = opSeq + 1 /\ Operation(w).next = "done"
    BY DEF Operation, OpFields, Shape, OpShape
  <2>2. ASSUME NEW o \in Obj, NEW v \in Value, CreateCall(w, o, v) \/ SaveCall(w, o, v)
        PROVE  Shape'
    <3>1. DOMAIN [Operation(w) EXCEPT !.obj = o, !.new = v] = OpFields
      BY <2>1
    <3> QED BY <2>1, <2>2, <3>1, StartShape DEF CreateCall, SaveCall, OpFields
  <2>3. ASSUME NEW o \in Obj, DeleteCall(w, o) PROVE Shape'
    BY <2>1, <2>3, StartShape, ModeAssumption DEF DeleteCall, OpFields
  <2>4. ASSUME BulkDeleteCall(w) PROVE Shape'
    BY <2>1, <2>4, StartShape DEF BulkDeleteCall, OpFields
  <2> QED BY <1>1, <2>2, <2>3, <2>4 DEF Call
<1>2. ASSUME NEW w \in Worker, PreSave(w) \/ PreSaveFails(w) \/ UpdateNothing(w) \/ Collect(w)
      PROVE  Shape'
  <2>1. LogShape' /\ ChangeShape'
    BY <1>2 DEF PreSave, PreSaveFails, UpdateNothing, Collect, Shape, LogShape, ChangeShape,
                committed, pending
  <2>2. OpShape'
    <3>1. CASE PreSave(w)
      BY <3>1, OpGoesOn DEF PreSave, Shape, OpShape, OpFields
    <3>2. CASE PreSaveFails(w) \/ UpdateNothing(w)
      BY <3>2, OpGoesOn DEF PreSaveFails, UpdateNothing, Shape, OpShape
    <3>3. CASE Collect(w)
      BY <3>3, OpGoesOn DEF Collect, Shape, OpShape, OpFields
    <3> QED BY <1>2, <3>1, <3>2, <3>3
  <2> QED BY <2>1, <2>2 DEF Shape
<1>3. ASSUME NEW w \in Worker, UpdateRow(w) \/ InsertRow(w) PROVE Shape'
  <2>1. LogShape' /\ ChangeShape'
    BY <1>3, WriteEffect DEF UpdateRow, InsertRow, Shape, LogShape
  <2>2. OpShape'
    BY <1>3, OpGoesOn DEF UpdateRow, InsertRow, PostSave, Shape, OpShape, OpFields
  <2> QED BY <2>1, <2>2 DEF Shape
<1>4. ASSUME NEW w \in Worker, NEW d \in op[w].doomed, DeleteRow(w, d) PROVE Shape'
  <2>1. LogShape' /\ ChangeShape'
    BY <1>4, WriteEffect DEF DeleteRow, Shape, LogShape, ChangeShape
  <2>2. OpShape'
    BY <1>4, OpGoesOn DEF DeleteRow, Shape, OpShape, OpFields
  <2> QED BY <2>1, <2>2 DEF Shape
<1>5. ASSUME NEW w \in Worker,
             \/ \E e \in op[w].todo : AppendDedicated(w, e)
             \/ AppendCentral(w)
      PROVE  Shape'
  <2>1. LogShape' /\ UNCHANGED <<changes, newChanges, outer, opSeq>>
    BY <1>5, AppendToEffect DEF AppendDedicated, AppendCentral, Log
  <2>2. OpShape'
    BY <1>5, <2>1, OpGoesOn DEF AppendDedicated, AppendCentral, Appended, Shape, OpShape, OpFields
  <2> QED BY <2>1, <2>2 DEF Shape, ChangeShape
<1>6. ASSUME NEW w \in Worker, EndOp(w) PROVE Shape'
  <2>1. OpShape'
    BY <1>6, OpGoesOn DEF EndOp, Commit, Forget, Shape, OpShape
  <2>2. LogShape' /\ ChangeShape'
    <3>1. CASE Commit(w)
      BY <3>1, CommitEffect
    <3>2. CASE UNCHANGED <<log, newLog, changes, newChanges>>
      BY <3>2 DEF Shape, LogShape, ChangeShape
    <3> QED BY <1>6, <3>1, <3>2 DEF EndOp, committed, pending
  <2> QED BY <2>1, <2>2 DEF Shape
<1>7. ASSUME NEW w \in Worker, CommitOuter(w) PROVE Shape'
  <2>1. OpShape'
    BY <1>7, OpGoesOn DEF CommitOuter, Commit, Forget, Shape, OpShape
  <2> QED BY <1>7, <2>1, CommitEffect DEF CommitOuter, Shape
<1>8. ASSUME NEW w \in Worker, Raise(w) PROVE Shape'
  <2>1. OpShape'
    BY <1>8, OpGoesOn DEF Raise, Forget, Shape, OpShape
  <2> QED BY <1>8, <2>1, ForgetEffect DEF Raise, Shape
<1>9. CASE (\E w \in Worker : BeginOuter(w)) \/ UNCHANGED vars
  BY <1>9 DEF BeginOuter, vars, committed, pending, Shape, LogShape, ChangeShape, OpShape
<1> QED BY <1>1, <1>2, <1>3, <1>4, <1>5, <1>6, <1>7, <1>8, <1>9
        DEF Next, Statement, InsertConflict, Fails, DeadlockDetected

LEMMA InitInv == Init => Shape /\ CentralInv /\ ChangeInv
<1> SUFFICES ASSUME Init PROVE Shape /\ CentralInv /\ ChangeInv
  OBVIOUS
<1>1. Shape
  BY EmptySequence DEF Init, Shape, LogShape, ChangeShape, OpShape, NoOp
<1>2. CentralInv
  BY EmptySequence DEF Init, CentralInv, Log
<1>3. ChangeInv
  BY EmptySequence DEF Init, ChangeInv, ChangesLogged, OutrightInv, PendingInv
<1> QED BY <1>1, <1>2, <1>3

-----------------------------------------------------------------------------
(* The central log follows the dedicated one.                              *)

LEMMA QuietCentral ==
  ASSUME CentralInv, NEW w \in Worker, log' = log, newLog' = newLog, pc'[w] # "central",
         \A v \in Worker \ {w} : op'[v] = op[v] /\ pc'[v] = pc[v]
  PROVE  CentralInv'
BY DEF CentralInv, OwnLog

LEMMA CommitCentral ==
  ASSUME Shape, CentralInv, NEW w \in Worker, Commit(w) PROVE CentralInv'
<1>1. /\ \A v \in Worker \ {w} : op'[v] = op[v] /\ pc'[v] = pc[v]
      /\ pc'[w] = "idle"
  BY DEF Commit, Forget, Shape, OpShape
<1>2. /\ \A l \in Log : Range(log'[l]) = Range(log[l]) \cup Range(newLog[w][l])
      /\ \A l \in Log : Range(newLog'[w][l]) = {}
      /\ \A v \in Worker \ {w} : newLog'[v] = newLog[v]
  BY CommitEffect
<1> QED BY <1>1, <1>2 DEF CentralInv, OwnLog, Log

LEMMA CentralStep == Shape /\ CentralInv /\ [Next]_vars => CentralInv'
<1> SUFFICES ASSUME Shape, CentralInv, [Next]_vars PROVE CentralInv'
  OBVIOUS
<1>1. ASSUME NEW w \in Worker, Call(w) PROVE CentralInv'
  BY <1>1, QuietCentral DEF Call, CreateCall, SaveCall, DeleteCall, BulkDeleteCall, Start,
     committed, pending, Shape, OpShape
<1>2. ASSUME NEW w \in Worker, PreSave(w) \/ PreSaveFails(w) \/ UpdateNothing(w) \/ Collect(w)
      PROVE  CentralInv'
  <2>1. log' = log /\ newLog' = newLog /\ pc'[w] # "central"
    BY <1>2 DEF PreSave, PreSaveFails, UpdateNothing, Collect, committed, pending, Shape, OpShape
  <2>2. \A v \in Worker \ {w} : op'[v] = op[v] /\ pc'[v] = pc[v]
    BY <1>2 DEF PreSave, PreSaveFails, UpdateNothing, Collect, Shape, OpShape
  <2> QED BY <2>1, <2>2, QuietCentral
<1>3. ASSUME NEW w \in Worker, UpdateRow(w) \/ InsertRow(w) PROVE CentralInv'
  <2>1. /\ log' = log /\ newLog' = newLog /\ pc'[w] # "central"
        /\ \A v \in Worker \ {w} : op'[v] = op[v] /\ pc'[v] = pc[v]
    BY <1>3 DEF UpdateRow, InsertRow, PostSave, Shape, OpShape
  <2> QED BY <2>1, QuietCentral
<1>4. ASSUME NEW w \in Worker, NEW d \in op[w].doomed, DeleteRow(w, d) PROVE CentralInv'
  <2>1. /\ log' = log /\ newLog' = newLog /\ pc'[w] # "central"
        /\ \A v \in Worker \ {w} : op'[v] = op[v] /\ pc'[v] = pc[v]
    BY <1>4 DEF DeleteRow, Shape, OpShape
  <2> QED BY <2>1, QuietCentral
<1>5. ASSUME NEW w \in Worker, NEW e \in op[w].todo, AppendDedicated(w, e) PROVE CentralInv'
  <2>1. /\ pc'[w] = "central" /\ op'[w].tx = op[w].tx /\ op'[w].entry = e
        /\ \A v \in Worker \ {w} : op'[v] = op[v] /\ pc'[v] = pc[v]
    BY <1>5 DEF AppendDedicated, Shape, OpShape, OpFields
  <2>2. CASE op[w].tx
    <3>1. /\ log' = log
          /\ \A v \in Worker : Range(newLog'[v]["central"]) = Range(newLog[v]["central"])
          /\ \A v \in Worker : Range(newLog'[v]["dedicated"]) =
               IF v = w THEN Range(newLog[v]["dedicated"]) \cup {e}
               ELSE Range(newLog[v]["dedicated"])
      <4>1. AppendTo(w, "dedicated", e) /\ {"central", "dedicated"} \subseteq Log
        BY <1>5 DEF AppendDedicated, Log
      <4>2. /\ log' = log
            /\ \A v \in Worker, k \in Log :
                 Range(newLog'[v][k]) = IF v = w /\ k = "dedicated"
                                        THEN Range(newLog[v][k]) \cup {e}
                                        ELSE Range(newLog[v][k])
        BY <2>2, <4>1, AppendToEffect
      <4> QED BY <4>1, <4>2
    <3> QED BY <2>1, <2>2, <3>1 DEF CentralInv, OwnLog
  <2>3. CASE ~op[w].tx
    BY <1>5, <2>1, <2>3, AppendToEffect DEF AppendDedicated, CentralInv, OwnLog, Log
  <2> QED BY <2>2, <2>3
<1>6. ASSUME NEW w \in Worker, AppendCentral(w) PROVE CentralInv'
  <2>1. /\ pc[w] = "central" /\ pc'[w] # "central"
        /\ \A v \in Worker \ {w} : op'[v] = op[v] /\ pc'[v] = pc[v]
    BY <1>6 DEF AppendCentral, Appended, Shape, OpShape
  <2>2. CASE op[w].tx
    <3>1. /\ log' = log
          /\ \A v \in Worker : Range(newLog'[v]["dedicated"]) = Range(newLog[v]["dedicated"])
          /\ \A v \in Worker : Range(newLog'[v]["central"]) =
               IF v = w THEN Range(newLog[v]["central"]) \cup {op[w].entry}
               ELSE Range(newLog[v]["central"])
      <4>1. AppendTo(w, "central", op[w].entry) /\ {"central", "dedicated"} \subseteq Log
        BY <1>6 DEF AppendCentral, Log
      <4>2. /\ log' = log
            /\ \A v \in Worker, k \in Log :
                 Range(newLog'[v][k]) = IF v = w /\ k = "central"
                                        THEN Range(newLog[v][k]) \cup {op[w].entry}
                                        ELSE Range(newLog[v][k])
        BY <2>2, <4>1, AppendToEffect
      <4> QED BY <4>1, <4>2
    <3>2. op[w].entry \in Range(newLog[w]["dedicated"])
      BY <2>1, <2>2 DEF CentralInv, OwnLog
    <3> QED BY <2>1, <3>1, <3>2 DEF CentralInv, OwnLog
  <2>3. CASE ~op[w].tx
    BY <1>6, <2>1, <2>3, AppendToEffect DEF AppendCentral, CentralInv, OwnLog, Log
  <2> QED BY <2>2, <2>3
<1>7. ASSUME NEW w \in Worker, EndOp(w) \/ CommitOuter(w) PROVE CentralInv'
  <2>1. CASE Commit(w)
    BY <2>1, CommitCentral
  <2>2. CASE EndOp(w) /\ outer[w]
    BY <2>2, QuietCentral DEF EndOp, committed, pending, Shape, OpShape
  <2> QED BY <1>7, <2>1, <2>2 DEF EndOp, CommitOuter
<1>8. ASSUME NEW w \in Worker, Raise(w) PROVE CentralInv'
  <2>1. /\ pc'[w] # "central" /\ log' = log
        /\ \A v \in Worker \ {w} : op'[v] = op[v] /\ pc'[v] = pc[v]
    BY <1>8 DEF Raise, Forget, committed, Shape, OpShape
  <2>2. /\ \A l \in Log : Range(newLog'[w][l]) = {}
        /\ \A v \in Worker \ {w} : newLog'[v] = newLog[v]
    BY <1>8, ForgetEffect DEF Raise
  <2> QED BY <2>1, <2>2 DEF CentralInv, OwnLog, Log
<1>9. CASE (\E w \in Worker : BeginOuter(w)) \/ UNCHANGED vars
  BY <1>9 DEF BeginOuter, vars, committed, pending, CentralInv, OwnLog
<1> QED BY <1>1, <1>2, <1>3, <1>4, <1>5, <1>6, <1>7, <1>8, <1>9
        DEF Next, Statement, InsertConflict, Fails, DeadlockDetected

\* Whatever fails between the two calls of append, the central log says nothing that the
\* dedicated one does not say.
THEOREM CentralFollowsCorrect == Spec => []CentralFollowsDedicated
<1>1. CentralInv => CentralFollowsDedicated
  BY DEF CentralInv, CentralFollowsDedicated
<1> QED BY <1>1, InitInv, ShapeStep, CentralStep, PTL DEF Spec

-----------------------------------------------------------------------------
(* Changes are logged.                                                     *)

\* What a step of w owes to ChangeInv, the others having changed nothing of theirs.
LEMMA ChangesFollow ==
  ASSUME OpShape, ChangeInv, NEW w \in Worker,
         \A v \in Worker \ {w} : /\ op'[v] = op[v] /\ pc'[v] = pc[v]
                                 /\ newChanges'[v] = newChanges[v]
                                 /\ \A l \in Log : Range(newLog'[v][l]) = Range(newLog[v][l]),
         \A l \in Log : Range(log[l]) \subseteq Range(log'[l]),
         failed \subseteq failed', opSeq' \in Nat, opSeq <= opSeq',
         \A c \in Range(changes') :
           \/ c \in Range(changes)
           \/ /\ c.id \in 1..opSeq'
              /\ \/ c.tx = TRUE /\ Logged(c)'
                 \/ c.tx = FALSE /\ c.id = op[w].id /\ op'[w].id = c.id,
         \A c \in Range(changes) :
           c.id = op[w].id /\ ~c.tx => Logged(c)' \/ c.id \in failed' \/ op'[w].id = c.id,
         OutrightInv(w)', PendingInv(w)'
  PROVE  ChangeInv'
<1>1. ASSUME NEW c, Logged(c) PROVE Logged(c)'
  BY <1>1 DEF Logged, Keys
<1>2. ChangesLogged' /\ \A c \in Range(changes') : c.id \in 1..opSeq'
  <2>1. ASSUME NEW c \in Range(changes')
        PROVE  /\ c.id \in 1..opSeq'
               /\ \/ Logged(c)'
                  \/ ~c.tx /\ (c.id \in failed' \/ \E v \in Worker : op'[v].id = c.id)
    <3>1. CASE c \in Range(changes)
      BY <1>1, <3>1 DEF ChangeInv, ChangesLogged, OpShape
    <3>2. CASE c \notin Range(changes)
      BY <3>2
    <3> QED BY <3>1, <3>2
  <2> QED BY <2>1 DEF ChangesLogged
<1>3. ASSUME NEW v \in Worker, v # w PROVE OutrightInv(v)' /\ PendingInv(v)'
  <2>1. \A c : ToCome(v, c)' <=> ToCome(v, c)
    BY <1>3 DEF ToCome
  <2>2. ASSUME NEW c \in Range(changes'), c.id = op[v].id, ~c.tx PROVE c \in Range(changes)
    BY <1>3, <2>2 DEF OpShape, NoOp
  <2>3. OutrightInv(v)'
    BY <1>1, <1>3, <2>1, <2>2 DEF ChangeInv, OutrightInv
  <2>4. \A l \in Log : Keys(newLog'[v][l]) = Keys(newLog[v][l])
    BY <1>3 DEF Keys
  <2>5. PendingInv(v)'
    BY <1>3, <2>1, <2>4 DEF ChangeInv, PendingInv, OpShape
  <2> QED BY <2>3, <2>5
<1> QED BY <1>2, <1>3 DEF ChangeInv

\* The same when no change is made and none is logged.
LEMMA QuietChanges ==
  ASSUME OpShape, ChangeInv, NEW w \in Worker,
         log' = log, newLog' = newLog, changes' = changes, newChanges' = newChanges,
         failed' = failed, opSeq' \in Nat, opSeq <= opSeq',
         \A v \in Worker \ {w} : op'[v] = op[v] /\ pc'[v] = pc[v],
         pc[w] \notin {"delete", "dedicated", "central"},
         op'[w].id \in {0, opSeq + 1, op[w].id},
         pc'[w] = "delete" => op'[w].tx
  PROVE  ChangeInv'
<1>1. \A c : ~ToCome(w, c)
  BY DEF ToCome
<1>2. \A c : Logged(c)' <=> Logged(c)
  BY DEF Logged
<1>3. OutrightInv(w)'
  <2> SUFFICES ASSUME NEW c \in Range(changes), c.id = op'[w].id, ~c.tx PROVE Logged(c)'
    BY DEF OutrightInv
  <2>1. c.id = op[w].id
    BY DEF ChangeInv, OpShape
  <2> QED BY <1>1, <1>2, <2>1 DEF ChangeInv, OutrightInv
<1>4. PendingInv(w)'
  BY <1>1 DEF ChangeInv, PendingInv, OpShape
<1>5. \A c \in Range(changes) : c.id = op[w].id /\ ~c.tx => Logged(c)'
  BY <1>1, <1>2 DEF ChangeInv, OutrightInv
<1> QED BY <1>3, <1>4, <1>5, ChangesFollow

\* The same when the step makes no change, but may log some.
LEMMA LoggingChanges ==
  ASSUME Shape, ChangeInv, NEW w \in Worker,
         \A v \in Worker \ {w} : op'[v] = op[v] /\ pc'[v] = pc[v],
         \A v \in Worker \ {w}, l \in Log : Range(newLog'[v][l]) = Range(newLog[v][l]),
         \A l \in Log : Range(log[l]) \subseteq Range(log'[l]),
         changes' = changes, newChanges' = newChanges, failed' = failed, opSeq' = opSeq,
         op'[w].id = op[w].id, OutrightInv(w)', PendingInv(w)'
  PROVE  ChangeInv'
<1>1. OpShape /\ opSeq' \in Nat /\ opSeq <= opSeq' /\ failed \subseteq failed'
  BY DEF Shape, OpShape
<1>2. \A v \in Worker \ {w} : /\ op'[v] = op[v] /\ pc'[v] = pc[v]
                              /\ newChanges'[v] = newChanges[v]
                              /\ \A l \in Log : Range(newLog'[v][l]) = Range(newLog[v][l])
  OBVIOUS
<1>3. \A c \in Range(changes') : c \in Range(changes)
  OBVIOUS
<1>4. \A c \in Range(changes) : c.id = op[w].id => op'[w].id = c.id
  OBVIOUS
<1> QED BY <1>1, <1>2, <1>3, <1>4, ChangesFollow

LEMMA StartChanges ==
  ASSUME OpShape, OpShape', ChangeInv, NEW w \in Worker, NEW kind, NEW o, NEW label,
         Start(w, kind, o, label), o.id = opSeq + 1, label = "delete" => o.tx
  PROVE  ChangeInv'
<1>1. /\ pc[w] = "idle" /\ pc'[w] = label /\ op'[w] = o
      /\ opSeq' = opSeq + 1 /\ opSeq \in Nat
      /\ \A v \in Worker \ {w} : op'[v] = op[v] /\ pc'[v] = pc[v]
      /\ log' = log /\ newLog' = newLog /\ changes' = changes /\ newChanges' = newChanges
      /\ failed' = failed
  BY DEF Start, committed, pending, OpShape
<1> QED BY <1>1, QuietChanges

\* UPDATE, INSERT and DELETE: w's entry of the change it has just made is to come.
LEMMA WriteChanges ==
  ASSUME Shape, ChangeInv, NEW w \in Worker, pc[w] # "idle", NEW o, NEW action, NEW new,
         Write(w, op[w].tx, o, action, new),
         log' = log, newLog' = newLog, failed' = failed, opSeq' = opSeq,
         \A v \in Worker \ {w} : op'[v] = op[v] /\ pc'[v] = pc[v],
         op'[w].id = op[w].id, op'[w].tx = op[w].tx,
         pc'[w] \in {"delete", "dedicated"}, pc'[w] = "delete" => op[w].tx,
         \E e \in op'[w].todo : e.id = op[w].id /\ e.obj = o,
         \A c : ToCome(w, c) => ToCome(w, c)'
  PROVE  ChangeInv'
<1>1. PICK c : /\ c.id = op[w].id /\ c.obj = o /\ c.tx = op[w].tx
               /\ IF op[w].tx
                  THEN /\ changes' = changes
                       /\ Range(newChanges'[w]) = Range(newChanges[w]) \cup {c}
                       /\ \A v \in Worker \ {w} : newChanges'[v] = newChanges[v]
                  ELSE /\ newChanges' = newChanges
                       /\ Range(changes') = Range(changes) \cup {c}
  BY WriteEffect
<1>2. ToCome(w, c)'
  BY <1>1 DEF ToCome
<1>3. \A d : Logged(d)' <=> Logged(d)
  BY DEF Logged
<1>4. c.id \in 1..opSeq /\ c.tx \in BOOLEAN
  BY <1>1 DEF Shape, OpShape
<1>5. OutrightInv(w)'
  <2> SUFFICES ASSUME NEW d \in Range(changes'), d.id = op'[w].id, ~d.tx
               PROVE  Logged(d)' \/ ToCome(w, d)'
    BY DEF OutrightInv
  <2>1. d \in Range(changes) \/ d = c
    BY <1>1
  <2> QED BY <1>2, <1>3, <2>1 DEF ChangeInv, OutrightInv
<1>6. PendingInv(w)'
  <2>1. ASSUME NEW d \in Range(newChanges'[w])
        PROVE  /\ d.tx = TRUE /\ d.id \in 1..opSeq
               /\ (\A l \in Log : <<d.id, d.obj>> \in Keys(newLog[w][l])) \/ ToCome(w, d)'
    <3>1. CASE d \in Range(newChanges[w])
      BY <3>1 DEF ChangeInv, PendingInv
    <3>2. CASE d \notin Range(newChanges[w])
      BY <1>1, <1>2, <1>4, <3>2
    <3> QED BY <3>1, <3>2
  <2> QED BY <2>1 DEF PendingInv
<1>7. \A v \in Worker \ {w} : newChanges'[v] = newChanges[v]
  BY <1>1
<1>8. \A d \in Range(changes') :
        \/ d \in Range(changes)
        \/ d.id \in 1..opSeq /\ d.tx = FALSE /\ d.id = op[w].id /\ op'[w].id = d.id
  BY <1>1, <1>4
<1>9. opSeq \in Nat
  BY DEF Shape, OpShape
<1> QED
  <2>1. OpShape
    BY DEF Shape
  <2>2. /\ \A v \in Worker \ {w} : /\ op'[v] = op[v] /\ pc'[v] = pc[v]
                                   /\ newChanges'[v] = newChanges[v]
                                   /\ \A l \in Log : Range(newLog'[v][l]) = Range(newLog[v][l])
        /\ \A l \in Log : Range(log[l]) \subseteq Range(log'[l])
        /\ failed \subseteq failed' /\ opSeq' \in Nat /\ opSeq <= opSeq'
    BY <1>7, <1>9
  <2>3. \A d \in Range(changes') :
          \/ d \in Range(changes)
          \/ /\ d.id \in 1..opSeq'
             /\ \/ d.tx = TRUE /\ Logged(d)'
                \/ d.tx = FALSE /\ d.id = op[w].id /\ op'[w].id = d.id
    BY <1>8
  <2>4. \A d \in Range(changes) :
          d.id = op[w].id /\ ~d.tx => Logged(d)' \/ d.id \in failed' \/ op'[w].id = d.id
    BY <1>1
  <2> QED BY <1>5, <1>6, <2>1, <2>2, <2>3, <2>4, ChangesFollow

\* The end of an operation or transaction, when all it owed has been logged.
LEMMA CommitChanges ==
  ASSUME Shape, ChangeInv, NEW w \in Worker, Commit(w), failed' = failed,
         pc[w] \in {"idle", "done"}
  PROVE  ChangeInv'
<1>1. /\ \A v \in Worker \ {w} : op'[v] = op[v] /\ pc'[v] = pc[v]
      /\ pc'[w] = "idle" /\ op'[w] = NoOp /\ opSeq' = opSeq /\ opSeq \in Nat
  BY DEF Commit, Forget, Shape, OpShape
<1>2. /\ Range(changes') = Range(changes) \cup Range(newChanges[w])
      /\ \A l \in Log : Range(log'[l]) = Range(log[l]) \cup Range(newLog[w][l])
      /\ Range(newChanges'[w]) = {}
      /\ \A v \in Worker \ {w} : newChanges'[v] = newChanges[v] /\ newLog'[v] = newLog[v]
  BY CommitEffect
<1>3. \A c : ~ToCome(w, c)
  BY DEF ToCome
<1>4. ASSUME NEW c \in Range(newChanges[w]) PROVE c.tx = TRUE /\ c.id \in 1..opSeq /\ Logged(c)'
  BY <1>2, <1>3 DEF ChangeInv, PendingInv, Logged, Keys
<1>5. ASSUME NEW c \in Range(changes), c.id = op[w].id, ~c.tx PROVE Logged(c)'
  BY <1>2, <1>3, <1>5 DEF ChangeInv, OutrightInv, Logged, Keys
<1>6. \A c \in Range(changes') : c.id \in 1..opSeq
  BY <1>2, <1>4 DEF ChangeInv
<1>7. OutrightInv(w)' /\ PendingInv(w)'
  BY <1>1, <1>2, <1>6 DEF OutrightInv, PendingInv, NoOp
<1> QED
  <2>1. OpShape
    BY DEF Shape
  <2>2. /\ \A v \in Worker \ {w} : /\ op'[v] = op[v] /\ pc'[v] = pc[v]
                                   /\ newChanges'[v] = newChanges[v]
                                   /\ \A l \in Log : Range(newLog'[v][l]) = Range(newLog[v][l])
        /\ \A l \in Log : Range(log[l]) \subseteq Range(log'[l])
        /\ failed \subseteq failed' /\ opSeq' \in Nat /\ opSeq <= opSeq'
    BY <1>1, <1>2
  <2>3. \A c \in Range(changes') :
          \/ c \in Range(changes)
          \/ /\ c.id \in 1..opSeq'
             /\ \/ c.tx = TRUE /\ Logged(c)'
                \/ c.tx = FALSE /\ c.id = op[w].id /\ op'[w].id = c.id
    BY <1>1, <1>2, <1>4
  <2>4. \A c \in Range(changes) :
          c.id = op[w].id /\ ~c.tx => Logged(c)' \/ c.id \in failed' \/ op'[w].id = c.id
    BY <1>5
  <2> QED BY <1>7, <2>1, <2>2, <2>3, <2>4, ChangesFollow

LEMMA RaiseChanges ==
  ASSUME Shape, ChangeInv, NEW w \in Worker, Raise(w)
  PROVE  ChangeInv'
<1>1. /\ \A v \in Worker \ {w} : op'[v] = op[v] /\ pc'[v] = pc[v]
      /\ pc'[w] = "idle" /\ op'[w] = NoOp /\ opSeq' = opSeq /\ opSeq \in Nat
      /\ log' = log /\ changes' = changes /\ failed' = failed \cup ({op[w].id} \ {0})
  BY DEF Raise, Forget, committed, Shape, OpShape
<1>2. /\ Range(newChanges'[w]) = {}
      /\ \A v \in Worker \ {w} : newChanges'[v] = newChanges[v] /\ newLog'[v] = newLog[v]
  BY ForgetEffect DEF Raise
<1>3. \A c \in Range(changes) : c.id # 0
  BY DEF ChangeInv, Shape, OpShape
<1>4. OutrightInv(w)' /\ PendingInv(w)'
  BY <1>1, <1>2, <1>3 DEF OutrightInv, PendingInv, NoOp
<1>5. \A c \in Range(changes) : c.id = op[w].id => c.id \in failed'
  BY <1>1, <1>3
<1> QED
  <2>1. OpShape
    BY DEF Shape
  <2>2. /\ \A v \in Worker \ {w} : /\ op'[v] = op[v] /\ pc'[v] = pc[v]
                                   /\ newChanges'[v] = newChanges[v]
                                   /\ \A l \in Log : Range(newLog'[v][l]) = Range(newLog[v][l])
        /\ \A l \in Log : Range(log[l]) \subseteq Range(log'[l])
        /\ failed \subseteq failed' /\ opSeq' \in Nat /\ opSeq <= opSeq'
    BY <1>1, <1>2
  <2>3. \A c \in Range(changes') :
          \/ c \in Range(changes)
          \/ /\ c.id \in 1..opSeq'
             /\ \/ c.tx = TRUE /\ Logged(c)'
                \/ c.tx = FALSE /\ c.id = op[w].id /\ op'[w].id = c.id
    BY <1>1
  <2>4. \A c \in Range(changes) :
          c.id = op[w].id /\ ~c.tx => Logged(c)' \/ c.id \in failed' \/ op'[w].id = c.id
    BY <1>5
  <2> QED BY <1>4, <2>1, <2>2, <2>3, <2>4, ChangesFollow

\* The append to the central log is the last of a change: both logs have its entry then.
LEMMA AppendCentralChanges ==
  ASSUME Shape, CentralInv, ChangeInv, NEW w \in Worker, AppendCentral(w)
  PROVE  ChangeInv'
<1> DEFINE e == op[w].entry
<1>1. /\ \A v \in Worker \ {w} : op'[v] = op[v] /\ pc'[v] = pc[v]
      /\ op'[w].id = op[w].id /\ op'[w].tx = op[w].tx /\ op[w].tx \in BOOLEAN
      /\ op'[w].todo = op[w].todo \ {e} /\ (op'[w].todo # {} => pc'[w] = "dedicated")
      /\ pc[w] = "central" /\ pc'[w] \in {"dedicated", "collect", "done"}
  BY DEF AppendCentral, Appended, Shape, OpShape, OpFields
<1>2. AppendTo(w, "central", e) /\ Log = {"central", "dedicated"}
  BY DEF AppendCentral, Log
<1>3. /\ \A l \in Log : Range(log[l]) \subseteq Range(log'[l])
      /\ \A l \in Log : Range(newLog[w][l]) \subseteq Range(newLog'[w][l])
      /\ \A v \in Worker \ {w}, l \in Log : Range(newLog'[v][l]) = Range(newLog[v][l])
      /\ changes' = changes /\ newChanges' = newChanges /\ failed' = failed /\ opSeq' = opSeq
      /\ IF op[w].tx THEN e \in Range(newLog'[w]["central"]) ELSE e \in Range(log'["central"])
  BY <1>2, AppendToGrows
<1>4. IF op[w].tx THEN e \in Range(newLog'[w]["dedicated"]) ELSE e \in Range(log'["dedicated"])
  BY <1>1, <1>2, <1>3 DEF CentralInv, OwnLog
<1> HIDE DEF e
<1>5. ASSUME NEW c, ToCome(w, c), ~ToCome(w, c)'
      PROVE  IF op[w].tx THEN \A l \in Log : <<c.id, c.obj>> \in Keys(newLog'[w][l])
             ELSE Logged(c)'
  <2>1. PICK d \in op[w].todo : d.id = c.id /\ d.obj = c.obj
    BY <1>5 DEF ToCome
  <2>2. d = e
    BY <1>1, <1>5, <2>1 DEF ToCome
  <2>3. <<c.id, c.obj>> = <<e.id, e.obj>>
    BY <2>1, <2>2
  <2> QED BY <1>2, <1>3, <1>4, <2>3 DEF Logged, Keys
<1>6. ASSUME NEW c, Logged(c) PROVE Logged(c)'
  BY <1>3, <1>6 DEF Logged, Keys
<1>7. OutrightInv(w)'
  <2> SUFFICES ASSUME NEW c \in Range(changes), c.id = op[w].id, ~c.tx
               PROVE  Logged(c)' \/ ToCome(w, c)'
    BY <1>1, <1>3 DEF OutrightInv
  <2>1. Logged(c) \/ ToCome(w, c)
    BY DEF ChangeInv, OutrightInv
  <2>2. ToCome(w, c) => ~op[w].tx
    BY <1>1 DEF ToCome
  <2> QED BY <1>5, <1>6, <2>1, <2>2
<1>8. PendingInv(w)'
  <2>1. ASSUME NEW c \in Range(newChanges[w])
        PROVE  /\ c.tx = TRUE /\ c.id \in 1..opSeq
               /\ (\A l \in Log : <<c.id, c.obj>> \in Keys(newLog'[w][l])) \/ ToCome(w, c)'
    <3>1. c.tx = TRUE /\ c.id \in 1..opSeq
      BY DEF ChangeInv, PendingInv
    <3>2. CASE \A l \in Log : <<c.id, c.obj>> \in Keys(newLog[w][l])
      BY <1>3, <3>1, <3>2 DEF Keys
    <3>3. CASE ToCome(w, c)
      <4>1. op[w].tx
        BY <3>1, <3>3 DEF ToCome
      <4> QED BY <1>5, <3>1, <3>3, <4>1
    <3> QED BY <3>2, <3>3 DEF ChangeInv, PendingInv
  <2> QED BY <1>1, <1>3, <2>1 DEF PendingInv
<1> QED BY <1>1, <1>3, <1>7, <1>8, LoggingChanges

LEMMA AppendDedicatedChanges ==
  ASSUME Shape, ChangeInv, NEW w \in Worker, NEW e \in op[w].todo, AppendDedicated(w, e)
  PROVE  ChangeInv'
<1>1. /\ \A v \in Worker \ {w} : op'[v] = op[v] /\ pc'[v] = pc[v]
      /\ op'[w].id = op[w].id /\ op'[w].tx = op[w].tx /\ op'[w].todo = op[w].todo
      /\ pc'[w] = "central"
  BY DEF AppendDedicated, Shape, OpShape, OpFields
<1>2. AppendTo(w, "dedicated", e) /\ "dedicated" \in Log
  BY DEF AppendDedicated, Log
<1>3. /\ \A l \in Log : Range(log[l]) \subseteq Range(log'[l])
      /\ \A l \in Log : Range(newLog[w][l]) \subseteq Range(newLog'[w][l])
      /\ \A v \in Worker \ {w}, l \in Log : Range(newLog'[v][l]) = Range(newLog[v][l])
      /\ changes' = changes /\ newChanges' = newChanges /\ failed' = failed /\ opSeq' = opSeq
  BY <1>2, AppendToGrows
<1>4. \A c : ToCome(w, c) => ToCome(w, c)'
  BY <1>1 DEF ToCome
<1>5. ASSUME NEW c, Logged(c) PROVE Logged(c)'
  BY <1>3, <1>5 DEF Logged, Keys
<1>6. OutrightInv(w)'
  BY <1>1, <1>3, <1>4, <1>5 DEF ChangeInv, OutrightInv
<1>7. PendingInv(w)'
  <2>1. ASSUME NEW c \in Range(newChanges[w])
        PROVE  /\ c.tx = TRUE /\ c.id \in 1..opSeq
               /\ (\A l \in Log : <<c.id, c.obj>> \in Keys(newLog'[w][l])) \/ ToCome(w, c)'
    BY <1>3, <1>4 DEF ChangeInv, PendingInv, Keys
  <2> QED BY <1>1, <1>3, <2>1 DEF PendingInv
<1> QED BY <1>1, <1>3, <1>6, <1>7, LoggingChanges

LEMMA ChangeStep ==
  ASSUME Registered PROVE Shape /\ CentralInv /\ ChangeInv /\ [Next]_vars => ChangeInv'
<1> SUFFICES ASSUME Shape, CentralInv, ChangeInv, [Next]_vars PROVE ChangeInv'
  OBVIOUS
<1>0. OpShape /\ OpShape' /\ opSeq \in Nat
  BY ShapeStep DEF Shape, OpShape
<1>1. ASSUME NEW w \in Worker, Call(w) PROVE ChangeInv'
  <2>1. DOMAIN Operation(w) = OpFields /\ Operation(w).id = opSeq + 1
    BY DEF Operation, OpFields
  <2>2. ASSUME NEW o \in Obj, NEW v \in Value, CreateCall(w, o, v) \/ SaveCall(w, o, v)
        PROVE  ChangeInv'
    BY <1>0, <2>1, <2>2, StartChanges DEF CreateCall, SaveCall, OpFields
  <2>3. ASSUME NEW o \in Obj, DeleteCall(w, o) PROVE ChangeInv'
    BY <1>0, <2>1, <2>3, StartChanges DEF DeleteCall, OpFields
  <2>4. ASSUME BulkDeleteCall(w) PROVE ChangeInv'
    BY <1>0, <2>1, <2>4, StartChanges DEF BulkDeleteCall, OpFields
  <2> QED BY <1>1, <2>2, <2>3, <2>4 DEF Call
<1>2. ASSUME NEW w \in Worker, PreSave(w) \/ PreSaveFails(w) \/ UpdateNothing(w) \/ Collect(w)
      PROVE  ChangeInv'
  <2>1. /\ log' = log /\ newLog' = newLog /\ changes' = changes /\ newChanges' = newChanges
        /\ failed' = failed /\ opSeq' = opSeq
    BY <1>2 DEF PreSave, PreSaveFails, UpdateNothing, Collect, committed, pending
  <2>2. /\ \A v \in Worker \ {w} : op'[v] = op[v] /\ pc'[v] = pc[v]
        /\ pc[w] \notin {"delete", "dedicated", "central"}
    BY <1>2 DEF PreSave, PreSaveFails, UpdateNothing, Collect, Shape, OpShape
  <2>3. op'[w].id = op[w].id /\ (pc'[w] = "delete" => op'[w].tx)
    <3>1. CASE PreSave(w)
      BY <3>1 DEF PreSave, Shape, OpShape, OpFields
    <3>2. CASE PreSaveFails(w) \/ UpdateNothing(w)
      BY <3>2 DEF PreSaveFails, UpdateNothing, Shape, OpShape
    <3>3. CASE Collect(w)
      BY <3>3 DEF Collect, Shape, OpShape, OpFields
    <3> QED BY <1>2, <3>1, <3>2, <3>3
  <2> QED BY <1>0, <2>1, <2>2, <2>3, QuietChanges
<1>3. ASSUME NEW w \in Worker, NEW action, NEW old,
             Write(w, op[w].tx, op[w].obj, action, op[w].new), PostSave(w, action, old),
             pc[w] \in {"update", "insert"},
             log' = log, newLog' = newLog, failed' = failed, opSeq' = opSeq
      PROVE  ChangeInv'
  <2>1. /\ \A v \in Worker \ {w} : op'[v] = op[v] /\ pc'[v] = pc[v]
        /\ op'[w].id = op[w].id /\ op'[w].tx = op[w].tx /\ pc'[w] = "dedicated"
        /\ op'[w].todo = {EntryOf(w, op[w].obj, action, old, op[w].new)}
    BY <1>3 DEF PostSave, Shape, OpShape, OpFields
  <2>2. \E e \in op'[w].todo : e.id = op[w].id /\ e.obj = op[w].obj
    BY <2>1 DEF EntryOf
  <2>3. \A c : ~ToCome(w, c)
    BY <1>3 DEF ToCome
  <2> QED BY <1>3, <2>1, <2>2, <2>3, WriteChanges
<1>4. ASSUME NEW w \in Worker, NEW d \in op[w].doomed, DeleteRow(w, d) PROVE ChangeInv'
  <2> DEFINE new == EntryOf(w, d.obj, "DELETE", d.old, Absent)
  <2>1. /\ \A v \in Worker \ {w} : op'[v] = op[v] /\ pc'[v] = pc[v]
        /\ op'[w].id = op[w].id /\ op'[w].tx = op[w].tx /\ pc'[w] \in {"delete", "dedicated"}
        /\ op'[w].todo = op[w].todo \cup {new}
        /\ pc[w] = "delete" /\ op[w].tx
    BY <1>4 DEF DeleteRow, Shape, OpShape, OpFields, ChangeInv, PendingInv
  <2>2. log' = log /\ newLog' = newLog /\ failed' = failed /\ opSeq' = opSeq
    BY <1>4 DEF DeleteRow
  <2>3. \A c : ToCome(w, c) => ToCome(w, c)'
    BY <2>1 DEF ToCome
  <2>4. \E e \in op'[w].todo : e.id = op[w].id /\ e.obj = d.obj
    <3>1. new.id = op[w].id /\ new.obj = d.obj
      BY DEF EntryOf
    <3> HIDE DEF new
    <3> QED BY <2>1, <3>1
  <2>5. CASE Write(w, op[w].tx, d.obj, "DELETE", Absent)
    BY <2>1, <2>2, <2>3, <2>4, <2>5, WriteChanges
  <2>6. CASE UNCHANGED <<row, changes, newChanges>>
    <3>1. changes' = changes /\ newChanges' = newChanges
      BY <2>6
    <3>2. \A c : Logged(c)' <=> Logged(c)
      BY <2>2 DEF Logged
    <3>3. OutrightInv(w)'
      BY <2>1, <2>3, <3>1, <3>2 DEF ChangeInv, OutrightInv
    <3>4. PendingInv(w)'
      BY <2>1, <2>2, <2>3, <3>1 DEF ChangeInv, PendingInv
    <3> QED BY <2>1, <2>2, <3>1, <3>3, <3>4, LoggingChanges
  <2> QED BY <1>4, <2>5, <2>6 DEF DeleteRow
<1>5. ASSUME NEW w \in Worker, EndOp(w) \/ CommitOuter(w) PROVE ChangeInv'
  <2>1. pc[w] \in {"idle", "done"}
    BY <1>5 DEF EndOp, CommitOuter
  <2>2. CASE Commit(w) /\ failed' = failed
    BY <2>1, <2>2, CommitChanges
  <2>3. CASE EndOp(w) /\ outer[w]
    <3>1. /\ log' = log /\ newLog' = newLog /\ changes' = changes /\ newChanges' = newChanges
          /\ failed' = failed /\ opSeq' = opSeq
          /\ \A v \in Worker \ {w} : op'[v] = op[v] /\ pc'[v] = pc[v]
          /\ op'[w].id = 0 /\ pc'[w] = "idle"
      BY <2>3 DEF EndOp, committed, pending, Shape, OpShape, NoOp
    <3> QED BY <1>0, <2>1, <3>1, QuietChanges
  <2> QED BY <1>5, <2>2, <2>3 DEF EndOp, CommitOuter, Commit
<1>6. CASE (\E w \in Worker : BeginOuter(w)) \/ UNCHANGED vars
  <2>1. /\ log' = log /\ newLog' = newLog /\ changes' = changes /\ newChanges' = newChanges
        /\ pc' = pc /\ op' = op /\ opSeq' = opSeq /\ failed' = failed
    BY <1>6 DEF BeginOuter, vars, committed, pending
  <2>2. \A c : Logged(c)' <=> Logged(c)
    BY <2>1 DEF Logged
  <2>3. \A w, c : ToCome(w, c)' <=> ToCome(w, c)
    BY <2>1 DEF ToCome
  <2>4. ChangesLogged'
    BY <2>1, <2>2 DEF ChangeInv, ChangesLogged
  <2>5. ASSUME NEW w \in Worker PROVE OutrightInv(w)' /\ PendingInv(w)'
    BY <2>1, <2>2, <2>3 DEF ChangeInv, OutrightInv, PendingInv
  <2> QED BY <2>1, <2>4, <2>5 DEF ChangeInv
<1> QED BY <1>1, <1>2, <1>3, <1>4, <1>5, <1>6, AppendDedicatedChanges, AppendCentralChanges,
           RaiseChanges
        DEF Next, Statement, UpdateRow, InsertRow, InsertConflict, Fails, DeadlockDetected

\* On a model with handlers every committed change is in both logs, unless it was saved
\* outside of transactions and the handler has not finished or something raised in it.
THEOREM ChangesLoggedCorrect ==
  ASSUME Registered PROVE Spec => []ChangesLogged
<1>1. ChangeInv => ChangesLogged
  BY DEF ChangeInv
<1> QED BY <1>1, InitInv, ShapeStep, CentralStep, ChangeStep, PTL DEF Spec

-----------------------------------------------------------------------------
(* No entry is invented: the invariant.                                    *)

\* No operation is an audit_bulk_delete.
NoBulk == "bulk" \notin Kinds

\* Entry e tells of a change in S; and S holds a deletion of row o.
Told(e, S) ==
  \E c \in S : /\ c.obj = e.obj /\ c.action = e.action
               /\ e.action # "DELETE" => c.id = e.id /\ c.new = e.new
Gone(o, S) == \E c \in S : c.obj = o /\ c.action = "DELETE"

\* The changes that are committed no later than what w's transaction appends.
Before(w) == Range(changes) \cup Range(newChanges[w])

LogInv == \A e \in Range(log["dedicated"]) : Told(e, Range(changes))

\* Entries of an open transaction, and entries to come.
EntriesInv(w) ==
  /\ \A e \in Range(newLog[w]["dedicated"]) : Told(e, Before(w))
  /\ \A e \in op[w].todo : Told(e, IF op[w].tx THEN Before(w) ELSE Range(changes))

\* A row to be deleted is there, or w has changed it, or it has been deleted meanwhile.
DoomedInv(w) ==
  \A d \in op[w].doomed :
    d.obj \in Obj /\ (d.obj \in Touched(w) \/ row[d.obj] # Absent \/ Gone(d.obj, Range(changes)))

\* Only a deletion makes a row absent, and handled deletions run in a transaction.
DeletionInv(w) ==
  /\ \A c \in Range(newChanges[w]) : c.new = Absent => c.action = "DELETE"
  /\ pc[w] \in {"pre_save", "update", "insert"} => op[w].new # Absent
  /\ pc[w] = "delete" /\ Registered => op[w].tx /\ ~op[w].filter

WorkerInv(w) == EntriesInv(w) /\ DoomedInv(w) /\ DeletionInv(w)
NoneInvented == DOMAIN row = Obj /\ LogInv /\ \A w \in Worker : WorkerInv(w)

-----------------------------------------------------------------------------
(* What a statement sees of a row.                                         *)

LEMMA MaxExists ==
  ASSUME NEW n \in Nat, NEW I, I \subseteq 1..n, I # {}
  PROVE  Max(I) \in I
<1> DEFINE T == {n - i : i \in I}
<1>1. T \subseteq Nat /\ T # {}
  <2>1. \A i \in I : n - i \in Nat /\ n - i \in T
    OBVIOUS
  <2> QED BY <2>1
<1>2. PICK R : R = {ss \in Nat \X Nat : ss[1] < ss[2]} /\ IsWellFoundedOn(R, Nat)
  BY NatLessThanWellFounded DEF OpToRel
<1>3. PICK x \in T : \A y \in T : <<y, x>> \notin R
  <2> HIDE DEF T
  <2> QED BY <1>1, <1>2, WFMin
<1>4. PICK i \in I : x = n - i
  OBVIOUS
<1>5. \A j \in I : i >= j
  <2> SUFFICES ASSUME NEW j \in I PROVE i >= j
    OBVIOUS
  <2>1. n - j \in T /\ n - j \in Nat /\ n - i \in Nat /\ i \in Int /\ j \in Int
    OBVIOUS
  <2>2. ~(n - j < n - i)
    BY <1>2, <1>3, <1>4, <2>1
  <2> QED BY <2>1, <2>2
<1> QED BY <1>5 DEF Max

\* It sees one of its own changes of the row, when there are some, or the default.
LEMMA LastOfTouched ==
  ASSUME NEW s, IsSequence(s), NEW o, NEW default
  PROVE  IF \E c \in Range(s) : c.obj = o
         THEN \E c \in Range(s) : c.obj = o /\ LastOf(s, o, default) = c.new
         ELSE LastOf(s, o, default) = default
<1> DEFINE I == {i \in 1..Len(s) : s[i].obj = o}
           last == SelectLastInSeq(s, LAMBDA c : c.obj = o)
<1>1. /\ Len(s) \in Nat /\ DOMAIN s = 1..Len(s)
      /\ \A c : c \in Range(s) <=> \E i \in 1..Len(s) : c = s[i]
  BY DEF IsSequence, Range
<1>2. last = IF I # {} THEN Max(I) ELSE 0
  BY DEF SelectLastInSeq
<1>3. LastOf(s, o, default) = IF last = 0 THEN default ELSE s[last].new
  BY DEF LastOf
<1>4. CASE I = {}
  BY <1>1, <1>2, <1>3, <1>4
<1>5. CASE I # {}
  <2>1. Max(I) \in I
    BY <1>1, <1>5, MaxExists
  <2>2. last \in 1..Len(s) /\ s[last].obj = o /\ last # 0
    BY <1>1, <1>2, <1>5, <2>1
  <2> HIDE DEF last
  <2> QED BY <1>1, <1>3, <2>2
<1> QED BY <1>4, <1>5

\* A row w no longer sees was deleted by w, or is not there for anyone.
LEMMA AbsentRow ==
  ASSUME Shape, NEW w \in Worker, DeletionInv(w), NEW o, Visible(w, o) = Absent
  PROVE  \/ o \in Touched(w) /\ Gone(o, Range(newChanges[w]))
         \/ o \notin Touched(w) /\ row[o] = Absent
<1>1. IsSequence(newChanges[w])
  BY DEF Shape, ChangeShape
<1>2. CASE \E c \in Range(newChanges[w]) : c.obj = o
  <2>1. PICK c \in Range(newChanges[w]) : c.obj = o /\ Visible(w, o) = c.new
    BY <1>1, <1>2, LastOfTouched DEF Visible
  <2> QED BY <2>1 DEF Gone, Touched, DeletionInv
<1>3. CASE ~\E c \in Range(newChanges[w]) : c.obj = o
  BY <1>1, <1>3, LastOfTouched DEF Visible, Touched
<1> QED BY <1>2, <1>3

\* A row w sees is one it has changed, or a committed one.
LEMMA PresentRow ==
  ASSUME Shape, NEW w \in Worker, NEW o, Visible(w, o) # Absent
  PROVE  o \in Touched(w) \/ row[o] # Absent
<1>1. IsSequence(newChanges[w])
  BY DEF Shape, ChangeShape
<1> QED BY <1>1, LastOfTouched DEF Visible, Touched

LEMMA ToldOfMore ==
  ASSUME NEW S, NEW T, S \subseteq T
  PROVE  /\ \A e : Told(e, S) => Told(e, T)
         /\ \A o : Gone(o, S) => Gone(o, T)
BY DEF Told, Gone

-----------------------------------------------------------------------------
(* Steps.                                                                  *)

\* A step of w that loses no committed change and makes rows absent only by deletion
\* leaves the other workers' part of the invariant alone.
LEMMA OthersKeep ==
  ASSUME NoneInvented, NEW w \in Worker, DOMAIN row' = Obj,
         Range(changes) \subseteq Range(changes'),
         \A o \in Obj : row'[o] = row[o] \/ row'[o] # Absent \/ Gone(o, Range(changes')),
         \A v \in Worker \ {w} : /\ op'[v] = op[v] /\ pc'[v] = pc[v]
                                 /\ newChanges'[v] = newChanges[v]
                                 /\ Range(newLog'[v]["dedicated"]) = Range(newLog[v]["dedicated"]),
         LogInv', WorkerInv(w)'
  PROVE  NoneInvented'
<1> SUFFICES ASSUME NEW v \in Worker \ {w} PROVE WorkerInv(v)'
  BY DEF NoneInvented
<1>1. WorkerInv(v)
  BY DEF NoneInvented
<1>2. Before(v) \subseteq Before(v)'
  BY DEF Before
<1>3. EntriesInv(v)'
  <2>1. \A e \in Range(newLog[v]["dedicated"]) : Told(e, Before(v)')
    BY <1>1, <1>2, ToldOfMore DEF WorkerInv, EntriesInv
  <2>2. \A e \in op[v].todo : Told(e, IF op[v].tx THEN Before(v)' ELSE Range(changes'))
    BY <1>1, <1>2, ToldOfMore DEF WorkerInv, EntriesInv
  <2> QED BY <2>1, <2>2 DEF EntriesInv
<1>4. DoomedInv(v)'
  BY <1>1, ToldOfMore DEF WorkerInv, DoomedInv, Touched
<1>5. DeletionInv(v)'
  BY <1>1 DEF WorkerInv, DeletionInv
<1> QED BY <1>3, <1>4, <1>5 DEF WorkerInv

\* A step that neither changes rows nor appends.
LEMMA QuietEntries ==
  ASSUME NoneInvented, NEW w \in Worker, UNCHANGED <<committed, pending>>,
         \A v \in Worker \ {w} : op'[v] = op[v] /\ pc'[v] = pc[v],
         op'[w].todo \subseteq op[w].todo, op'[w].todo # {} => (op[w].tx => op'[w].tx),
         DoomedInv(w)', DeletionInv(w)'
  PROVE  NoneInvented'
<1>1. UNCHANGED <<row, log, changes, newChanges, newLog>>
  BY DEF committed, pending
<1>2. LogInv'
  BY <1>1 DEF NoneInvented, LogInv
<1>3. Range(changes) \subseteq Before(w)
  BY DEF Before
<1>4. EntriesInv(w)'
  <2>1. EntriesInv(w)
    BY DEF NoneInvented, WorkerInv
  <2>2. Before(w)' = Before(w)
    BY <1>1 DEF Before
  <2>3. \A e \in op'[w].todo : Told(e, IF op'[w].tx THEN Before(w) ELSE Range(changes))
    BY <1>3, <2>1, ToldOfMore DEF EntriesInv
  <2> QED BY <1>1, <2>1, <2>2, <2>3 DEF EntriesInv
<1> QED BY <1>1, <1>2, <1>4, OthersKeep DEF NoneInvented, WorkerInv

\* A step of w adds change c, to its transaction if its operation runs in one.
Adds(w, c) ==
  IF op[w].tx THEN changes' = changes /\ Range(newChanges'[w]) = Range(newChanges[w]) \cup {c}
              ELSE newChanges' = newChanges /\ Range(changes') = Range(changes) \cup {c}
Makes(w, o, action, new) ==
  \E c : /\ c.id = op[w].id /\ c.obj = o /\ c.action = action /\ c.new = new
        /\ Adds(w, c)

\* Write makes one change, where the operation's changes go.
LEMMA WriteMakes ==
  ASSUME Shape, DOMAIN row = Obj, NEW w \in Worker, NEW o, NEW action, NEW new,
         Write(w, op[w].tx, o, action, new), new = Absent => action = "DELETE"
  PROVE  /\ DOMAIN row' = Obj
         /\ \A p \in Obj : row'[p] = row[p] \/ row'[p] # Absent \/ Gone(p, Range(changes'))
         /\ \A v \in Worker \ {w} : newChanges'[v] = newChanges[v]
         /\ Makes(w, o, action, new)
<1> DEFINE c == [id |-> op[w].id, obj |-> o, action |-> action, new |-> new,
                 replaced |-> Visible(w, o), tx |-> op[w].tx]
<1>1. c.id = op[w].id /\ c.obj = o /\ c.action = action /\ c.new = new
  OBVIOUS
<1>2. CASE op[w].tx
  <2>1. /\ newChanges' = [newChanges EXCEPT ![w] = Append(@, c)]
        /\ changes' = changes /\ row' = row
    BY <1>2 DEF Write
  <2> HIDE DEF c
  <2> QED BY <1>1, <1>2, <2>1, RangeOfAppend DEF Shape, ChangeShape, Makes, Adds
<1>3. CASE ~op[w].tx
  <2>1. /\ newChanges' = newChanges /\ changes' = Append(changes, c)
        /\ row' = [row EXCEPT ![o] = new]
    BY <1>3 DEF Write
  <2> HIDE DEF c
  <2>2. Range(changes') = Range(changes) \cup {c}
    BY <2>1, RangeOfAppend DEF Shape, ChangeShape
  <2>3. \A p \in Obj : row'[p] = row[p] \/ row'[p] # Absent \/ Gone(p, Range(changes'))
    BY <1>1, <2>1, <2>2 DEF Gone
  <2> QED BY <1>1, <1>3, <2>1, <2>2, <2>3 DEF Makes, Adds
<1> QED BY <1>2, <1>3

\* UPDATE, INSERT and DELETE, when what the worker then has to append and to delete is in
\* order.
LEMMA WriteEntries ==
  ASSUME Shape, NoneInvented, NEW w \in Worker, NEW o, NEW action, NEW new,
         Write(w, op[w].tx, o, action, new), new = Absent => action = "DELETE",
         log' = log, newLog' = newLog, op'[w].tx = op[w].tx,
         \A v \in Worker \ {w} : op'[v] = op[v] /\ pc'[v] = pc[v],
         \A e \in op'[w].todo :
           \/ e \in op[w].todo
           \/ e.obj = o /\ e.action = action /\ e.id = op[w].id /\ e.new = new,
         op'[w].doomed \subseteq op[w].doomed,
         pc'[w] \notin {"pre_save", "update", "insert"},
         pc'[w] = "delete" /\ Registered => op[w].tx /\ ~op'[w].filter
  PROVE  NoneInvented'
<1>0. DOMAIN row = Obj
  BY DEF NoneInvented
<1>1. PICK c : /\ c.id = op[w].id /\ c.obj = o /\ c.action = action /\ c.new = new
               /\ Adds(w, c)
  <2>1. Makes(w, o, action, new)
    BY <1>0, WriteMakes
  <2> QED BY <2>1 DEF Makes
<1>2. /\ DOMAIN row' = Obj
      /\ \A p \in Obj : row'[p] = row[p] \/ row'[p] # Absent \/ Gone(p, Range(changes'))
      /\ \A v \in Worker \ {w} : newChanges'[v] = newChanges[v]
  BY <1>0, WriteMakes
<1>3. /\ Range(changes) \subseteq Range(changes')
      /\ Range(newChanges[w]) \subseteq Range(newChanges'[w])
      /\ Before(w) \subseteq Before(w)'
  BY <1>1 DEF Before, Adds
<1>4. WorkerInv(w) /\ LogInv
  BY DEF NoneInvented
<1>5. LogInv'
  BY <1>3, <1>4, ToldOfMore DEF LogInv
<1>6. EntriesInv(w)'
  <2>1. \A e \in Range(newLog[w]["dedicated"]) : Told(e, Before(w)')
    BY <1>3, <1>4, ToldOfMore DEF WorkerInv, EntriesInv
  <2>2. ASSUME NEW e \in op'[w].todo
        PROVE  Told(e, IF op[w].tx THEN Before(w)' ELSE Range(changes'))
    <3>1. CASE e \in op[w].todo
      BY <1>3, <1>4, <3>1, ToldOfMore DEF WorkerInv, EntriesInv
    <3>2. CASE e.obj = o /\ e.action = action /\ e.id = op[w].id /\ e.new = new
      BY <1>1, <3>2 DEF Told, Before, Adds
    <3> QED BY <2>2, <3>1, <3>2
  <2> QED BY <2>1, <2>2 DEF EntriesInv
<1>7. DoomedInv(w)'
  <2> SUFFICES ASSUME NEW d \in op[w].doomed
               PROVE  /\ d.obj \in Obj
                      /\ \/ d.obj \in Touched(w)' \/ row'[d.obj] # Absent
                         \/ Gone(d.obj, Range(changes'))
    BY DEF DoomedInv
  <2>1. /\ d.obj \in Obj
        /\ d.obj \in Touched(w) \/ row[d.obj] # Absent \/ Gone(d.obj, Range(changes))
    BY <1>4 DEF WorkerInv, DoomedInv
  <2>2. Touched(w) \subseteq Touched(w)'
    BY <1>3 DEF Touched
  <2> QED BY <1>2, <1>3, <2>1, <2>2, ToldOfMore
<1>8. DeletionInv(w)'
  <2>1. \A x \in Range(newChanges'[w]) : x.new = Absent => x.action = "DELETE"
    BY <1>1, <1>4 DEF WorkerInv, DeletionInv, Adds
  <2> QED BY <2>1 DEF DeletionInv
<1> QED BY <1>2, <1>3, <1>5, <1>6, <1>7, <1>8, OthersKeep DEF WorkerInv

\* A deletion handled in w's transaction leaves an entry that tells of a change, whether
\* it found the row or not.
LEMMA DeleteEntries ==
  ASSUME Shape, NoneInvented, NEW w \in Worker, NEW d \in op[w].doomed, DeleteRow(w, d)
  PROVE  NoneInvented'
<1> DEFINE o == d.obj
           e == EntryOf(w, o, "DELETE", d.old, Absent)
<1>1. /\ pc[w] = "delete" /\ op'[w].doomed = op[w].doomed \ {d} /\ op'[w].tx = op[w].tx
      /\ op'[w].todo = op[w].todo \cup (IF Registered THEN {e} ELSE {})
      /\ op'[w].filter = op[w].filter
      /\ pc'[w] \in {"delete", "dedicated", "done"} /\ log' = log /\ newLog' = newLog
      /\ \A v \in Worker \ {w} : op'[v] = op[v] /\ pc'[v] = pc[v]
  BY DEF DeleteRow, Shape, OpShape, OpFields
<1>2. /\ e.obj = o /\ e.action = "DELETE" /\ e.id = op[w].id /\ e.new = Absent
  BY DEF EntryOf
<1>3. WorkerInv(w)
  BY DEF NoneInvented
<1>4. Registered => op[w].tx /\ ~op[w].filter
  BY <1>1, <1>3 DEF WorkerInv, DeletionInv
<1>5. CASE Write(w, op[w].tx, o, "DELETE", Absent)
  <2>1. \A x \in op'[w].todo :
          \/ x \in op[w].todo
          \/ x.obj = o /\ x.action = "DELETE" /\ x.id = op[w].id /\ x.new = Absent
    BY <1>1, <1>2
  <2>2. /\ op'[w].doomed \subseteq op[w].doomed /\ pc'[w] \notin {"pre_save", "update", "insert"}
        /\ pc'[w] = "delete" /\ Registered => op[w].tx /\ ~op'[w].filter
    BY <1>1, <1>4
  <2> HIDE DEF e, o
  <2> QED BY <1>1, <1>5, <2>1, <2>2, WriteEntries
<1>6. CASE ~Write(w, op[w].tx, o, "DELETE", Absent)
  <2>1. /\ UNCHANGED <<row, changes, newChanges>>
        /\ Registered => Visible(w, o) = Absent
    BY <1>4, <1>6 DEF DeleteRow
  <2>2. Registered => Told(e, Before(w))
    <3> SUFFICES ASSUME Registered PROVE Gone(o, Before(w))
      BY <1>2 DEF Told, Gone
    <3>1. CASE Gone(o, Range(newChanges[w]))
      BY <3>1 DEF Gone, Before
    <3>2. CASE o \notin Touched(w) /\ row[o] = Absent
      BY <1>3, <3>2 DEF WorkerInv, DoomedInv, Gone, Before
    <3> QED BY <1>3, <2>1, <3>1, <3>2, AbsentRow DEF WorkerInv
  <2>3. LogInv'
    BY <1>1, <2>1 DEF NoneInvented, LogInv
  <2>4. EntriesInv(w)'
    <3>1. Before(w)' = Before(w)
      BY <2>1 DEF Before
    <3>2. \A x \in op'[w].todo : x \in op[w].todo \/ (Registered /\ x = e)
      BY <1>1
    <3> HIDE DEF e
    <3> QED BY <1>1, <1>3, <1>4, <2>1, <2>2, <3>1, <3>2 DEF WorkerInv, EntriesInv
  <2>5. DoomedInv(w)'
    BY <1>1, <1>3, <2>1 DEF WorkerInv, DoomedInv, Touched
  <2>6. DeletionInv(w)'
    BY <1>1, <1>3, <1>4, <2>1 DEF WorkerInv, DeletionInv
  <2> QED BY <1>1, <2>1, <2>3, <2>4, <2>5, <2>6, OthersKeep DEF NoneInvented, WorkerInv
<1> QED BY <1>5, <1>6

\* The dedicated log gets an entry that was to come, and the central log is not looked at.
LEMMA AppendEntries ==
  ASSUME Shape, NoneInvented, NEW w \in Worker, NEW l \in Log, NEW e, AppendTo(w, l, e),
         l = "dedicated" => e \in op[w].todo, row' = row,
         \A v \in Worker \ {w} : op'[v] = op[v] /\ pc'[v] = pc[v],
         op'[w].todo \subseteq op[w].todo, op'[w].tx = op[w].tx,
         op'[w].doomed = op[w].doomed, pc'[w] \in {"dedicated", "central", "collect", "done"}
  PROVE  NoneInvented'
<1>1. /\ changes' = changes /\ newChanges' = newChanges /\ Before(w)' = Before(w)
      /\ Touched(w)' = Touched(w)
  BY DEF AppendTo, Before, Touched
<1>2. WorkerInv(w) /\ LogInv /\ DOMAIN row' = Obj
  BY DEF NoneInvented
<1>3. /\ op[w].tx => log' = log
      /\ op[w].tx => \A v \in Worker, k \in Log :
           Range(newLog'[v][k]) = IF v = w /\ k = l THEN Range(newLog[v][k]) \cup {e}
                                  ELSE Range(newLog[v][k])
      /\ ~op[w].tx => newLog' = newLog
      /\ ~op[w].tx => \A k \in Log : Range(log'[k]) = IF k = l THEN Range(log[k]) \cup {e}
                                                      ELSE Range(log[k])
  BY AppendToEffect
<1>4. "dedicated" \in Log
  BY DEF Log
<1>5. LogInv'
  <2> SUFFICES ASSUME NEW x \in Range(log'["dedicated"]) PROVE Told(x, Range(changes))
    BY <1>1 DEF LogInv
  <2>1. x \in Range(log["dedicated"]) \/ (~op[w].tx /\ x \in op[w].todo)
    BY <1>3, <1>4
  <2> QED BY <1>2, <2>1 DEF LogInv, WorkerInv, EntriesInv
<1>6. EntriesInv(w)'
  <2>1. ASSUME NEW x \in Range(newLog'[w]["dedicated"]) PROVE Told(x, Before(w))
    <3>1. x \in Range(newLog[w]["dedicated"]) \/ (op[w].tx /\ x \in op[w].todo)
      BY <1>3, <1>4, <2>1
    <3> QED BY <1>2, <3>1 DEF WorkerInv, EntriesInv
  <2>2. \A x \in op'[w].todo : Told(x, IF op[w].tx THEN Before(w) ELSE Range(changes))
    BY <1>2 DEF WorkerInv, EntriesInv
  <2> QED BY <1>1, <2>1, <2>2 DEF EntriesInv
<1>7. DoomedInv(w)' /\ DeletionInv(w)'
  BY <1>1, <1>2 DEF WorkerInv, DoomedInv, DeletionInv
<1>8. \A v \in Worker \ {w} :
        Range(newLog'[v]["dedicated"]) = Range(newLog[v]["dedicated"])
  BY <1>3, <1>4
<1> QED BY <1>1, <1>2, <1>5, <1>6, <1>7, <1>8, OthersKeep DEF WorkerInv

\* COMMIT publishes changes and the entries that tell of them together.
LEMMA CommitEntries ==
  ASSUME Shape, NoneInvented, NEW w \in Worker, Commit(w) PROVE NoneInvented'
<1>1. /\ \A v \in Worker \ {w} : op'[v] = op[v] /\ pc'[v] = pc[v]
      /\ pc'[w] = "idle" /\ op'[w] = NoOp
      /\ row' = [o \in Obj |-> Visible(w, o)]
  BY DEF Commit, Forget, Shape, OpShape
<1>2. /\ Range(changes') = Range(changes) \cup Range(newChanges[w])
      /\ \A l \in Log : Range(log'[l]) = Range(log[l]) \cup Range(newLog[w][l])
      /\ Range(newChanges'[w]) = {} /\ \A l \in Log : Range(newLog'[w][l]) = {}
      /\ \A v \in Worker \ {w} : newChanges'[v] = newChanges[v] /\ newLog'[v] = newLog[v]
  BY CommitEffect
<1>3. WorkerInv(w) /\ LogInv /\ "dedicated" \in Log
  BY DEF NoneInvented, Log
<1>4. LogInv'
  <2>1. Before(w) = Range(changes') /\ Range(changes) \subseteq Range(changes')
    BY <1>2 DEF Before
  <2> QED BY <1>2, <1>3, <2>1, ToldOfMore DEF LogInv, WorkerInv, EntriesInv
<1>5. WorkerInv(w)'
  BY <1>1, <1>2, <1>3 DEF WorkerInv, EntriesInv, DoomedInv, DeletionInv, NoOp
<1>6. ASSUME NEW o \in Obj PROVE row'[o] = row[o] \/ row'[o] # Absent \/ Gone(o, Range(changes'))
  <2>1. CASE Visible(w, o) = Absent
    <3>1. Gone(o, Range(newChanges[w])) \/ row[o] = Absent
      BY <1>3, <2>1, AbsentRow DEF WorkerInv
    <3> QED BY <1>1, <1>2, <2>1, <3>1 DEF Gone
  <2>2. CASE Visible(w, o) # Absent
    BY <1>1, <2>2
  <2> QED BY <2>1, <2>2
<1> QED BY <1>1, <1>2, <1>4, <1>5, <1>6, OthersKeep

LEMMA StartEntries ==
  ASSUME NoneInvented, NEW w \in Worker, NEW kind, NEW o, NEW label, Start(w, kind, o, label),
         Shape, o.todo = {}, label \in {"insert", "pre_save"} => o.new # Absent,
         \A d \in o.doomed : d.obj \in Obj /\ (d.obj \in Touched(w) \/ row[d.obj] # Absent),
         label = "delete" /\ Registered => o.tx /\ ~o.filter, label # "update"
  PROVE  NoneInvented'
<1>1. /\ \A v \in Worker \ {w} : op'[v] = op[v] /\ pc'[v] = pc[v]
      /\ op'[w] = o /\ pc'[w] = label /\ UNCHANGED <<committed, pending>>
  BY DEF Start, Shape, OpShape
<1>2. UNCHANGED <<row, changes, newChanges>>
  BY <1>1 DEF committed, pending
<1>3. DoomedInv(w)'
  BY <1>1, <1>2 DEF DoomedInv, Touched
<1>4. DeletionInv(w)'
  BY <1>1, <1>2 DEF NoneInvented, WorkerInv, DeletionInv
<1> QED BY <1>1, <1>3, <1>4, QuietEntries

LEMMA InitEntries == Init => NoneInvented
BY EmptySequence DEF Init, NoneInvented, LogInv, WorkerInv, EntriesInv, DoomedInv, DeletionInv,
   NoOp, Log

LEMMA EntriesStep ==
  ASSUME NoBulk PROVE Shape /\ NoneInvented /\ [Next]_vars => NoneInvented'
<1> SUFFICES ASSUME Shape, NoneInvented, [Next]_vars PROVE NoneInvented'
  OBVIOUS
<1>1. ASSUME NEW w \in Worker, Call(w) PROVE NoneInvented'
  <2>1. ASSUME NEW o \in Obj, NEW v \in Value, CreateCall(w, o, v) \/ SaveCall(w, o, v)
        PROVE  NoneInvented'
    <3> DEFINE made == [Operation(w) EXCEPT !.obj = o, !.new = v]
    <3>1. made.todo = {} /\ made.doomed = {} /\ made.new # Absent
      BY ValueAssumption DEF Operation
    <3>2. \/ Start(w, "create", made, "insert")
          \/ Start(w, "save", made, "pre_save")
      BY <2>1 DEF CreateCall, SaveCall
    <3> HIDE DEF made
    <3> QED BY <3>1, <3>2, StartEntries
  <2>2. ASSUME NEW o \in Obj, DeleteCall(w, o) PROVE NoneInvented'
    <3> DEFINE made == [Operation(w) EXCEPT !.tx = @ \/ Registered,
                          !.doomed = {[obj |-> o, old |-> Visible(w, o)]}]
    <3>1. /\ made.todo = {} /\ (Registered => made.tx) /\ ~made.filter
          /\ \A d \in made.doomed : d.obj = o
      BY ModeAssumption DEF Operation, Shape, OpShape
    <3>2. Start(w, "delete", made, "delete") /\ (o \in Touched(w) \/ row[o] # Absent)
      BY <2>2, PresentRow DEF DeleteCall
    <3> HIDE DEF made
    <3> QED BY <3>1, <3>2, StartEntries
  <2>3. ~BulkDeleteCall(w)
    BY DEF BulkDeleteCall, Start, NoBulk
  <2> QED BY <1>1, <2>1, <2>2, <2>3 DEF Call
<1>2. ASSUME NEW w \in Worker, PreSave(w) \/ PreSaveFails(w) \/ UpdateNothing(w)
      PROVE  NoneInvented'
  <2>1. /\ UNCHANGED <<committed, pending>> /\ pc'[w] \in {"update", "insert"}
        /\ op'[w].todo = op[w].todo /\ op'[w].tx = op[w].tx /\ op'[w].doomed = op[w].doomed
        /\ op'[w].new = op[w].new /\ pc[w] \in {"pre_save", "update"}
        /\ \A v \in Worker \ {w} : op'[v] = op[v] /\ pc'[v] = pc[v]
    BY <1>2 DEF PreSave, PreSaveFails, UpdateNothing, Shape, OpShape, OpFields
  <2>2. UNCHANGED <<row, changes, newChanges>>
    BY <2>1 DEF committed, pending
  <2>3. DoomedInv(w)' /\ DeletionInv(w)'
    BY <2>1, <2>2 DEF NoneInvented, WorkerInv, DoomedInv, DeletionInv, Touched
  <2> QED BY <2>1, <2>3, QuietEntries
<1>3. ASSUME NEW w \in Worker, Collect(w) PROVE NoneInvented'
  <2>1. /\ UNCHANGED <<committed, pending>> /\ pc'[w] \in {"delete", "done"}
        /\ op'[w].todo = op[w].todo /\ op'[w].tx /\ op'[w].doomed = VisibleMatching(w)
        /\ op'[w].filter = ~Registered
        /\ \A v \in Worker \ {w} : op'[v] = op[v] /\ pc'[v] = pc[v]
    BY <1>3 DEF Collect, Shape, OpShape, OpFields
  <2>2. UNCHANGED <<row, changes, newChanges>>
    BY <2>1 DEF committed, pending
  <2>3. ASSUME NEW d \in VisibleMatching(w)
        PROVE  d.obj \in Obj /\ (d.obj \in Touched(w) \/ row[d.obj] # Absent)
    <3>1. d.obj \in Obj /\ Visible(w, d.obj) # Absent
      BY <2>3, ValueAssumption DEF VisibleMatching
    <3> QED BY <3>1, PresentRow
  <2>4. DoomedInv(w)' /\ DeletionInv(w)'
    BY <2>1, <2>2, <2>3 DEF NoneInvented, WorkerInv, DoomedInv, DeletionInv, Touched
  <2> QED BY <2>1, <2>4, QuietEntries
<1>4. ASSUME NEW w \in Worker, NEW action, NEW old, action # "DELETE",
             Write(w, op[w].tx, op[w].obj, action, op[w].new), PostSave(w, action, old),
             pc[w] \in {"update", "insert"}, log' = log, newLog' = newLog
      PROVE  NoneInvented'
  <2>1. op[w].new # Absent
    BY <1>4 DEF NoneInvented, WorkerInv, DeletionInv
  <2>2. /\ op'[w].tx = op[w].tx /\ op'[w].doomed = op[w].doomed
        /\ pc'[w] \in {"dedicated", "done"}
        /\ \A v \in Worker \ {w} : op'[v] = op[v] /\ pc'[v] = pc[v]
        /\ \/ op'[w].todo = op[w].todo
           \/ op'[w].todo = {EntryOf(w, op[w].obj, action, old, op[w].new)}
    BY <1>4 DEF PostSave, Shape, OpShape, OpFields
  <2>3. \A e \in op'[w].todo :
          \/ e \in op[w].todo
          \/ e.obj = op[w].obj /\ e.action = action /\ e.id = op[w].id /\ e.new = op[w].new
    BY <2>2 DEF EntryOf
  <2>4. /\ op[w].new = Absent => action = "DELETE"
        /\ pc'[w] \notin {"pre_save", "update", "insert"}
        /\ pc'[w] = "delete" /\ Registered => op[w].tx /\ ~op'[w].filter
        /\ op'[w].doomed \subseteq op[w].doomed
    BY <2>1, <2>2
  <2> DEFINE o == op[w].obj
             new == op[w].new
  <2>5. Write(w, op[w].tx, o, action, new) /\ log' = log /\ newLog' = newLog
    BY <1>4
  <2>6. /\ op'[w].tx = op[w].tx
        /\ \A v \in Worker \ {w} : op'[v] = op[v] /\ pc'[v] = pc[v]
    BY <2>2
  <2> HIDE DEF o, new
  <2> QED
    <3>1. new = Absent => action = "DELETE"
      BY <2>4 DEF new
    <3>2. \A e \in op'[w].todo :
            \/ e \in op[w].todo
            \/ e.obj = o /\ e.action = action /\ e.id = op[w].id /\ e.new = new
      BY <2>3 DEF o, new
    <3> QED BY <2>4, <2>5, <2>6, <3>1, <3>2, WriteEntries
<1>5. ASSUME NEW w \in Worker, NEW d \in op[w].doomed, DeleteRow(w, d) PROVE NoneInvented'
  BY <1>5, DeleteEntries
<1>6. ASSUME NEW w \in Worker, NEW e \in op[w].todo, AppendDedicated(w, e) PROVE NoneInvented'
  <2>1. /\ op'[w].todo = op[w].todo /\ op'[w].tx = op[w].tx /\ op'[w].doomed = op[w].doomed
        /\ pc'[w] = "central" /\ row' = row
        /\ \A v \in Worker \ {w} : op'[v] = op[v] /\ pc'[v] = pc[v]
    BY <1>6 DEF AppendDedicated, AppendTo, Shape, OpShape, OpFields
  <2>2. AppendTo(w, "dedicated", e) /\ "dedicated" \in Log
    BY <1>6 DEF AppendDedicated, Log
  <2> QED BY <2>1, <2>2, AppendEntries
<1>7. ASSUME NEW w \in Worker, AppendCentral(w) PROVE NoneInvented'
  <2>1. /\ op'[w].todo \subseteq op[w].todo /\ op'[w].tx = op[w].tx
        /\ op'[w].doomed = op[w].doomed
        /\ pc'[w] \in {"dedicated", "collect", "done"} /\ row' = row
        /\ \A v \in Worker \ {w} : op'[v] = op[v] /\ pc'[v] = pc[v]
    BY <1>7 DEF AppendCentral, Appended, AppendTo, Shape, OpShape, OpFields
  <2>2. AppendTo(w, "central", op[w].entry) /\ "central" \in Log /\ "central" # "dedicated"
    BY <1>7 DEF AppendCentral, Log
  <2> QED BY <2>1, <2>2, AppendEntries
<1>8. ASSUME NEW w \in Worker, EndOp(w) \/ CommitOuter(w) PROVE NoneInvented'
  <2>1. CASE Commit(w)
    BY <2>1, CommitEntries
  <2>2. CASE EndOp(w) /\ outer[w]
    <3>1. /\ UNCHANGED <<committed, pending>> /\ op'[w] = NoOp /\ pc'[w] = "idle"
          /\ \A v \in Worker \ {w} : op'[v] = op[v] /\ pc'[v] = pc[v]
      BY <2>2 DEF EndOp, committed, pending, Shape, OpShape
    <3>2. DoomedInv(w)' /\ DeletionInv(w)' /\ op'[w].todo = {}
      BY <3>1 DEF NoneInvented, WorkerInv, DoomedInv, DeletionInv, NoOp, committed, pending
    <3> QED BY <3>1, <3>2, QuietEntries
  <2> QED BY <1>8, <2>1, <2>2 DEF EndOp, CommitOuter
<1>9. ASSUME NEW w \in Worker, Raise(w) PROVE NoneInvented'
  <2>1. /\ UNCHANGED <<row, log, changes>> /\ op'[w] = NoOp /\ pc'[w] = "idle"
        /\ \A v \in Worker \ {w} : op'[v] = op[v] /\ pc'[v] = pc[v]
    BY <1>9 DEF Raise, Forget, committed, Shape, OpShape
  <2>2. /\ Range(newChanges'[w]) = {} /\ \A l \in Log : Range(newLog'[w][l]) = {}
        /\ \A v \in Worker \ {w} : newChanges'[v] = newChanges[v] /\ newLog'[v] = newLog[v]
    BY <1>9, ForgetEffect DEF Raise
  <2>3. WorkerInv(w)'
    BY <2>1, <2>2 DEF WorkerInv, EntriesInv, DoomedInv, DeletionInv, NoOp, Log
  <2>4. LogInv' /\ DOMAIN row' = Obj
    BY <2>1 DEF NoneInvented, LogInv
  <2> QED BY <2>1, <2>2, <2>3, <2>4, OthersKeep
<1>10. CASE (\E w \in Worker : BeginOuter(w)) \/ UNCHANGED vars
  BY <1>10 DEF BeginOuter, vars, committed, pending, NoneInvented, LogInv, WorkerInv, EntriesInv,
               DoomedInv, DeletionInv, Before, Touched
<1> QED BY <1>1, <1>2, <1>3, <1>4, <1>5, <1>6, <1>7, <1>8, <1>9, <1>10
        DEF Next, Statement, UpdateRow, InsertRow, InsertConflict, Fails, DeadlockDetected

\* Without audit_bulk_delete, whose entries come before its deletions, the dedicated log
\* tells of no change that was not committed, whatever fails or is rolled back.
THEOREM NoInventedEntriesCorrect ==
  ASSUME NoBulk PROVE Spec => []NoInventedEntries
<1>1. NoneInvented => NoInventedEntries
  BY DEF NoneInvented, LogInv, Told, NoInventedEntries
<1> QED BY <1>1, InitInv, InitEntries, ShapeStep, EntriesStep, PTL DEF Spec

-----------------------------------------------------------------------------
(* Types.  An entry's values come from rows and changes, so what           *)
(* operations carry and transactions hold is typed as well.                *)

ChangesTyped(S) == \A c \in S : c.obj \in used /\ c.new \in OldOrNew

DataTyped ==
  /\ row \in [Obj -> OldOrNew] /\ used \subseteq Obj /\ \A o \in Obj : row[o] # Absent => o \in used
  /\ ChangesTyped(Range(changes)) /\ \A l \in Log : Range(log[l]) \subseteq Entry
  /\ opSeq \in 0..MaxOps /\ failed \subseteq 1..MaxOps

OpTyped(w) ==
  /\ pc[w] \in PcValue /\ (pc[w] # "idle" => op[w].id \in 1..MaxOps) /\ op[w].todo \subseteq Entry
  /\ \A d \in op[w].doomed : d.obj \in used /\ d.old \in OldOrNew
  /\ pc[w] \in {"pre_save", "update", "insert"} =>
       op[w].obj \in used /\ op[w].old \in OldOrNew /\ op[w].new \in OldOrNew
  /\ pc[w] = "central" => op[w].entry \in Entry

WorkerTyped(w) ==
  /\ OpTyped(w) /\ ChangesTyped(Range(newChanges[w]))
  /\ \A l \in Log : Range(newLog[w][l]) \subseteq Entry

TypeInv == DataTyped /\ \A w \in Worker : WorkerTyped(w)

LEMMA InitTypes == Init => TypeInv
BY EmptySequence, KindAssumption DEF Init, TypeInv, DataTyped, WorkerTyped, OpTyped, ChangesTyped,
   NoOp, PcValue, OldOrNew

LEMMA VisibleType ==
  ASSUME Shape, TypeInv, NEW w \in Worker, NEW o \in Obj
  PROVE  Visible(w, o) \in OldOrNew /\ (Visible(w, o) # Absent => o \in used)
<1>1. IsSequence(newChanges[w])
  BY DEF Shape, ChangeShape
<1>2. CASE \E c \in Range(newChanges[w]) : c.obj = o
  <2>1. PICK c \in Range(newChanges[w]) : c.obj = o /\ Visible(w, o) = c.new
    BY <1>1, <1>2, LastOfTouched DEF Visible
  <2> QED BY <2>1 DEF TypeInv, WorkerTyped, ChangesTyped
<1>3. CASE ~\E c \in Range(newChanges[w]) : c.obj = o
  <2>1. Visible(w, o) = row[o]
    BY <1>1, <1>3, LastOfTouched DEF Visible
  <2> QED BY <2>1 DEF TypeInv, DataTyped
<1> QED BY <1>2, <1>3

\* A step of w that is typed itself.
LEMMA OthersTyped ==
  ASSUME TypeInv, NEW w \in Worker, used \subseteq used', DataTyped', WorkerTyped(w)',
         \A v \in Worker \ {w} :
           /\ op'[v] = op[v] /\ pc'[v] = pc[v] /\ newChanges'[v] = newChanges[v]
           /\ \A l \in Log : Range(newLog'[v][l]) = Range(newLog[v][l])
  PROVE  TypeInv'
<1> SUFFICES ASSUME NEW v \in Worker \ {w} PROVE WorkerTyped(v)'
  BY DEF TypeInv
<1>1. WorkerTyped(v)
  BY DEF TypeInv
<1> QED BY <1>1 DEF WorkerTyped, OpTyped, ChangesTyped

\* A step that changes only what w runs.
LEMMA OpStepTypes ==
  ASSUME TypeInv, NEW w \in Worker, UNCHANGED <<committed, pending, failed>>,
         used \subseteq used', used' \subseteq Obj, opSeq' \in 0..MaxOps, OpTyped(w)',
         \A v \in Worker \ {w} : op'[v] = op[v] /\ pc'[v] = pc[v]
  PROVE  TypeInv'
<1>1. UNCHANGED <<row, log, changes, newChanges, newLog>>
  BY DEF committed, pending
<1>2. DataTyped'
  BY <1>1 DEF TypeInv, DataTyped, ChangesTyped
<1>3. WorkerTyped(w)'
  BY <1>1 DEF TypeInv, WorkerTyped, ChangesTyped
<1> QED BY <1>1, <1>2, <1>3, OthersTyped

LEMMA StartTypes ==
  ASSUME Shape, TypeInv, NEW w \in Worker, NEW kind, NEW o, NEW label, Start(w, kind, o, label),
         label \in PcValue \ {"central"}, o.id = opSeq + 1, o.todo \subseteq Entry,
         used \subseteq used', used' \subseteq Obj,
         \A d \in o.doomed : d.obj \in used' /\ d.old \in OldOrNew,
         label \in {"pre_save", "update", "insert"} =>
           o.obj \in used' /\ o.old \in OldOrNew /\ o.new \in OldOrNew
  PROVE  TypeInv'
<1>1. /\ opSeq' = opSeq + 1 /\ opSeq < MaxOps
      /\ op'[w] = o /\ pc'[w] = label
      /\ \A v \in Worker \ {w} : op'[v] = op[v] /\ pc'[v] = pc[v]
      /\ UNCHANGED <<committed, pending, failed>>
  BY DEF Start, Shape, OpShape
<1>2. opSeq \in 0..MaxOps /\ MaxOps \in Nat
  BY KindAssumption DEF TypeInv, DataTyped
<1>3. opSeq' \in 0..MaxOps /\ o.id \in 1..MaxOps
  BY <1>1, <1>2
<1>4. OpTyped(w)'
  BY <1>1, <1>3 DEF OpTyped
<1> QED BY <1>1, <1>3, <1>4, OpStepTypes

LEMMA CallTypes ==
  ASSUME Shape, TypeInv, NEW w \in Worker, Call(w) PROVE TypeInv'
<1>0. /\ used \subseteq Obj /\ opSeq \in 0..MaxOps /\ MaxOps \in Nat
      /\ Absent \in OldOrNew /\ Value \subseteq OldOrNew
  BY KindAssumption DEF TypeInv, DataTyped, OldOrNew
<1>1. ASSUME NEW o \in Obj, NEW v \in Value, CreateCall(w, o, v) \/ SaveCall(w, o, v)
      PROVE  TypeInv'
  <2> DEFINE made == [Operation(w) EXCEPT !.obj = o, !.new = v]
  <2>1. /\ made.id = opSeq + 1 /\ made.todo = {} /\ made.doomed = {} /\ made.obj = o
        /\ made.old = Absent /\ made.new = v
    BY DEF Operation
  <2>2. /\ used \subseteq used' /\ used' \subseteq Obj /\ o \in used'
        /\ \/ Start(w, "create", made, "insert")
           \/ Start(w, "save", made, "pre_save")
    <3>1. CASE CreateCall(w, o, v)
      BY <1>0, <3>1 DEF CreateCall
    <3>2. CASE SaveCall(w, o, v)
      <4>1. o \in used
        BY <3>2 DEF SaveCall, Known, Touched, TypeInv, DataTyped, WorkerTyped, ChangesTyped
      <4> QED BY <1>0, <3>2, <4>1 DEF SaveCall
    <3> QED BY <1>1, <3>1, <3>2
  <2> HIDE DEF made
  <2> QED BY <1>0, <2>1, <2>2, StartTypes DEF PcValue
<1>2. ASSUME NEW o \in Obj, DeleteCall(w, o) PROVE TypeInv'
  <2> DEFINE made == [Operation(w) EXCEPT !.tx = @ \/ Registered,
                        !.doomed = {[obj |-> o, old |-> Visible(w, o)]}]
  <2>1. /\ made.id = opSeq + 1 /\ made.todo = {}
        /\ \A d \in made.doomed : d.obj = o /\ d.old = Visible(w, o)
    BY DEF Operation
  <2>2. Start(w, "delete", made, "delete") /\ used' = used /\ Visible(w, o) # Absent
    BY <1>2 DEF DeleteCall
  <2>3. Visible(w, o) \in OldOrNew /\ o \in used
    BY <2>2, VisibleType
  <2> HIDE DEF made
  <2> QED BY <1>0, <2>1, <2>2, <2>3, StartTypes DEF PcValue
<1>3. ASSUME BulkDeleteCall(w) PROVE TypeInv'
  <2> DEFINE todo == {[id |-> opSeq + 1, obj |-> d.obj, action |-> "DELETE", old |-> d.old,
                       new |-> Absent] : d \in VisibleMatching(w)}
             made == [Operation(w) EXCEPT !.next = "collect", !.todo = todo]
  <2>1. Start(w, "bulk", made, "dedicated") /\ used' = used /\ opSeq < MaxOps
    BY <1>3 DEF BulkDeleteCall, Start
  <2>2. made.id = opSeq + 1 /\ made.todo = todo /\ made.doomed = {}
    BY DEF Operation
  <2>3. \A d \in VisibleMatching(w) : d.obj \in Obj /\ d.old \in OldOrNew
    BY VisibleType DEF VisibleMatching
  <2>4. todo \subseteq Entry
    BY <1>0, <2>1, <2>3 DEF Entry
  <2> HIDE DEF todo, made
  <2> QED BY <1>0, <2>1, <2>2, <2>4, StartTypes DEF PcValue
<1> QED BY <1>1, <1>2, <1>3 DEF Call

\* Write makes a typed change.
LEMMA WriteTypes ==
  ASSUME Shape, TypeInv, NEW w \in Worker, NEW o \in used, NEW action, NEW new \in OldOrNew,
         Write(w, op[w].tx, o, action, new), UNCHANGED <<used, log, newLog, opSeq, failed>>,
         \A v \in Worker \ {w} : op'[v] = op[v] /\ pc'[v] = pc[v], OpTyped(w)'
  PROVE  TypeInv'
<1> DEFINE c == [id |-> op[w].id, obj |-> o, action |-> action, new |-> new,
                 replaced |-> Visible(w, o), tx |-> op[w].tx]
<1>1. c.obj = o /\ c.new = new
  OBVIOUS
<1>2. DataTyped /\ WorkerTyped(w) /\ used \subseteq Obj
  BY DEF TypeInv, DataTyped
<1>3. /\ row' \in [Obj -> OldOrNew] /\ \A p \in Obj : row'[p] # Absent => p \in used
      /\ ChangesTyped(Range(changes')) /\ ChangesTyped(Range(newChanges'[w]))
      /\ \A v \in Worker \ {w} : newChanges'[v] = newChanges[v]
  <2>1. CASE op[w].tx
    <3>1. newChanges' = [newChanges EXCEPT ![w] = Append(@, c)] /\ changes' = changes /\ row' = row
      BY <2>1 DEF Write
    <3> HIDE DEF c
    <3>2. Range(newChanges'[w]) = Range(newChanges[w]) \cup {c}
      BY <3>1, RangeOfAppend DEF Shape, ChangeShape
    <3> QED BY <1>1, <1>2, <3>1, <3>2 DEF DataTyped, WorkerTyped, ChangesTyped, Shape, ChangeShape
  <2>2. CASE ~op[w].tx
    <3>1. /\ newChanges' = newChanges /\ changes' = Append(changes, c)
          /\ row' = [row EXCEPT ![o] = new]
      BY <2>2 DEF Write
    <3> HIDE DEF c
    <3>2. Range(changes') = Range(changes) \cup {c}
      BY <3>1, RangeOfAppend DEF Shape, ChangeShape
    <3> QED BY <1>1, <1>2, <3>1, <3>2 DEF DataTyped, WorkerTyped, ChangesTyped
  <2> QED BY <2>1, <2>2
<1>4. DataTyped'
  BY <1>2, <1>3 DEF DataTyped, ChangesTyped
<1>5. WorkerTyped(w)'
  BY <1>2, <1>3 DEF WorkerTyped, ChangesTyped
<1> QED BY <1>3, <1>4, <1>5, OthersTyped

LEMMA SaveTypes ==
  ASSUME Shape, TypeInv, NEW w \in Worker, UpdateRow(w) \/ InsertRow(w) PROVE TypeInv'
<1>1. PICK action \in {"CREATE", "UPDATE"}, old \in OldOrNew :
        /\ Write(w, op[w].tx, op[w].obj, action, op[w].new) /\ PostSave(w, action, old)
        /\ UNCHANGED <<used, log, newLog, opSeq, failed>> /\ pc[w] \in {"update", "insert"}
  <2>1. Absent \in OldOrNew /\ (pc[w] = "update" => op[w].old \in OldOrNew)
    BY DEF OldOrNew, TypeInv, WorkerTyped, OpTyped
  <2> QED BY <2>1 DEF UpdateRow, InsertRow
<1>2. /\ op[w].obj \in used /\ op[w].new \in OldOrNew /\ op[w].id \in 1..MaxOps
      /\ op[w].todo \subseteq Entry /\ used \subseteq Obj /\ OpTyped(w)
  BY <1>1 DEF TypeInv, DataTyped, WorkerTyped, OpTyped
<1>3. EntryOf(w, op[w].obj, action, old, op[w].new) \in Entry
  BY <1>1, <1>2 DEF EntryOf, Entry
<1>4. /\ \A v \in Worker \ {w} : op'[v] = op[v] /\ pc'[v] = pc[v]
      /\ pc'[w] \in {"dedicated", "done"} /\ op'[w].id = op[w].id
      /\ op'[w].doomed = op[w].doomed
      /\ \/ op'[w].todo = op[w].todo
         \/ op'[w].todo = {EntryOf(w, op[w].obj, action, old, op[w].new)}
  BY <1>1 DEF PostSave, Shape, OpShape, OpFields
<1>5. OpTyped(w)'
  BY <1>1, <1>2, <1>3, <1>4 DEF OpTyped, PcValue
<1> QED BY <1>1, <1>2, <1>4, <1>5, WriteTypes

LEMMA DeleteTypes ==
  ASSUME Shape, TypeInv, NEW w \in Worker, NEW d \in op[w].doomed, DeleteRow(w, d)
  PROVE  TypeInv'
<1> DEFINE o == d.obj
           e == EntryOf(w, o, "DELETE", d.old, Absent)
<1>1. /\ d.obj \in used /\ d.old \in OldOrNew /\ op[w].id \in 1..MaxOps /\ used \subseteq Obj
      /\ OpTyped(w) /\ Absent \in OldOrNew
  BY DEF DeleteRow, TypeInv, DataTyped, WorkerTyped, OpTyped, OldOrNew
<1>2. e \in Entry
  BY <1>1 DEF EntryOf, Entry
<1> HIDE DEF e
<1>3. /\ \A v \in Worker \ {w} : op'[v] = op[v] /\ pc'[v] = pc[v]
      /\ pc'[w] \in {"delete", "dedicated", "done"} /\ op'[w].id = op[w].id
      /\ op'[w].doomed \subseteq op[w].doomed /\ op'[w].todo \subseteq op[w].todo \cup {e}
      /\ UNCHANGED <<used, log, newLog, opSeq, failed>> /\ pc[w] = "delete"
  BY DEF DeleteRow, Shape, OpShape, OpFields, e
<1>4. OpTyped(w)'
  BY <1>1, <1>2, <1>3 DEF OpTyped, PcValue
<1>5. CASE Write(w, op[w].tx, o, "DELETE", Absent)
  BY <1>1, <1>3, <1>4, <1>5, WriteTypes
<1>6. CASE UNCHANGED <<row, changes, newChanges>>
  BY <1>1, <1>3, <1>4, <1>6, OpStepTypes DEF committed, pending, TypeInv, DataTyped
<1> QED BY <1>5, <1>6 DEF DeleteRow

LEMMA AppendTypes ==
  ASSUME Shape, TypeInv, NEW w \in Worker, NEW l \in Log, NEW e \in Entry, AppendTo(w, l, e),
         \A v \in Worker \ {w} : op'[v] = op[v] /\ pc'[v] = pc[v], OpTyped(w)'
  PROVE  TypeInv'
<1>1. UNCHANGED <<row, changes, used, newChanges, opSeq, failed>>
  BY DEF AppendTo
<1>2. /\ \A k \in Log : Range(log'[k]) \subseteq Range(log[k]) \cup {e}
      /\ \A k \in Log : Range(newLog'[w][k]) \subseteq Range(newLog[w][k]) \cup {e}
      /\ \A v \in Worker \ {w}, k \in Log : Range(newLog'[v][k]) = Range(newLog[v][k])
  <2>1. CASE op[w].tx
    <3>1. log' = log /\ \A v \in Worker, k \in Log :
            Range(newLog'[v][k]) = IF v = w /\ k = l THEN Range(newLog[v][k]) \cup {e}
                                   ELSE Range(newLog[v][k])
      BY <2>1, AppendToEffect
    <3> QED BY <3>1
  <2>2. CASE ~op[w].tx
    <3>1. newLog' = newLog /\ \A k \in Log :
            Range(log'[k]) = IF k = l THEN Range(log[k]) \cup {e} ELSE Range(log[k])
      BY <2>2, AppendToEffect
    <3> QED BY <3>1
  <2> QED BY <2>1, <2>2
<1>3. DataTyped'
  BY <1>1, <1>2 DEF TypeInv, DataTyped, ChangesTyped
<1>4. WorkerTyped(w)'
  BY <1>1, <1>2 DEF TypeInv, WorkerTyped, ChangesTyped
<1> QED BY <1>1, <1>2, <1>3, <1>4, OthersTyped

LEMMA CommitTypes ==
  ASSUME Shape, TypeInv, NEW w \in Worker, Commit(w) PROVE TypeInv'
<1>1. /\ op'[w] = NoOp /\ pc'[w] = "idle" /\ UNCHANGED <<used, opSeq, failed>>
      /\ row' = [o \in Obj |-> Visible(w, o)]
      /\ \A v \in Worker \ {w} : op'[v] = op[v] /\ pc'[v] = pc[v]
  BY DEF Commit, Forget, Shape, OpShape
<1>2. /\ Range(changes') = Range(changes) \cup Range(newChanges[w])
      /\ \A l \in Log : Range(log'[l]) = Range(log[l]) \cup Range(newLog[w][l])
      /\ Range(newChanges'[w]) = {} /\ \A l \in Log : Range(newLog'[w][l]) = {}
      /\ \A v \in Worker \ {w} : newChanges'[v] = newChanges[v] /\ newLog'[v] = newLog[v]
  BY CommitEffect
<1>3. WorkerTyped(w)
  BY DEF TypeInv
<1>4. DataTyped'
  BY <1>1, <1>2, <1>3, VisibleType DEF TypeInv, DataTyped, WorkerTyped, ChangesTyped
<1>5. WorkerTyped(w)'
  BY <1>1, <1>2 DEF WorkerTyped, OpTyped, ChangesTyped, NoOp, PcValue
<1> QED BY <1>1, <1>2, <1>4, <1>5, OthersTyped

LEMMA RaiseTypes ==
  ASSUME Shape, TypeInv, NEW w \in Worker, Raise(w) PROVE TypeInv'
<1>1. /\ op'[w] = NoOp /\ pc'[w] = "idle" /\ UNCHANGED <<used, opSeq, row, log, changes>>
      /\ failed' = failed \cup ({op[w].id} \ {0})
      /\ \A v \in Worker \ {w} : op'[v] = op[v] /\ pc'[v] = pc[v]
  BY DEF Raise, Forget, committed, Shape, OpShape
<1>2. /\ Range(newChanges'[w]) = {} /\ \A l \in Log : Range(newLog'[w][l]) = {}
      /\ \A v \in Worker \ {w} : newChanges'[v] = newChanges[v] /\ newLog'[v] = newLog[v]
  BY ForgetEffect DEF Raise
<1>3. {op[w].id} \ {0} \subseteq 1..MaxOps
  BY DEF TypeInv, WorkerTyped, OpTyped, Shape, OpShape, NoOp
<1>4. DataTyped'
  BY <1>1, <1>3 DEF TypeInv, DataTyped, ChangesTyped
<1>5. WorkerTyped(w)'
  BY <1>1, <1>2 DEF WorkerTyped, OpTyped, ChangesTyped, NoOp, PcValue
<1> QED BY <1>1, <1>2, <1>4, <1>5, OthersTyped

LEMMA TypesStep == Shape /\ TypeInv /\ [Next]_vars => TypeInv'
<1> SUFFICES ASSUME Shape, TypeInv, [Next]_vars PROVE TypeInv'
  OBVIOUS
<1>0. used \subseteq Obj /\ opSeq \in 0..MaxOps /\ \A w \in Worker : WorkerTyped(w) /\ OpTyped(w)
  BY DEF TypeInv, DataTyped, WorkerTyped
<1>1. ASSUME NEW w \in Worker, PreSave(w) \/ PreSaveFails(w) \/ UpdateNothing(w)
      PROVE  TypeInv'
  <2>1. /\ UNCHANGED <<committed, used, pending, opSeq, failed>> /\ pc'[w] \in {"update", "insert"}
        /\ op'[w].todo = op[w].todo /\ op'[w].id = op[w].id /\ op'[w].doomed = op[w].doomed
        /\ op'[w].new = op[w].new /\ op'[w].obj = op[w].obj /\ pc[w] \in {"pre_save", "update"}
        /\ op'[w].old \in {op[w].old, Visible(w, op[w].obj), Absent}
        /\ \A v \in Worker \ {w} : op'[v] = op[v] /\ pc'[v] = pc[v]
    BY <1>1 DEF PreSave, PreSaveFails, UpdateNothing, Shape, OpShape, OpFields
  <2>2. op[w].obj \in used /\ Visible(w, op[w].obj) \in OldOrNew /\ Absent \in OldOrNew
    BY <1>0, <2>1, VisibleType DEF OpTyped, OldOrNew
  <2>3. OpTyped(w)'
    BY <1>0, <2>1, <2>2 DEF OpTyped, PcValue
  <2> QED BY <1>0, <2>1, <2>3, OpStepTypes
<1>2. ASSUME NEW w \in Worker, Collect(w) PROVE TypeInv'
  <2>1. /\ UNCHANGED <<committed, used, pending, opSeq, failed>> /\ pc'[w] \in {"delete", "done"}
        /\ op'[w].todo = op[w].todo /\ op'[w].id = op[w].id
        /\ op'[w].doomed = VisibleMatching(w) /\ pc[w] = "collect"
        /\ \A v \in Worker \ {w} : op'[v] = op[v] /\ pc'[v] = pc[v]
    BY <1>2 DEF Collect, Shape, OpShape, OpFields
  <2>2. \A d \in VisibleMatching(w) : d.obj \in used /\ d.old \in OldOrNew
    BY VisibleType, ValueAssumption DEF VisibleMatching
  <2>3. OpTyped(w)'
    BY <1>0, <2>1, <2>2 DEF OpTyped, PcValue
  <2> QED BY <1>0, <2>1, <2>3, OpStepTypes
<1>3. ASSUME NEW w \in Worker, NEW e \in op[w].todo, AppendDedicated(w, e) PROVE TypeInv'
  <2>1. /\ op'[w].todo = op[w].todo /\ op'[w].id = op[w].id /\ op'[w].doomed = op[w].doomed
        /\ op'[w].entry = e /\ pc'[w] = "central" /\ pc[w] = "dedicated" /\ used' = used
        /\ \A v \in Worker \ {w} : op'[v] = op[v] /\ pc'[v] = pc[v]
    BY <1>3 DEF AppendDedicated, AppendTo, Shape, OpShape, OpFields
  <2>2. AppendTo(w, "dedicated", e) /\ "dedicated" \in Log /\ e \in Entry
    BY <1>0, <1>3 DEF AppendDedicated, Log, OpTyped
  <2>3. OpTyped(w)'
    BY <1>0, <2>1, <2>2 DEF OpTyped, PcValue
  <2> QED BY <2>1, <2>2, <2>3, AppendTypes
<1>4. ASSUME NEW w \in Worker, AppendCentral(w) PROVE TypeInv'
  <2>1. /\ op'[w].todo \subseteq op[w].todo /\ op'[w].id = op[w].id
        /\ op'[w].doomed = op[w].doomed /\ used' = used
        /\ pc'[w] \in {"dedicated", "collect", "done"} /\ pc[w] = "central"
        /\ \A v \in Worker \ {w} : op'[v] = op[v] /\ pc'[v] = pc[v]
    BY <1>4 DEF AppendCentral, Appended, AppendTo, Shape, OpShape, OpFields
  <2>2. AppendTo(w, "central", op[w].entry) /\ "central" \in Log /\ op[w].entry \in Entry
    BY <1>0, <1>4 DEF AppendCentral, Log, OpTyped
  <2>3. OpTyped(w)'
    BY <1>0, <2>1 DEF OpTyped, PcValue
  <2> QED BY <2>1, <2>2, <2>3, AppendTypes
<1>5. ASSUME NEW w \in Worker, EndOp(w) \/ CommitOuter(w) PROVE TypeInv'
  <2>1. CASE Commit(w)
    BY <2>1, CommitTypes
  <2>2. CASE EndOp(w) /\ outer[w]
    <3>1. /\ UNCHANGED <<committed, used, pending, opSeq, failed>> /\ op'[w] = NoOp /\ pc'[w] = "idle"
          /\ \A v \in Worker \ {w} : op'[v] = op[v] /\ pc'[v] = pc[v]
      BY <2>2 DEF EndOp, Shape, OpShape
    <3>2. OpTyped(w)'
      BY <3>1 DEF OpTyped, NoOp, PcValue
    <3> QED BY <1>0, <3>1, <3>2, OpStepTypes
  <2> QED BY <1>5, <2>1, <2>2 DEF EndOp, CommitOuter
<1>6. CASE (\E w \in Worker : BeginOuter(w)) \/ UNCHANGED vars
  <2>1. UNCHANGED <<row, log, changes, used, newChanges, newLog, pc, op, opSeq, failed>>
    BY <1>6 DEF BeginOuter, vars, committed, pending
  <2> QED BY <2>1 DEF TypeInv, DataTyped, WorkerTyped, OpTyped, ChangesTyped
<1> QED BY <1>1, <1>2, <1>3, <1>4, <1>5, <1>6, CallTypes, SaveTypes, DeleteTypes, RaiseTypes
        DEF Next, Statement, InsertConflict, Fails, DeadlockDetected

LEMMA PcStep == Shape /\ pc \in [Worker -> PcValue] /\ [Next]_vars => pc' \in [Worker -> PcValue]
<1> SUFFICES ASSUME Shape, pc \in [Worker -> PcValue], [Next]_vars
             PROVE  \/ pc' = pc
                    \/ \E w \in Worker, label \in PcValue : pc' = [pc EXCEPT ![w] = label]
  OBVIOUS
<1>1. ASSUME NEW w \in Worker, Call(w) \/ Statement(w)
      PROVE  \/ pc' = pc
             \/ \E label \in PcValue : pc' = [pc EXCEPT ![w] = label]
  <2>1. CASE Call(w)
    BY <2>1 DEF Call, CreateCall, SaveCall, DeleteCall, BulkDeleteCall, Start, PcValue
  <2>2. CASE PreSave(w) \/ PreSaveFails(w) \/ UpdateRow(w) \/ UpdateNothing(w) \/ InsertRow(w)
    BY <2>2 DEF PreSave, PreSaveFails, UpdateRow, UpdateNothing, InsertRow, PostSave, PcValue
  <2>3. CASE InsertConflict(w) \/ Collect(w) \/ EndOp(w)
    BY <2>3 DEF InsertConflict, Raise, Forget, Collect, EndOp, Commit, PcValue
  <2>4. CASE \E d \in op[w].doomed : DeleteRow(w, d)
    BY <2>4 DEF DeleteRow, PcValue
  <2>5. CASE \E e \in op[w].todo : AppendDedicated(w, e)
    BY <2>5 DEF AppendDedicated, PcValue
  <2>6. CASE AppendCentral(w)
    <3>1. op[w].next \in PcValue
      BY <2>6 DEF AppendCentral, Shape, OpShape, PcValue
    <3> QED BY <2>6, <3>1 DEF AppendCentral, Appended, PcValue
  <2> QED BY <1>1, <2>1, <2>2, <2>3, <2>4, <2>5, <2>6 DEF Statement
<1>2. ASSUME NEW w \in Worker, CommitOuter(w) \/ Fails(w) \/ DeadlockDetected(w)
      PROVE  pc' = [pc EXCEPT ![w] = "idle"]
  BY <1>2 DEF CommitOuter, Commit, Fails, DeadlockDetected, Raise, Forget
<1> QED BY <1>1, <1>2 DEF Next, BeginOuter, vars, PcValue

\* Every entry, committed, pending or to be appended, is of an operation, a row and values
\* there are.
THEOREM ModelTypeCorrect == Spec => []TypeOK
<1> DEFINE PcInv == pc \in [Worker -> PcValue]
<1>1. Shape /\ TypeInv /\ PcInv => TypeOK
  BY DEF Shape, OpShape, TypeInv, DataTyped, WorkerTyped, OpTyped, TypeOK
<1>2. Init => PcInv
  BY DEF Init, PcValue
<1>3. Shape /\ PcInv /\ [Next]_vars => PcInv'
  BY PcStep
<1> HIDE DEF PcInv
<1> QED BY <1>1, <1>2, <1>3, InitInv, InitTypes, ShapeStep, TypesStep, PTL DEF Spec

-----------------------------------------------------------------------------
(* The log tells the history of a row: the invariant.                      *)

IdsOf(S) == {x.id : x \in S}
CommittedIds ==
  IdsOf(Range(changes) \cup Range(log["dedicated"]) \cup Range(log["central"]))
PendingIds(w) ==
  IdsOf(Range(newChanges[w]) \cup Range(newLog[w]["dedicated"]) \cup Range(newLog[w]["central"]))

\* What an operation has done is in its transaction only, or committed at once.
IdsInv ==
  /\ CommittedIds \subseteq 1..opSeq
  /\ \A w \in Worker :
       /\ PendingIds(w) \subseteq 1..opSeq /\ PendingIds(w) \cap CommittedIds = {}
       /\ \A v \in Worker \ {w} : PendingIds(v) \cap PendingIds(w) = {} /\ op[v].id \notin PendingIds(w)
       /\ pc[w] # "idle" =>
            /\ IF op[w].tx THEN op[w].id \notin CommittedIds ELSE op[w].id \notin PendingIds(w)
            /\ \A i \in PendingIds(w) : i <= op[w].id

\* An operation makes at most one change, and then its entry, which it appends once to each log.
Unwritten(w) == pc[w] \in {"pre_save", "update", "insert", "delete"}
PhaseInv(w) ==
  /\ Unwritten(w) => op[w].todo = {} /\ op[w].id \notin IdsOf(Range(changes) \cup Range(newChanges[w]))
  /\ Unwritten(w) \/ pc[w] = "dedicated" => op[w].id \notin IdsOf(Range(OwnLog(w, "dedicated")))
  /\ Unwritten(w) \/ pc[w] \in {"dedicated", "central"} =>
       op[w].id \notin IdsOf(Range(OwnLog(w, "central")))
  /\ pc[w] = "central" => op[w].entry \in op[w].todo
  /\ pc[w] = "delete" => op[w].tx
  /\ pc[w] # "idle" => op[w].next = "done" /\ pc[w] # "collect"
  /\ \A d, e \in op[w].doomed : d = e
  /\ \A d, e \in op[w].todo : d = e /\ d.id = op[w].id
  /\ \A e \in op[w].todo : op[w].tx \/ \E c \in Range(changes) : c.obj = e.obj /\ ~c.tx

\* Entries and changes of one operation agree, where they are and where they will be.
Agree(S, T) == \A e \in S, c \in T : e.id = c.id => e.action = c.action /\ e.new = c.new
AgreeInv(w) ==
  /\ \A l \in Log : Agree(Range(newLog[w][l]), Range(newChanges[w]))
  /\ pc[w] # "idle" => Agree(op[w].todo, IF op[w].tx THEN Range(newChanges[w]) ELSE Range(changes))

Increasing(s) == \A i, j \in DOMAIN s : i < j => s[i].id < s[j].id
InOrder(cs, es, o) ==
  \A i, j \in DOMAIN cs, p, q \in DOMAIN es :
    /\ cs[i].obj = o /\ es[p].obj = o /\ es[p].id = cs[i].id
    /\ cs[j].obj = o /\ es[q].obj = o /\ es[q].id = cs[j].id
    => (p < q <=> i < j)

OwnHistory(w) ==
  /\ PhaseInv(w) /\ AgreeInv(w)
  /\ Increasing(newChanges[w]) /\ \A l \in Log : Increasing(newLog[w][l])

TxOnly(o) == \A c \in Range(changes) : c.obj = o => c.tx
CommittedHistory ==
  \A l \in Log : /\ Agree(Range(log[l]), Range(changes))
                 /\ \A o \in Obj : TxOnly(o) => InOrder(changes, log[l], o)

HistoryInv == IdsInv /\ CommittedHistory /\ \A w \in Worker : OwnHistory(w)

-----------------------------------------------------------------------------
(* Sequences whose ids increase, and logs in the order of the changes.     *)

LEMMA AppendPlaces ==
  ASSUME NEW s, NEW e, IsSequence(s)
  PROVE  /\ Len(s) \in Nat /\ DOMAIN s = 1..Len(s) /\ DOMAIN Append(s, e) = 1..(Len(s) + 1)
         /\ \A i \in DOMAIN s : Append(s, e)[i] = s[i]
         /\ Append(s, e)[Len(s) + 1] = e
<1> DEFINE S == Range(s) \cup {e}
<1>1. s \in Seq(S)
  BY DEF IsSequence
<1> HIDE DEF S
<1>2. e \in S
  BY DEF S
<1> QED BY <1>1, <1>2

LEMMA ConcatPlaces ==
  ASSUME NEW s, NEW t, IsSequence(s), IsSequence(t)
  PROVE  /\ Len(s) \in Nat /\ Len(t) \in Nat /\ DOMAIN s = 1..Len(s) /\ DOMAIN t = 1..Len(t)
         /\ DOMAIN (s \o t) = 1..(Len(s) + Len(t))
         /\ \A i \in 1..(Len(s) + Len(t)) : (s \o t)[i] = IF i <= Len(s) THEN s[i] ELSE t[i - Len(s)]
<1> DEFINE S == Range(s) \cup Range(t)
<1>1. s \in Seq(S) /\ t \in Seq(S)
  BY DEF IsSequence
<1> HIDE DEF S
<1> QED BY <1>1

LEMMA IncreasingAppend ==
  ASSUME NEW s, NEW e, IsSequence(s), Increasing(s), \A x \in Range(s) : x.id < e.id
  PROVE  Increasing(Append(s, e))
<1> DEFINE t == Append(s, e)
<1>1. /\ Len(s) \in Nat /\ DOMAIN s = 1..Len(s) /\ DOMAIN t = 1..(Len(s) + 1)
      /\ \A i \in DOMAIN s : t[i] = s[i] /\ s[i] \in Range(s)
      /\ t[Len(s) + 1] = e
  BY AppendPlaces DEF Range
<1> HIDE DEF t
<1>2. ASSUME NEW i \in DOMAIN t, NEW j \in DOMAIN t, i < j PROVE t[i].id < t[j].id
  <2>1. i \in DOMAIN s
    BY <1>1, <1>2
  <2>2. CASE j \in DOMAIN s
    BY <1>1, <1>2, <2>1, <2>2 DEF Increasing
  <2>3. CASE j = Len(s) + 1
    BY <1>1, <2>1, <2>3
  <2> QED BY <1>1, <2>2, <2>3
<1> QED BY <1>2 DEF Increasing, t

\* Two sequences whose ids increase are in order.
LEMMA IncreasingInOrder ==
  ASSUME NEW cs, NEW es, NEW o, IsSequence(cs), IsSequence(es), Increasing(cs), Increasing(es),
         \A c \in Range(cs) : c.id \in Int, \A e \in Range(es) : e.id \in Int
  PROVE  InOrder(cs, es, o)
<1>1. /\ DOMAIN cs \subseteq Int /\ DOMAIN es \subseteq Int
      /\ \A i \in DOMAIN cs : cs[i].id \in Int
      /\ \A p \in DOMAIN es : es[p].id \in Int
  BY DEF IsSequence, Range
<1>2. ASSUME NEW i \in DOMAIN cs, NEW j \in DOMAIN cs PROVE i < j <=> cs[i].id < cs[j].id
  <2>1. i < j \/ i = j \/ j < i
    BY <1>1
  <2> QED BY <1>1, <2>1 DEF Increasing
<1>3. ASSUME NEW p \in DOMAIN es, NEW q \in DOMAIN es PROVE p < q <=> es[p].id < es[q].id
  <2>1. p < q \/ p = q \/ q < p
    BY <1>1
  <2> QED BY <1>1, <2>1 DEF Increasing
<1> QED BY <1>2, <1>3 DEF InOrder

\* A commit leaves the log in order: its changes and entries come after all others.
LEMMA InOrderConcat ==
  ASSUME NEW cs, NEW ds, NEW es, NEW fs, NEW o,
         IsSequence(cs), IsSequence(ds), IsSequence(es), IsSequence(fs),
         InOrder(cs, es, o), InOrder(ds, fs, o),
         \A d \in Range(ds), e \in Range(es) : d.id # e.id,
         \A c \in Range(cs), f \in Range(fs) : c.id # f.id
  PROVE  InOrder(cs \o ds, es \o fs, o)
<1> DEFINE xs == cs \o ds
           ys == es \o fs
           m == Len(cs)
           n == Len(es)
<1>1. /\ m \in Nat /\ Len(ds) \in Nat /\ DOMAIN cs = 1..m /\ DOMAIN ds = 1..Len(ds)
      /\ DOMAIN xs = 1..(m + Len(ds))
      /\ \A i \in 1..(m + Len(ds)) : xs[i] = IF i <= m THEN cs[i] ELSE ds[i - m]
  BY ConcatPlaces
<1>2. /\ n \in Nat /\ Len(fs) \in Nat /\ DOMAIN es = 1..n /\ DOMAIN fs = 1..Len(fs)
      /\ DOMAIN ys = 1..(n + Len(fs))
      /\ \A p \in 1..(n + Len(fs)) : ys[p] = IF p <= n THEN es[p] ELSE fs[p - n]
  BY ConcatPlaces
<1> HIDE DEF xs, ys, m, n
<1>3. ASSUME NEW i \in DOMAIN xs, NEW p \in DOMAIN ys, ys[p].id = xs[i].id
      PROVE  \/ /\ i \in DOMAIN cs /\ xs[i] = cs[i] /\ i <= m
                /\ p \in DOMAIN es /\ ys[p] = es[p] /\ p <= n
             \/ /\ i - m \in DOMAIN ds /\ xs[i] = ds[i - m] /\ i > m
                /\ p - n \in DOMAIN fs /\ ys[p] = fs[p - n] /\ p > n
  <2>1. \/ i \in DOMAIN cs /\ xs[i] = cs[i] /\ i <= m
        \/ i - m \in DOMAIN ds /\ xs[i] = ds[i - m] /\ i > m
    BY <1>1
  <2>2. \/ p \in DOMAIN es /\ ys[p] = es[p] /\ p <= n
        \/ p - n \in DOMAIN fs /\ ys[p] = fs[p - n] /\ p > n
    BY <1>2
  <2>3. /\ \A k \in DOMAIN cs, x \in DOMAIN fs : cs[k].id # fs[x].id
        /\ \A k \in DOMAIN ds, x \in DOMAIN es : ds[k].id # es[x].id
    BY DEF Range
  <2> QED BY <1>3, <2>1, <2>2, <2>3
<1>4. ASSUME NEW i \in DOMAIN xs, NEW j \in DOMAIN xs, NEW p \in DOMAIN ys, NEW q \in DOMAIN ys,
             xs[i].obj = o, ys[p].obj = o, ys[p].id = xs[i].id,
             xs[j].obj = o, ys[q].obj = o, ys[q].id = xs[j].id
      PROVE  p < q <=> i < j
  <2>1. i \in Int /\ j \in Int /\ p \in Int /\ q \in Int
    BY <1>1, <1>2
  <2>2. CASE i <= m /\ j <= m
    <3>1. /\ i \in DOMAIN cs /\ xs[i] = cs[i] /\ p \in DOMAIN es /\ ys[p] = es[p]
          /\ j \in DOMAIN cs /\ xs[j] = cs[j] /\ q \in DOMAIN es /\ ys[q] = es[q]
      BY <1>1, <1>3, <1>4, <2>1, <2>2
    <3> QED BY <1>4, <3>1 DEF InOrder
  <2>3. CASE i > m /\ j > m
    <3> DEFINE i1 == i - m
               j1 == j - m
               p1 == p - n
               q1 == q - n
    <3>1. /\ i1 \in DOMAIN ds /\ xs[i] = ds[i1] /\ p1 \in DOMAIN fs /\ ys[p] = fs[p1]
          /\ j1 \in DOMAIN ds /\ xs[j] = ds[j1] /\ q1 \in DOMAIN fs /\ ys[q] = fs[q1]
      BY <1>1, <1>3, <1>4, <2>1, <2>3
    <3>2. (i1 < j1 <=> i < j) /\ (p1 < q1 <=> p < q)
      BY <1>1, <1>2, <2>1
    <3> HIDE DEF i1, j1, p1, q1
    <3>3. p1 < q1 <=> i1 < j1
      BY <1>4, <3>1 DEF InOrder
    <3> QED BY <3>2, <3>3
  <2>4. CASE i <= m /\ j > m
    <3>1. p <= n /\ q > n
      BY <1>1, <1>3, <1>4, <2>1, <2>4
    <3> QED BY <1>1, <1>2, <2>1, <2>4, <3>1
  <2>5. CASE i > m /\ j <= m
    <3>1. p > n /\ q <= n
      BY <1>1, <1>3, <1>4, <2>1, <2>5
    <3> QED BY <1>1, <1>2, <2>1, <2>5, <3>1
  <2> QED BY <1>1, <2>1, <2>2, <2>3, <2>4, <2>5
<1>5. InOrder(xs, ys, o)
  BY <1>4 DEF InOrder
<1> QED BY <1>5 DEF xs, ys

\* Changes and entries of other rows do not matter.
LEMMA InOrderOthers ==
  ASSUME NEW cs, NEW es, NEW o, IsSequence(cs), IsSequence(es), InOrder(cs, es, o), NEW x, x.obj # o
  PROVE  InOrder(Append(cs, x), es, o) /\ InOrder(cs, Append(es, x), o)
<1>1. InOrder(Append(cs, x), es, o)
  <2> DEFINE ds == Append(cs, x)
  <2>1. \A i \in DOMAIN ds : ds[i].obj = o => i \in DOMAIN cs /\ ds[i] = cs[i]
    BY AppendPlaces
  <2> HIDE DEF ds
  <2> QED BY <2>1 DEF InOrder, ds
<1>2. InOrder(cs, Append(es, x), o)
  <2> DEFINE fs == Append(es, x)
  <2>1. \A p \in DOMAIN fs : fs[p].obj = o => p \in DOMAIN es /\ fs[p] = es[p]
    BY AppendPlaces
  <2> HIDE DEF fs
  <2> QED BY <2>1 DEF InOrder, fs
<1> QED BY <1>1, <1>2

-----------------------------------------------------------------------------
(* What the parts of the actions do to the sequences, place by place.      *)

\* w's operation has made a change, in its transaction or at once.
Wrote(w, o, action, new) ==
  \E c : /\ c.id = op[w].id /\ c.obj = o /\ c.tx = op[w].tx
         /\ c.action = action /\ c.new = new
         /\ IF op[w].tx
            THEN /\ changes' = changes
                 /\ newChanges'[w] = Append(newChanges[w], c)
                 /\ \A v \in Worker \ {w} : newChanges'[v] = newChanges[v]
            ELSE newChanges' = newChanges /\ changes' = Append(changes, c)

LEMMA WriteIs ==
  ASSUME Shape, NEW w \in Worker, NEW o, NEW action, NEW new,
         Write(w, op[w].tx, o, action, new)
  PROVE  Wrote(w, o, action, new)
<1> DEFINE c == [id |-> op[w].id, obj |-> o, action |-> action, new |-> new,
                 replaced |-> Visible(w, o), tx |-> op[w].tx]
<1>1. /\ c.id = op[w].id /\ c.obj = o /\ c.tx = op[w].tx
      /\ c.action = action /\ c.new = new
  OBVIOUS
<1>2. CASE op[w].tx
  <2>1. newChanges' = [newChanges EXCEPT ![w] = Append(@, c)] /\ changes' = changes
    BY <1>2 DEF Write
  <2> HIDE DEF c
  <2> QED BY <1>1, <1>2, <2>1 DEF Shape, ChangeShape, Wrote
<1>3. CASE ~op[w].tx
  <2>1. newChanges' = newChanges /\ changes' = Append(changes, c)
    BY <1>3 DEF Write
  <2> HIDE DEF c
  <2> QED BY <1>1, <1>3, <2>1 DEF Wrote
<1> QED BY <1>2, <1>3

LEMMA AppendToIs ==
  ASSUME Shape, NEW w \in Worker, NEW l \in Log, NEW e, AppendTo(w, l, e)
  PROVE  /\ changes' = changes /\ newChanges' = newChanges /\ opSeq' = opSeq
         /\ \A v \in Worker \ {w} : newLog'[v] = newLog[v]
         /\ \A k \in Log :
              /\ log'[k] = IF k = l /\ ~op[w].tx THEN Append(log[k], e) ELSE log[k]
              /\ newLog'[w][k] = IF k = l /\ op[w].tx THEN Append(newLog[w][k], e)
                                 ELSE newLog[w][k]
<1>1. changes' = changes /\ newChanges' = newChanges /\ opSeq' = opSeq
  BY DEF AppendTo
<1>2. CASE op[w].tx
  <2>1. newLog' = [newLog EXCEPT ![w][l] = Append(@, e)] /\ log' = log
    BY <1>2 DEF AppendTo
  <2>2. DOMAIN newLog = Worker /\ DOMAIN newLog[w] = Log
    BY DEF Shape, LogShape
  <2> QED BY <1>1, <1>2, <2>1, <2>2
<1>3. CASE ~op[w].tx
  <2>1. log' = [log EXCEPT ![l] = Append(@, e)] /\ newLog' = newLog
    BY <1>3 DEF AppendTo
  <2> QED BY <1>1, <1>3, <2>1 DEF Shape, LogShape
<1> QED BY <1>2, <1>3

-----------------------------------------------------------------------------
(* The ids of what has been done.                                          *)

LEMMA IdsOfUnion ==
  ASSUME NEW S, NEW T
  PROVE  IdsOf(S \cup T) = IdsOf(S) \cup IdsOf(T)
BY DEF IdsOf

LEMMA IdsOfThree ==
  ASSUME NEW S, NEW T, NEW U
  PROVE  IdsOf(S \cup T \cup U) = IdsOf(S) \cup IdsOf(T) \cup IdsOf(U)
<1>1. IdsOf(S \cup T \cup U) = IdsOf(S \cup T) \cup IdsOf(U)
  BY IdsOfUnion
<1>2. IdsOf(S \cup T) = IdsOf(S) \cup IdsOf(T)
  BY IdsOfUnion
<1> QED BY <1>1, <1>2

LEMMA IdsOfMember ==
  ASSUME NEW S, NEW x \in S
  PROVE  x.id \in IdsOf(S)
BY DEF IdsOf

LEMMA IdsOfAppend ==
  ASSUME NEW s, NEW e, IsSequence(s)
  PROVE  IdsOf(Range(Append(s, e))) = IdsOf(Range(s)) \cup {e.id}
<1>1. Range(Append(s, e)) = Range(s) \cup {e}
  BY RangeOfAppend
<1>2. IdsOf({e}) = {e.id}
  BY DEF IdsOf
<1> QED BY <1>1, <1>2, IdsOfUnion

LEMMA IdsOfNone == IdsOf({}) = {}
BY DEF IdsOf

LEMMA CommittedIdsAre ==
  /\ CommittedIds = IdsOf(Range(changes)) \cup IdsOf(Range(log["dedicated"]))
                      \cup IdsOf(Range(log["central"]))
  /\ \A l \in Log : IdsOf(Range(log[l])) \subseteq CommittedIds
<1>1. CommittedIds = IdsOf(Range(changes)) \cup IdsOf(Range(log["dedicated"]))
                       \cup IdsOf(Range(log["central"]))
  BY IdsOfThree DEF CommittedIds
<1> QED BY <1>1 DEF Log

LEMMA PendingIdsAre ==
  ASSUME NEW w
  PROVE  /\ PendingIds(w) = IdsOf(Range(newChanges[w])) \cup IdsOf(Range(newLog[w]["dedicated"]))
                              \cup IdsOf(Range(newLog[w]["central"]))
         /\ \A l \in Log : IdsOf(Range(newLog[w][l])) \subseteq PendingIds(w)
<1>1. PendingIds(w) = IdsOf(Range(newChanges[w])) \cup IdsOf(Range(newLog[w]["dedicated"]))
                        \cup IdsOf(Range(newLog[w]["central"]))
  BY IdsOfThree DEF PendingIds
<1> QED BY <1>1 DEF Log

\* The ids stay apart when a step of w adds at most its operation's, or commits.
OwnId(w) == {op[w].id} \ {0}
LEMMA IdsMove ==
  ASSUME OpShape, IdsInv, NEW w \in Worker,
         \A v \in Worker \ {w} : /\ op'[v] = op[v] /\ pc'[v] = pc[v]
                                 /\ PendingIds(v)' = PendingIds(v),
         opSeq' \in Nat, opSeq <= opSeq',
         CommittedIds' \subseteq CommittedIds \cup PendingIds(w) \cup OwnId(w),
         PendingIds(w)' \subseteq PendingIds(w) \cup OwnId(w),
         PendingIds(w)' \cap CommittedIds' = {},
         \/ op'[w].id \in {0, op[w].id}
         \/ op'[w].id = opSeq + 1,
         pc'[w] # "idle" =>
           /\ IF op'[w].tx THEN op'[w].id \notin CommittedIds' ELSE op'[w].id \notin PendingIds(w)'
           /\ \A i \in PendingIds(w)' : i <= op'[w].id
  PROVE  IdsInv'
<1> DEFINE C == CommittedIds
           P == [v \in Worker |-> PendingIds(v)]
           D == CommittedIds'
           Q == PendingIds(w)'
           own == OwnId(w)
<1>1. /\ opSeq \in Nat
      /\ \A v \in Worker : op[v].id \in 0..opSeq
      /\ \A v \in Worker \ {w} : op[v].id = op[w].id => op[v].id = 0
  BY DEF OpShape, NoOp
<1>2. own \subseteq 1..opSeq /\ (\A v \in Worker \ {w} : op[v].id \notin own)
  BY <1>1 DEF OwnId
<1>3. /\ C \subseteq 1..opSeq
      /\ \A v \in Worker : PendingIds(v) \subseteq 1..opSeq /\ PendingIds(v) \cap C = {}
      /\ \A v \in Worker : \A u \in Worker \ {v} :
           PendingIds(u) \cap PendingIds(v) = {} /\ op[u].id \notin PendingIds(v)
      /\ \A v \in Worker : pc[v] # "idle" =>
            /\ IF op[v].tx THEN op[v].id \notin C ELSE op[v].id \notin PendingIds(v)
            /\ \A i \in PendingIds(v) : i <= op[v].id
  BY DEF IdsInv
<1>4. D \subseteq C \cup PendingIds(w) \cup own /\ Q \subseteq PendingIds(w) \cup own /\ Q \cap D = {}
  OBVIOUS
<1> HIDE DEF C, D, Q, own
<1>5. D \subseteq 1..opSeq' /\ Q \subseteq 1..opSeq'
  <2>1. D \subseteq 1..opSeq /\ Q \subseteq 1..opSeq
    BY <1>2, <1>3, <1>4
  <2>2. 1..opSeq \subseteq 1..opSeq'
    BY <1>1
  <2> QED BY <2>1, <2>2
<1>6. ASSUME NEW v \in Worker \ {w}
      PROVE  /\ PendingIds(v) \subseteq 1..opSeq' /\ PendingIds(v) \cap D = {}
             /\ PendingIds(v) \cap Q = {} /\ op[v].id \notin Q /\ op'[w].id \notin PendingIds(v)
             /\ op[v].tx /\ pc[v] # "idle" => op[v].id \notin D
  <2>1. /\ PendingIds(v) \subseteq 1..opSeq /\ PendingIds(v) \cap C = {}
        /\ PendingIds(v) \cap PendingIds(w) = {} /\ op[v].id \notin PendingIds(w)
        /\ op[w].id \notin PendingIds(v)
    BY <1>3
  <2>2. PendingIds(v) \cap own = {}
    BY <2>1 DEF own, OwnId
  <2>3. op'[w].id \notin PendingIds(v)
    BY <1>1, <2>1
  <2>4. op[v].id \notin Q
    BY <1>2, <1>4, <2>1
  <2>5. op[v].tx /\ pc[v] # "idle" => op[v].id \notin D
    BY <1>2, <1>3, <1>4, <2>1
  <2>6. PendingIds(v) \subseteq 1..opSeq'
    BY <1>1, <2>1
  <2> QED BY <1>4, <2>1, <2>2, <2>3, <2>4, <2>5, <2>6
<1>7. ASSUME NEW v \in Worker
      PROVE  /\ PendingIds(v)' \subseteq 1..opSeq' /\ PendingIds(v)' \cap D = {}
             /\ \A u \in Worker \ {v} : PendingIds(u)' \cap PendingIds(v)' = {}
                                        /\ op'[u].id \notin PendingIds(v)'
             /\ pc'[v] # "idle" =>
                  /\ IF op'[v].tx THEN op'[v].id \notin D ELSE op'[v].id \notin PendingIds(v)'
                  /\ \A i \in PendingIds(v)' : i <= op'[v].id
  <2>1. CASE v = w
    <3>1. PendingIds(v)' = Q
      BY <2>1 DEF Q
    <3>2. \A u \in Worker \ {v} : PendingIds(u)' \cap Q = {} /\ op'[u].id \notin Q
      BY <1>6, <2>1
    <3> QED BY <1>4, <1>5, <2>1, <3>1, <3>2 DEF D
  <2>2. CASE v # w
    <3>1. PendingIds(v)' = PendingIds(v) /\ op'[v] = op[v] /\ pc'[v] = pc[v]
      BY <2>2
    <3>2. ASSUME NEW u \in Worker \ {v}
          PROVE  PendingIds(u)' \cap PendingIds(v) = {} /\ op'[u].id \notin PendingIds(v)
      <4>1. CASE u = w
        BY <1>6, <2>2, <4>1 DEF Q
      <4>2. CASE u # w
        BY <1>3, <3>2, <4>2
      <4> QED BY <4>1, <4>2
    <3> QED BY <1>3, <1>6, <2>2, <3>1, <3>2
  <2> QED BY <2>1, <2>2
<1> QED BY <1>5, <1>7 DEF IdsInv, D

-----------------------------------------------------------------------------
(* Steps and the history.                                                  *)

\* What other workers have under way is not disturbed by a step of w.
LEMMA OthersHistory ==
  ASSUME Shape, HistoryInv, NEW w \in Worker, NEW v \in Worker \ {w},
         op'[v] = op[v], pc'[v] = pc[v], newChanges'[v] = newChanges[v], newLog'[v] = newLog[v],
         Range(changes) \subseteq Range(changes'),
         \A c \in Range(changes') :
           c \in Range(changes) \/ c.id \in PendingIds(w) \cup OwnId(w),
         \A l \in Log : \A e \in Range(log'[l]) :
           e \in Range(log[l]) \/ e.id \in PendingIds(w) \cup OwnId(w)
  PROVE  OwnHistory(v)'
<1>1. OwnHistory(v) /\ (pc[v] # "idle" => op[v].id # 0)
  BY DEF HistoryInv, Shape, OpShape
<1>2. pc[v] # "idle" => op[v].id \notin PendingIds(w) \cup OwnId(w)
  BY DEF HistoryInv, IdsInv, OwnId, Shape, OpShape
<1>3. pc[v] # "idle" /\ op[v].id \in IdsOf(Range(changes') \cup Range(newChanges[v])) =>
        op[v].id \in IdsOf(Range(changes) \cup Range(newChanges[v]))
  BY <1>2 DEF IdsOf
<1>4. ASSUME NEW l \in Log, pc[v] # "idle", op[v].id \in IdsOf(Range(OwnLog(v, l)'))
      PROVE  op[v].id \in IdsOf(Range(OwnLog(v, l)))
  BY <1>2, <1>4 DEF IdsOf, OwnLog
<1>5. PhaseInv(v)'
  <2>1. "dedicated" \in Log /\ "central" \in Log
    BY DEF Log
  <2>2. PhaseInv(v) /\ (Unwritten(v)' <=> Unwritten(v)) /\ (Unwritten(v) => pc[v] # "idle")
    BY <1>1 DEF OwnHistory, Unwritten
  <2>3. Unwritten(v) =>
          op[v].todo = {} /\ op[v].id \notin IdsOf(Range(changes') \cup Range(newChanges[v]))
    BY <1>3, <2>2 DEF PhaseInv
  <2>4. Unwritten(v) \/ pc[v] = "dedicated" =>
          op[v].id \notin IdsOf(Range(OwnLog(v, "dedicated")'))
    BY <1>4, <2>1, <2>2 DEF PhaseInv
  <2>5. Unwritten(v) \/ pc[v] \in {"dedicated", "central"} =>
          op[v].id \notin IdsOf(Range(OwnLog(v, "central")'))
    BY <1>4, <2>1, <2>2 DEF PhaseInv
  <2>6. \A e \in op[v].todo : op[v].tx \/ \E c \in Range(changes') : c.obj = e.obj /\ ~c.tx
    BY <2>2 DEF PhaseInv
  <2> QED BY <2>2, <2>3, <2>4, <2>5, <2>6 DEF PhaseInv
<1>6. AgreeInv(v)'
  <2>1. AgreeInv(v) /\ PhaseInv(v)
    BY <1>1 DEF OwnHistory
  <2>2. pc[v] # "idle" /\ ~op[v].tx => Agree(op[v].todo, Range(changes'))
    <3> SUFFICES ASSUME pc[v] # "idle", ~op[v].tx, NEW e \in op[v].todo, NEW c \in Range(changes'),
                        e.id = c.id
                 PROVE  e.action = c.action /\ e.new = c.new
      BY DEF Agree
    <3>1. e.id = op[v].id
      BY <2>1 DEF PhaseInv
    <3>2. c \in Range(changes)
      BY <1>2, <3>1
    <3> QED BY <2>1, <3>2 DEF AgreeInv, Agree
  <2> QED BY <2>1, <2>2 DEF AgreeInv
<1> QED BY <1>1, <1>5, <1>6 DEF OwnHistory

\* w ends, starts or goes on with an operation.
Runs(w) ==
  \/ pc'[w] = "idle" /\ op'[w].id = 0
  \/ op'[w].id = opSeq + 1
  \/ pc[w] # "idle" /\ op'[w].id = op[w].id /\ op'[w].tx = op[w].tx

\* A step that changes no row and appends no entry.
LEMMA QuietHistory ==
  ASSUME Shape, HistoryInv, NEW w \in Worker,
         log' = log, newLog' = newLog, changes' = changes, newChanges' = newChanges,
         opSeq' \in Nat, opSeq <= opSeq',
         \A v \in Worker \ {w} : op'[v] = op[v] /\ pc'[v] = pc[v],
         Runs(w), PhaseInv(w)', AgreeInv(w)'
  PROVE  HistoryInv'
<1>1. CommittedIds' = CommittedIds /\ \A v \in Worker : PendingIds(v)' = PendingIds(v)
  BY DEF CommittedIds, PendingIds
<1>2. IdsInv /\ OpShape /\ opSeq \in Nat
  BY DEF HistoryInv, Shape, OpShape
<1>3. /\ CommittedIds \subseteq 1..opSeq /\ PendingIds(w) \subseteq 1..opSeq
      /\ PendingIds(w) \cap CommittedIds = {}
      /\ pc[w] # "idle" =>
           /\ IF op[w].tx THEN op[w].id \notin CommittedIds ELSE op[w].id \notin PendingIds(w)
           /\ \A i \in PendingIds(w) : i <= op[w].id
  BY <1>2 DEF IdsInv
<1>4. pc'[w] # "idle" =>
        /\ IF op'[w].tx THEN op'[w].id \notin CommittedIds ELSE op'[w].id \notin PendingIds(w)
        /\ \A i \in PendingIds(w) : i <= op'[w].id
  <2>1. CASE op'[w].id = opSeq + 1
    BY <1>2, <1>3, <2>1
  <2>2. CASE pc[w] # "idle" /\ op'[w].id = op[w].id /\ op'[w].tx = op[w].tx
    BY <1>3, <2>2
  <2> QED BY <2>1, <2>2 DEF Runs
<1>5. IdsInv'
  <2>1. op'[w].id \in {0, op[w].id} \/ op'[w].id = opSeq + 1
    BY DEF Runs
  <2> QED BY <1>1, <1>2, <1>3, <1>4, <2>1, IdsMove
<1>6. CommittedHistory'
  BY DEF HistoryInv, CommittedHistory, TxOnly
<1>7. OwnHistory(w)'
  BY DEF HistoryInv, OwnHistory
<1>8. \A v \in Worker \ {w} : OwnHistory(v)'
  BY OthersHistory
<1> QED BY <1>5, <1>6, <1>7, <1>8 DEF HistoryInv

\* COMMIT: what was pending comes after all that was committed.
LEMMA CommitHistory ==
  ASSUME Shape, HistoryInv, NEW w \in Worker, Commit(w)
  PROVE  HistoryInv'
<1>1. /\ \A v \in Worker \ {w} : op'[v] = op[v] /\ pc'[v] = pc[v]
      /\ pc'[w] = "idle" /\ op'[w] = NoOp /\ opSeq' = opSeq /\ opSeq \in Nat
  BY DEF Commit, Forget, Shape, OpShape
<1>2. /\ Range(changes') = Range(changes) \cup Range(newChanges[w])
      /\ \A l \in Log : Range(log'[l]) = Range(log[l]) \cup Range(newLog[w][l])
      /\ \A v \in Worker \ {w} : newChanges'[v] = newChanges[v] /\ newLog'[v] = newLog[v]
      /\ Range(newChanges'[w]) = {} /\ \A l \in Log : Range(newLog'[w][l]) = {}
  BY CommitEffect
<1>3. /\ changes' = changes \o newChanges[w] /\ \A l \in Log : log'[l] = log[l] \o newLog[w][l]
      /\ newChanges'[w] = <<>> /\ \A l \in Log : newLog'[w][l] = <<>>
  BY DEF Commit, Forget, Shape, LogShape, ChangeShape
<1>4. IdsInv /\ OpShape /\ OwnHistory(w) /\ CommittedHistory
  BY DEF HistoryInv, Shape
<1>5. PendingIds(w) \cap CommittedIds = {} /\ PendingIds(w) \subseteq 1..opSeq
      /\ CommittedIds \subseteq 1..opSeq
  BY <1>4 DEF IdsInv
<1>6. CommittedIds' = CommittedIds \cup PendingIds(w) /\ PendingIds(w)' = {}
  <2>1. "dedicated" \in Log /\ "central" \in Log
    BY DEF Log
  <2>2. CommittedIds' = IdsOf(Range(changes')) \cup IdsOf(Range(log'["dedicated"]))
                          \cup IdsOf(Range(log'["central"]))
    BY IdsOfThree DEF CommittedIds
  <2>3. /\ IdsOf(Range(changes')) = IdsOf(Range(changes)) \cup IdsOf(Range(newChanges[w]))
        /\ \A l \in Log :
             IdsOf(Range(log'[l])) = IdsOf(Range(log[l])) \cup IdsOf(Range(newLog[w][l]))
    <3>1. IdsOf(Range(changes')) = IdsOf(Range(changes)) \cup IdsOf(Range(newChanges[w]))
      BY <1>2, IdsOfUnion
    <3>2. ASSUME NEW l \in Log
          PROVE  IdsOf(Range(log'[l])) = IdsOf(Range(log[l])) \cup IdsOf(Range(newLog[w][l]))
      <4>1. Range(log'[l]) = Range(log[l]) \cup Range(newLog[w][l])
        BY <1>2
      <4> QED BY <4>1, IdsOfUnion
    <3> QED BY <3>1, <3>2
  <2>4. CommittedIds' = CommittedIds \cup PendingIds(w)
    BY <2>1, <2>2, <2>3, CommittedIdsAre, PendingIdsAre
  <2>5. PendingIds(w)' = {}
    BY <1>2, <2>1, IdsOfNone DEF PendingIds
  <2> QED BY <2>4, <2>5
<1>7. \A v \in Worker \ {w} : PendingIds(v)' = PendingIds(v)
  BY <1>2 DEF PendingIds
<1>8. IdsInv'
  BY <1>1, <1>4, <1>6, <1>7, IdsMove DEF NoOp
<1>9. ASSUME NEW l \in Log
      PROVE  /\ \A c \in Range(newChanges[w]) : c.id \in Int /\ \A e \in Range(log[l]) : c.id # e.id
             /\ \A e \in Range(newLog[w][l]) : e.id \in Int /\ \A c \in Range(changes) : c.id # e.id
  <2>1. IdsOf(Range(log[l])) \subseteq CommittedIds /\ IdsOf(Range(newLog[w][l])) \subseteq PendingIds(w)
    BY CommittedIdsAre, PendingIdsAre
  <2>2. IdsOf(Range(changes)) \subseteq CommittedIds /\ IdsOf(Range(newChanges[w])) \subseteq PendingIds(w)
    BY CommittedIdsAre, PendingIdsAre
  <2>3. \A c \in Range(newChanges[w]) : c.id \in PendingIds(w)
    BY <2>2, IdsOfMember
  <2>4. \A c \in Range(changes) : c.id \in CommittedIds
    BY <2>2, IdsOfMember
  <2>5. \A e \in Range(newLog[w][l]) : e.id \in PendingIds(w)
    BY <2>1, IdsOfMember
  <2>6. \A e \in Range(log[l]) : e.id \in CommittedIds
    BY <2>1, IdsOfMember
  <2> QED BY <1>5, <2>3, <2>4, <2>5, <2>6
<1>10. ASSUME NEW l \in Log PROVE Agree(Range(log'[l]), Range(changes'))
  <2>1. Agree(Range(log[l]), Range(changes)) /\ Agree(Range(newLog[w][l]), Range(newChanges[w]))
    BY <1>4 DEF CommittedHistory, OwnHistory, AgreeInv
  <2> QED BY <1>2, <1>9, <2>1 DEF Agree
<1>11. ASSUME NEW l \in Log, NEW o \in Obj, TxOnly(o)' PROVE InOrder(changes', log'[l], o)
  <2>1. TxOnly(o)
    BY <1>2, <1>11 DEF TxOnly
  <2>2. InOrder(changes, log[l], o)
    BY <1>4, <2>1 DEF CommittedHistory
  <2>3. /\ IsSequence(changes) /\ IsSequence(newChanges[w])
        /\ IsSequence(log[l]) /\ IsSequence(newLog[w][l])
    BY DEF Shape, LogShape, ChangeShape
  <2>4. InOrder(newChanges[w], newLog[w][l], o)
    BY <1>4, <1>9, <2>3, IncreasingInOrder DEF OwnHistory
  <2>5. InOrder(changes \o newChanges[w], log[l] \o newLog[w][l], o)
    BY <1>9, <2>2, <2>3, <2>4, InOrderConcat
  <2> QED BY <1>3, <2>5
<1>12. OwnHistory(w)'
  <2>1. \A l \in Log : Agree(Range(newLog'[w][l]), Range(newChanges'[w]))
    BY <1>2 DEF Agree
  <2>2. AgreeInv(w)'
    BY <1>1, <2>1 DEF AgreeInv
  <2>3. Increasing(newChanges'[w]) /\ \A l \in Log : Increasing(newLog'[w][l])
    BY <1>3 DEF Increasing
  <2>4. PhaseInv(w)'
    BY <1>1 DEF PhaseInv, Unwritten, NoOp
  <2> QED BY <2>2, <2>3, <2>4 DEF OwnHistory
<1>13. ASSUME NEW v \in Worker \ {w} PROVE OwnHistory(v)'
  <2>1. \A c \in Range(changes') : c \in Range(changes) \/ c.id \in PendingIds(w) \cup OwnId(w)
    BY <1>2, PendingIdsAre, IdsOfMember
  <2>2. \A l \in Log : \A e \in Range(log'[l]) :
          e \in Range(log[l]) \/ e.id \in PendingIds(w) \cup OwnId(w)
    BY <1>2, PendingIdsAre, IdsOfMember
  <2> QED BY <1>1, <1>2, <2>1, <2>2, OthersHistory
<1> QED BY <1>8, <1>10, <1>11, <1>12, <1>13 DEF HistoryInv, CommittedHistory

LEMMA RaiseHistory ==
  ASSUME Shape, HistoryInv, NEW w \in Worker, Raise(w)
  PROVE  HistoryInv'
<1>1. /\ \A v \in Worker \ {w} : op'[v] = op[v] /\ pc'[v] = pc[v]
      /\ pc'[w] = "idle" /\ op'[w] = NoOp /\ opSeq' = opSeq /\ opSeq \in Nat
      /\ log' = log /\ changes' = changes
  BY DEF Raise, Forget, committed, Shape, OpShape
<1>2. /\ Range(newChanges'[w]) = {} /\ \A l \in Log : Range(newLog'[w][l]) = {}
      /\ \A v \in Worker \ {w} : newChanges'[v] = newChanges[v] /\ newLog'[v] = newLog[v]
  BY ForgetEffect DEF Raise
<1>3. newChanges'[w] = <<>> /\ \A l \in Log : newLog'[w][l] = <<>>
  BY DEF Raise, Forget, Shape, LogShape, ChangeShape
<1>4. IdsInv /\ OpShape
  BY DEF HistoryInv, Shape
<1>5. CommittedIds' = CommittedIds /\ PendingIds(w)' = {}
  <2>1. "dedicated" \in Log /\ "central" \in Log
    BY DEF Log
  <2> QED BY <1>1, <1>2, <2>1, IdsOfNone DEF CommittedIds, PendingIds
<1>6. \A v \in Worker \ {w} : PendingIds(v)' = PendingIds(v)
  BY <1>2 DEF PendingIds
<1>7. IdsInv'
  BY <1>1, <1>4, <1>5, <1>6, IdsMove DEF NoOp
<1>8. CommittedHistory'
  BY <1>1 DEF HistoryInv, CommittedHistory, TxOnly
<1>9. OwnHistory(w)'
  <2>1. \A l \in Log : Agree(Range(newLog'[w][l]), Range(newChanges'[w]))
    BY <1>2 DEF Agree
  <2>2. AgreeInv(w)'
    BY <1>1, <2>1 DEF AgreeInv
  <2>3. Increasing(newChanges'[w]) /\ \A l \in Log : Increasing(newLog'[w][l])
    BY <1>3 DEF Increasing
  <2>4. PhaseInv(w)'
    BY <1>1 DEF PhaseInv, Unwritten, NoOp
  <2> QED BY <2>2, <2>3, <2>4 DEF OwnHistory
<1>10. \A v \in Worker \ {w} : OwnHistory(v)'
  BY <1>1, <1>2, OthersHistory
<1> QED BY <1>7, <1>8, <1>9, <1>10 DEF HistoryInv

\* INSERT, UPDATE, DELETE: the first thing an operation does, once.  Its entry is to follow.
LEMMA WriteHistory ==
  ASSUME Shape, HistoryInv, NEW w \in Worker, Unwritten(w), NEW o, NEW action, NEW new,
         Write(w, op[w].tx, o, action, new),
         log' = log, newLog' = newLog, opSeq' = opSeq,
         \A v \in Worker \ {w} : op'[v] = op[v] /\ pc'[v] = pc[v],
         op'[w].id = op[w].id, op'[w].tx = op[w].tx, op'[w].next = op[w].next,
         op'[w].doomed \subseteq op[w].doomed, pc'[w] = "dedicated",
         NEW e, op'[w].todo = {e}, e.id = op[w].id, e.obj = o, e.action = action, e.new = new
  PROVE  HistoryInv'
<1>1. PICK c : /\ c.id = op[w].id /\ c.obj = o /\ c.tx = op[w].tx
               /\ c.action = action /\ c.new = new
               /\ IF op[w].tx
                  THEN /\ changes' = changes
                       /\ newChanges'[w] = Append(newChanges[w], c)
                       /\ \A v \in Worker \ {w} : newChanges'[v] = newChanges[v]
                  ELSE newChanges' = newChanges /\ changes' = Append(changes, c)
  <2>1. Wrote(w, o, action, new)
    BY WriteIs
  <2> QED BY <2>1 DEF Wrote
<1>2. /\ IdsInv /\ OpShape /\ CommittedHistory /\ PhaseInv(w) /\ AgreeInv(w)
      /\ Increasing(newChanges[w]) /\ \A l \in Log : Increasing(newLog[w][l])
  BY DEF HistoryInv, OwnHistory, Shape
<1>3. /\ IsSequence(changes) /\ IsSequence(newChanges[w])
      /\ \A l \in Log : IsSequence(log[l]) /\ IsSequence(newLog[w][l])
  BY DEF Shape, LogShape, ChangeShape
<1>4. /\ pc[w] # "idle" /\ op[w].id \in Nat /\ op[w].id # 0 /\ op[w].tx \in BOOLEAN
      /\ opSeq \in Nat
  BY DEF Unwritten, Shape, OpShape
<1>5. \A v \in Worker \ {w} : newChanges'[v] = newChanges[v] /\ newLog'[v] = newLog[v]
  BY <1>1
<1>6. /\ Range(changes') = Range(changes) \cup (IF op[w].tx THEN {} ELSE {c})
      /\ Range(newChanges'[w]) = Range(newChanges[w]) \cup (IF op[w].tx THEN {c} ELSE {})
  <2>1. /\ Range(Append(changes, c)) = Range(changes) \cup {c}
        /\ Range(Append(newChanges[w], c)) = Range(newChanges[w]) \cup {c}
    BY <1>3, RangeOfAppend
  <2>2. CASE op[w].tx
    BY <1>1, <2>1, <2>2
  <2>3. CASE ~op[w].tx
    BY <1>1, <2>1, <2>3
  <2> QED BY <2>2, <2>3
<1>7. /\ op[w].id \notin IdsOf(Range(changes)) /\ op[w].id \notin IdsOf(Range(newChanges[w]))
      /\ \A l \in Log : op[w].id \notin IdsOf(Range(OwnLog(w, l)))
  BY <1>2, IdsOfUnion DEF PhaseInv, Log
<1>8. /\ CommittedIds \subseteq 1..opSeq /\ PendingIds(w) \subseteq 1..opSeq
      /\ PendingIds(w) \cap CommittedIds = {}
      /\ IF op[w].tx THEN op[w].id \notin CommittedIds ELSE op[w].id \notin PendingIds(w)
      /\ \A i \in PendingIds(w) : i <= op[w].id
  BY <1>2, <1>4 DEF IdsInv
<1>9. /\ CommittedIds' = CommittedIds \cup (IF op[w].tx THEN {} ELSE {op[w].id})
      /\ PendingIds(w)' = PendingIds(w) \cup (IF op[w].tx THEN {op[w].id} ELSE {})
  <2>1. IdsOf({c}) = {op[w].id} /\ IdsOf({}) = {}
    BY <1>1 DEF IdsOf
  <2>2. CommittedIds' = IdsOf(Range(changes')) \cup IdsOf(Range(log["dedicated"]))
                          \cup IdsOf(Range(log["central"]))
    BY IdsOfThree DEF CommittedIds
  <2>3. PendingIds(w)' = IdsOf(Range(newChanges'[w])) \cup IdsOf(Range(newLog[w]["dedicated"]))
                           \cup IdsOf(Range(newLog[w]["central"]))
    BY IdsOfThree DEF PendingIds
  <2>4. IdsOf(Range(changes')) = IdsOf(Range(changes)) \cup (IF op[w].tx THEN {} ELSE {op[w].id})
    BY <1>6, <2>1, IdsOfUnion
  <2>5. IdsOf(Range(newChanges'[w])) =
          IdsOf(Range(newChanges[w])) \cup (IF op[w].tx THEN {op[w].id} ELSE {})
    BY <1>6, <2>1, IdsOfUnion
  <2> QED BY <2>2, <2>3, <2>4, <2>5, CommittedIdsAre, PendingIdsAre
<1>10. IdsInv'
  <2>1. \A v \in Worker \ {w} : PendingIds(v)' = PendingIds(v)
    BY <1>5 DEF PendingIds
  <2>2. OwnId(w) = {op[w].id}
    BY <1>4 DEF OwnId
  <2>3. PendingIds(w)' \cap CommittedIds' = {}
    BY <1>8, <1>9
  <2>4. /\ IF op'[w].tx THEN op'[w].id \notin CommittedIds' ELSE op'[w].id \notin PendingIds(w)'
        /\ \A i \in PendingIds(w)' : i <= op'[w].id
    BY <1>4, <1>8, <1>9
  <2>5. /\ CommittedIds' \subseteq CommittedIds \cup PendingIds(w) \cup OwnId(w)
        /\ PendingIds(w)' \subseteq PendingIds(w) \cup OwnId(w)
    BY <1>9, <2>2
  <2> QED BY <1>2, <1>4, <2>1, <2>3, <2>4, <2>5, IdsMove
<1>11. ASSUME NEW l \in Log PROVE Agree(Range(log[l]), Range(changes'))
  <2>1. Agree(Range(log[l]), Range(changes))
    BY <1>2 DEF CommittedHistory
  <2>2. ~op[w].tx => \A x \in Range(log[l]) : x.id # c.id
    BY <1>1, <1>7, IdsOfMember DEF OwnLog
  <2> QED BY <1>6, <2>1, <2>2 DEF Agree
<1>12. ASSUME NEW l \in Log, NEW q \in Obj, TxOnly(q)' PROVE InOrder(changes', log[l], q)
  <2>1. TxOnly(q) /\ (~op[w].tx => c.obj # q)
    BY <1>1, <1>6, <1>12 DEF TxOnly
  <2>2. InOrder(changes, log[l], q)
    BY <1>2, <2>1 DEF CommittedHistory
  <2>3. CASE op[w].tx
    BY <1>1, <2>2, <2>3
  <2>4. CASE ~op[w].tx
    <3>1. InOrder(Append(changes, c), log[l], q)
      BY <1>3, <2>1, <2>2, <2>4, InOrderOthers
    <3> QED BY <1>1, <2>4, <3>1
  <2> QED BY <2>3, <2>4
<1>13. CommittedHistory'
  BY <1>11, <1>12 DEF CommittedHistory
<1>14. PhaseInv(w)'
  <2>1. ~Unwritten(w)' /\ pc'[w] = "dedicated"
    BY DEF Unwritten
  <2>2. \A l \in Log : op[w].id \notin IdsOf(Range(OwnLog(w, l)'))
    BY <1>7 DEF OwnLog
  <2>3. op[w].next = "done" /\ \A d, f \in op[w].doomed : d = f
    BY <1>2, <1>4 DEF PhaseInv
  <2>4. op[w].tx \/ \E x \in Range(changes') : x.obj = e.obj /\ ~x.tx
    BY <1>1, <1>6
  <2> QED BY <2>1, <2>2, <2>3, <2>4 DEF PhaseInv, Log
<1>15. AgreeInv(w)'
  <2>1. ASSUME NEW l \in Log PROVE Agree(Range(newLog[w][l]), Range(newChanges'[w]))
    <3>1. Agree(Range(newLog[w][l]), Range(newChanges[w]))
      BY <1>2 DEF AgreeInv
    <3>2. op[w].tx => \A x \in Range(newLog[w][l]) : x.id # c.id
      BY <1>1, <1>7, IdsOfMember DEF OwnLog
    <3> QED BY <1>6, <3>1, <3>2 DEF Agree
  <2>2. Agree({e}, IF op[w].tx THEN Range(newChanges'[w]) ELSE Range(changes'))
    <3>1. \A x \in Range(changes) \cup Range(newChanges[w]) : x.id # e.id
      BY <1>7, IdsOfMember
    <3> QED BY <1>1, <1>6, <3>1 DEF Agree
  <2> QED BY <2>1, <2>2 DEF AgreeInv
<1>16. Increasing(newChanges'[w])
  <2>1. \A x \in Range(newChanges[w]) : x.id \in PendingIds(w) /\ x.id # op[w].id
    BY <1>7, PendingIdsAre, IdsOfMember
  <2>2. \A x \in Range(newChanges[w]) : x.id < c.id
    BY <1>1, <1>4, <1>8, <2>1
  <2>3. Increasing(Append(newChanges[w], c))
    BY <1>2, <1>3, <2>2, IncreasingAppend
  <2> QED BY <1>1, <1>2, <2>3
<1>17. OwnHistory(w)'
  BY <1>2, <1>14, <1>15, <1>16 DEF OwnHistory
<1>18. ASSUME NEW v \in Worker \ {w} PROVE OwnHistory(v)'
  <2>1. \A x \in Range(changes') : x \in Range(changes) \/ x.id \in PendingIds(w) \cup OwnId(w)
    BY <1>1, <1>4, <1>6 DEF OwnId
  <2>2. Range(changes) \subseteq Range(changes')
    BY <1>6
  <2> QED BY <1>5, <2>1, <2>2, OthersHistory
<1> QED BY <1>10, <1>13, <1>17, <1>18 DEF HistoryInv

\* What the two appends of a handler have in common.
LEMMA AppendHistory ==
  ASSUME Shape, HistoryInv, NEW w \in Worker, NEW l \in Log, NEW e \in op[w].todo,
         AppendTo(w, l, e), pc[w] # "idle", op[w].id \notin IdsOf(Range(OwnLog(w, l))),
         \A v \in Worker \ {w} : op'[v] = op[v] /\ pc'[v] = pc[v],
         op'[w].id = op[w].id, op'[w].tx = op[w].tx, op'[w].todo \subseteq op[w].todo,
         PhaseInv(w)'
  PROVE  HistoryInv'
<1>1. /\ changes' = changes /\ newChanges' = newChanges /\ opSeq' = opSeq
      /\ \A v \in Worker \ {w} : newLog'[v] = newLog[v]
      /\ \A k \in Log :
           /\ log'[k] = IF k = l /\ ~op[w].tx THEN Append(log[k], e) ELSE log[k]
           /\ newLog'[w][k] = IF k = l /\ op[w].tx THEN Append(newLog[w][k], e) ELSE newLog[w][k]
  BY AppendToIs
<1>2. /\ IdsInv /\ OpShape /\ CommittedHistory /\ PhaseInv(w) /\ AgreeInv(w)
      /\ Increasing(newChanges[w]) /\ \A k \in Log : Increasing(newLog[w][k])
  BY DEF HistoryInv, OwnHistory, Shape
<1>3. /\ IsSequence(changes) /\ IsSequence(newChanges[w])
      /\ \A k \in Log : IsSequence(log[k]) /\ IsSequence(newLog[w][k])
  BY DEF Shape, LogShape, ChangeShape
<1>4. op[w].id \in Nat /\ op[w].id # 0 /\ op[w].tx \in BOOLEAN /\ opSeq \in Nat
  BY DEF Shape, OpShape
<1>5. /\ e.id = op[w].id
      /\ op[w].tx \/ \E c \in Range(changes) : c.obj = e.obj /\ ~c.tx
      /\ Agree(op[w].todo, IF op[w].tx THEN Range(newChanges[w]) ELSE Range(changes))
  BY <1>2 DEF PhaseInv, AgreeInv
<1>6. \A k \in Log :
        /\ Range(log'[k]) = Range(log[k]) \cup (IF k = l /\ ~op[w].tx THEN {e} ELSE {})
        /\ Range(newLog'[w][k]) = Range(newLog[w][k]) \cup (IF k = l /\ op[w].tx THEN {e} ELSE {})
  BY <1>1, <1>3, RangeOfAppend
<1>7. /\ CommittedIds \subseteq 1..opSeq /\ PendingIds(w) \subseteq 1..opSeq
      /\ PendingIds(w) \cap CommittedIds = {}
      /\ IF op[w].tx THEN op[w].id \notin CommittedIds ELSE op[w].id \notin PendingIds(w)
      /\ \A i \in PendingIds(w) : i <= op[w].id
  BY <1>2 DEF IdsInv
<1>8. /\ CommittedIds' \subseteq CommittedIds \cup (IF op[w].tx THEN {} ELSE {op[w].id})
      /\ PendingIds(w)' \subseteq PendingIds(w) \cup (IF op[w].tx THEN {op[w].id} ELSE {})
  <2>1. IdsOf({e}) = {op[w].id} /\ IdsOf({}) = {} /\ "dedicated" \in Log /\ "central" \in Log
    BY <1>5 DEF IdsOf, Log
  <2>2. CommittedIds' = IdsOf(Range(changes)) \cup IdsOf(Range(log'["dedicated"]))
                          \cup IdsOf(Range(log'["central"]))
    BY <1>1, IdsOfThree DEF CommittedIds
  <2>3. PendingIds(w)' = IdsOf(Range(newChanges[w])) \cup IdsOf(Range(newLog'[w]["dedicated"]))
                           \cup IdsOf(Range(newLog'[w]["central"]))
    BY <1>1, IdsOfThree DEF PendingIds
  <2>4. ASSUME NEW k \in Log
        PROVE  /\ IdsOf(Range(log'[k])) \subseteq
                    IdsOf(Range(log[k])) \cup (IF op[w].tx THEN {} ELSE {op[w].id})
               /\ IdsOf(Range(newLog'[w][k])) \subseteq
                    IdsOf(Range(newLog[w][k])) \cup (IF op[w].tx THEN {op[w].id} ELSE {})
    <3>1. /\ Range(log'[k]) = Range(log[k]) \cup (IF k = l /\ ~op[w].tx THEN {e} ELSE {})
          /\ Range(newLog'[w][k]) =
               Range(newLog[w][k]) \cup (IF k = l /\ op[w].tx THEN {e} ELSE {})
      BY <1>6
    <3> QED BY <2>1, <3>1, IdsOfUnion
  <2> QED BY <2>1, <2>2, <2>3, <2>4, CommittedIdsAre, PendingIdsAre
<1>9. OwnId(w) = {op[w].id}
  BY <1>4 DEF OwnId
<1>10. IdsInv'
  <2>1. \A v \in Worker \ {w} : PendingIds(v)' = PendingIds(v)
    BY <1>1 DEF PendingIds
  <2>2. PendingIds(w)' \cap CommittedIds' = {}
    BY <1>7, <1>8
  <2>3. /\ IF op'[w].tx THEN op'[w].id \notin CommittedIds' ELSE op'[w].id \notin PendingIds(w)'
        /\ \A i \in PendingIds(w)' : i <= op'[w].id
    BY <1>4, <1>7, <1>8
  <2>4. /\ CommittedIds' \subseteq CommittedIds \cup PendingIds(w) \cup OwnId(w)
        /\ PendingIds(w)' \subseteq PendingIds(w) \cup OwnId(w)
    BY <1>8, <1>9
  <2> QED BY <1>1, <1>2, <1>4, <2>1, <2>2, <2>3, <2>4, IdsMove
<1>11. ASSUME NEW k \in Log PROVE Agree(Range(log'[k]), Range(changes))
  <2>1. Agree(Range(log[k]), Range(changes))
    BY <1>2 DEF CommittedHistory
  <2>2. \A x \in Range(log'[k]) : x \in Range(log[k]) \/ (x = e /\ ~op[w].tx)
    BY <1>6
  <2> QED BY <1>5, <2>1, <2>2 DEF Agree
<1>12. ASSUME NEW k \in Log, NEW q \in Obj, TxOnly(q)' PROVE InOrder(changes, log'[k], q)
  <2>1. TxOnly(q) /\ (~op[w].tx => e.obj # q)
    BY <1>1, <1>5, <1>12 DEF TxOnly
  <2>2. InOrder(changes, log[k], q)
    BY <1>2, <2>1 DEF CommittedHistory
  <2>3. CASE k = l /\ ~op[w].tx
    <3>1. InOrder(changes, Append(log[k], e), q)
      BY <1>3, <2>1, <2>2, <2>3, InOrderOthers
    <3> QED BY <1>1, <2>3, <3>1
  <2>4. CASE ~(k = l /\ ~op[w].tx)
    BY <1>1, <2>2, <2>4
  <2> QED BY <2>3, <2>4
<1>13. CommittedHistory'
  BY <1>1, <1>11, <1>12 DEF CommittedHistory
<1>14. AgreeInv(w)'
  <2>1. ASSUME NEW k \in Log PROVE Agree(Range(newLog'[w][k]), Range(newChanges[w]))
    <3>1. Agree(Range(newLog[w][k]), Range(newChanges[w]))
      BY <1>2 DEF AgreeInv
    <3>2. \A x \in Range(newLog'[w][k]) : x \in Range(newLog[w][k]) \/ (x = e /\ op[w].tx)
      BY <1>6
    <3> QED BY <1>5, <3>1, <3>2 DEF Agree
  <2>2. Agree(op'[w].todo, IF op[w].tx THEN Range(newChanges[w]) ELSE Range(changes))
    BY <1>5 DEF Agree
  <2> QED BY <1>1, <2>1, <2>2 DEF AgreeInv
<1>15. ASSUME NEW k \in Log PROVE Increasing(newLog'[w][k])
  <2>1. CASE k = l /\ op[w].tx
    <3>1. \A x \in Range(newLog[w][k]) : x.id \in PendingIds(w) /\ x.id # op[w].id
      BY <2>1, PendingIdsAre, IdsOfMember DEF OwnLog
    <3>2. \A x \in Range(newLog[w][k]) : x.id < e.id
      BY <1>4, <1>5, <1>7, <3>1
    <3>3. Increasing(Append(newLog[w][k], e))
      BY <1>2, <1>3, <3>2, IncreasingAppend
    <3> QED BY <1>1, <2>1, <3>3
  <2>2. CASE ~(k = l /\ op[w].tx)
    BY <1>1, <1>2, <2>2
  <2> QED BY <2>1, <2>2
<1>16. OwnHistory(w)'
  BY <1>1, <1>2, <1>14, <1>15 DEF OwnHistory
<1>17. ASSUME NEW v \in Worker \ {w} PROVE OwnHistory(v)'
  <2>1. \A k \in Log : \A x \in Range(log'[k]) :
          x \in Range(log[k]) \/ x.id \in PendingIds(w) \cup OwnId(w)
    BY <1>5, <1>6, <1>9
  <2> QED BY <1>1, <2>1, OthersHistory
<1> QED BY <1>10, <1>13, <1>16, <1>17 DEF HistoryInv

LEMMA StartHistory ==
  ASSUME Shape, HistoryInv, NEW w \in Worker, NEW kind, NEW o, NEW label, Start(w, kind, o, label),
         o.id = opSeq + 1, o.todo = {}, o.next = "done", \A d, e \in o.doomed : d = e,
         label \in {"pre_save", "insert", "delete"}, label = "delete" => o.tx
  PROVE  HistoryInv'
<1>1. /\ \A v \in Worker \ {w} : op'[v] = op[v] /\ pc'[v] = pc[v]
      /\ op'[w] = o /\ pc'[w] = label /\ opSeq' = opSeq + 1 /\ opSeq \in Nat
      /\ log' = log /\ newLog' = newLog /\ changes' = changes /\ newChanges' = newChanges
  BY DEF Start, committed, pending, Shape, OpShape
<1>2. /\ CommittedIds \subseteq 1..opSeq /\ PendingIds(w) \subseteq 1..opSeq
      /\ opSeq + 1 \notin 1..opSeq
  BY <1>1 DEF HistoryInv, IdsInv
<1>3. o.id \notin CommittedIds /\ o.id \notin PendingIds(w)
  BY <1>2
<1>4. /\ o.id \notin IdsOf(Range(changes) \cup Range(newChanges[w]))
      /\ \A l \in Log : o.id \notin IdsOf(Range(log[l])) /\ o.id \notin IdsOf(Range(newLog[w][l]))
  <2>1. IdsOf(Range(changes) \cup Range(newChanges[w])) =
          IdsOf(Range(changes)) \cup IdsOf(Range(newChanges[w]))
    BY IdsOfUnion
  <2> QED BY <1>3, <2>1, CommittedIdsAre, PendingIdsAre
<1>5. PhaseInv(w)'
  BY <1>1, <1>4 DEF PhaseInv, Unwritten, OwnLog, Log
<1>6. AgreeInv(w)'
  BY <1>1 DEF HistoryInv, OwnHistory, AgreeInv, Agree
<1>7. Runs(w)
  BY <1>1 DEF Runs
<1> QED BY <1>1, <1>5, <1>6, <1>7, QuietHistory

\* DELETE of a row that is there, or of one that is gone: an entry is to follow in any case.
LEMMA DeleteHistory ==
  ASSUME Registered, Shape, HistoryInv, NEW w \in Worker, NEW d \in op[w].doomed, DeleteRow(w, d)
  PROVE  HistoryInv'
<1> DEFINE e == EntryOf(w, d.obj, "DELETE", d.old, Absent)
<1>1. e.id = op[w].id /\ e.obj = d.obj /\ e.action = "DELETE" /\ e.new = Absent
  BY DEF EntryOf
<1>2. pc[w] = "delete" /\ PhaseInv(w) /\ OwnHistory(w) /\ Unwritten(w)
  BY DEF DeleteRow, HistoryInv, OwnHistory, Unwritten
<1>3. /\ op[w].todo = {} /\ op[w].tx /\ op[w].next = "done" /\ op[w].doomed \ {d} = {}
      /\ \A x, y \in op[w].doomed : x = y
  BY <1>2 DEF PhaseInv
<1>4. /\ \A v \in Worker \ {w} : op'[v] = op[v] /\ pc'[v] = pc[v]
      /\ op'[w].id = op[w].id /\ op'[w].tx = op[w].tx /\ op'[w].next = op[w].next
      /\ op'[w].doomed = {} /\ op'[w].todo = {e} /\ pc'[w] = "dedicated"
      /\ log' = log /\ newLog' = newLog /\ opSeq' = opSeq /\ opSeq \in Nat
  BY <1>3 DEF DeleteRow, Shape, OpShape, OpFields
<1> HIDE DEF e
<1>5. CASE Write(w, op[w].tx, d.obj, "DELETE", Absent)
  <2>1. op'[w].doomed \subseteq op[w].doomed
    BY <1>4
  <2> QED BY <1>1, <1>2, <1>4, <1>5, <2>1, WriteHistory
<1>6. CASE UNCHANGED <<row, changes, newChanges>>
  <2>1. changes' = changes /\ newChanges' = newChanges
    BY <1>6
  <2>2. /\ op[w].id \notin IdsOf(Range(newChanges[w]))
        /\ \A l \in Log : op[w].id \notin IdsOf(Range(newLog[w][l]))
    BY <1>2, <1>3, IdsOfUnion DEF PhaseInv, OwnLog, Log
  <2>3. PhaseInv(w)'
    BY <1>1, <1>3, <1>4, <2>2 DEF PhaseInv, Unwritten, OwnLog, Log
  <2>4. AgreeInv(w)'
    <3>1. Agree({e}, Range(newChanges[w]))
      BY <1>1, <2>2, IdsOfMember DEF Agree
    <3> QED BY <1>2, <1>3, <1>4, <2>1, <3>1 DEF OwnHistory, AgreeInv
  <2>5. Runs(w)
    BY <1>2, <1>4 DEF Runs
  <2> QED BY <1>4, <2>1, <2>3, <2>4, <2>5, QuietHistory
<1> QED BY <1>5, <1>6 DEF DeleteRow

LEMMA InitHistory == Init => HistoryInv
<1> SUFFICES ASSUME Init PROVE HistoryInv
  OBVIOUS
<1>1. /\ changes = <<>> /\ opSeq = 0 /\ (\A l \in Log : log[l] = <<>>)
      /\ \A w \in Worker : /\ newChanges[w] = <<>> /\ (\A l \in Log : newLog[w][l] = <<>>)
                           /\ pc[w] = "idle" /\ op[w] = NoOp
  BY DEF Init
<1>2. Range(<<>>) = {} /\ IdsOf({}) = {} /\ {} \cup {} = {}
  BY EmptySequence, IdsOfNone
<1>3. CommittedIds = {} /\ \A w \in Worker : PendingIds(w) = {}
  BY <1>1, <1>2 DEF CommittedIds, PendingIds, Log
<1>4. IdsInv
  BY <1>1, <1>3 DEF IdsInv
<1>5. CommittedHistory
  BY <1>1, <1>2 DEF CommittedHistory, Agree, InOrder
<1>6. ASSUME NEW w \in Worker PROVE OwnHistory(w)
  <2>1. PhaseInv(w)
    BY <1>1 DEF PhaseInv, Unwritten, NoOp
  <2>2. AgreeInv(w)
    BY <1>1, <1>2 DEF AgreeInv, Agree
  <2> QED BY <1>1, <2>1, <2>2 DEF OwnHistory, Increasing
<1> QED BY <1>4, <1>5, <1>6 DEF HistoryInv

LEMMA HistoryStep ==
  ASSUME Registered, NoBulk PROVE Shape /\ HistoryInv /\ [Next]_vars => HistoryInv'
<1> SUFFICES ASSUME Shape, HistoryInv, [Next]_vars PROVE HistoryInv'
  OBVIOUS
<1>1. ASSUME NEW w \in Worker, Call(w) PROVE HistoryInv'
  <2>1. ASSUME NEW o \in Obj, NEW v \in Value, CreateCall(w, o, v) \/ SaveCall(w, o, v)
        PROVE  HistoryInv'
    <3> DEFINE made == [Operation(w) EXCEPT !.obj = o, !.new = v]
    <3>1. made.id = opSeq + 1 /\ made.todo = {} /\ made.next = "done" /\ made.doomed = {}
      BY DEF Operation
    <3>2. \/ Start(w, "create", made, "insert")
          \/ Start(w, "save", made, "pre_save")
      BY <2>1 DEF CreateCall, SaveCall
    <3> HIDE DEF made
    <3> QED BY <3>1, <3>2, StartHistory
  <2>2. ASSUME NEW o \in Obj, DeleteCall(w, o) PROVE HistoryInv'
    <3> DEFINE made == [Operation(w) EXCEPT !.tx = @ \/ Registered,
                          !.doomed = {[obj |-> o, old |-> Visible(w, o)]}]
    <3>1. /\ made.id = opSeq + 1 /\ made.todo = {} /\ made.next = "done" /\ made.tx
          /\ \A d, e \in made.doomed : d = e
      BY DEF Operation
    <3>2. Start(w, "delete", made, "delete")
      BY <2>2 DEF DeleteCall
    <3> HIDE DEF made
    <3> QED BY <3>1, <3>2, StartHistory
  <2>3. ~BulkDeleteCall(w)
    BY DEF BulkDeleteCall, Start, NoBulk
  <2> QED BY <1>1, <2>1, <2>2, <2>3 DEF Call
<1>2. ASSUME NEW w \in Worker, PreSave(w) \/ PreSaveFails(w) \/ UpdateNothing(w)
      PROVE  HistoryInv'
  <2>1. /\ log' = log /\ newLog' = newLog /\ changes' = changes /\ newChanges' = newChanges
        /\ opSeq' = opSeq /\ opSeq \in Nat
        /\ op'[w].id = op[w].id /\ op'[w].tx = op[w].tx /\ op'[w].next = op[w].next
        /\ op'[w].todo = op[w].todo /\ op'[w].doomed = op[w].doomed
        /\ pc[w] \in {"pre_save", "update"} /\ pc'[w] \in {"update", "insert"}
        /\ \A v \in Worker \ {w} : op'[v] = op[v] /\ pc'[v] = pc[v]
    BY <1>2 DEF PreSave, PreSaveFails, UpdateNothing, committed, pending, Shape, OpShape, OpFields
  <2>2. PhaseInv(w)
    BY DEF HistoryInv, OwnHistory
  <2>3. PhaseInv(w)'
    BY <2>1, <2>2 DEF PhaseInv, Unwritten, OwnLog
  <2>4. AgreeInv(w)'
    <3>1. op'[w].todo = {}
      BY <2>1, <2>2 DEF PhaseInv, Unwritten
    <3> QED BY <2>1, <3>1 DEF HistoryInv, OwnHistory, AgreeInv, Agree
  <2>5. Runs(w)
    BY <2>1 DEF Runs
  <2> QED BY <2>1, <2>3, <2>4, <2>5, QuietHistory
<1>3. ASSUME NEW w \in Worker PROVE ~Collect(w)
  BY DEF Collect, HistoryInv, OwnHistory, PhaseInv
<1>4. ASSUME NEW w \in Worker, NEW action, NEW old,
             Write(w, op[w].tx, op[w].obj, action, op[w].new), PostSave(w, action, old),
             pc[w] \in {"update", "insert"}, log' = log, newLog' = newLog, opSeq' = opSeq
      PROVE  HistoryInv'
  <2> DEFINE e == EntryOf(w, op[w].obj, action, old, op[w].new)
             o == op[w].obj
             new == op[w].new
  <2>1. e.id = op[w].id /\ e.obj = o /\ e.action = action /\ e.new = new
    BY DEF EntryOf
  <2>2. /\ op'[w].id = op[w].id /\ op'[w].tx = op[w].tx /\ op'[w].next = op[w].next
        /\ op'[w].todo = {e} /\ op'[w].doomed \subseteq op[w].doomed /\ pc'[w] = "dedicated"
        /\ \A v \in Worker \ {w} : op'[v] = op[v] /\ pc'[v] = pc[v]
    BY <1>4 DEF PostSave, Shape, OpShape, OpFields
  <2>3. Write(w, op[w].tx, o, action, new) /\ Unwritten(w)
    BY <1>4 DEF Unwritten
  <2> HIDE DEF e, o, new
  <2> QED BY <1>4, <2>1, <2>2, <2>3, WriteHistory
<1>5. ASSUME NEW w \in Worker, NEW d \in op[w].doomed, DeleteRow(w, d) PROVE HistoryInv'
  BY <1>5, DeleteHistory
<1>6. ASSUME NEW w \in Worker, NEW e \in op[w].todo, AppendDedicated(w, e) PROVE HistoryInv'
  <2>1. /\ op'[w].todo = op[w].todo /\ op'[w].tx = op[w].tx /\ op'[w].doomed = op[w].doomed
        /\ op'[w].id = op[w].id /\ op'[w].next = op[w].next /\ op'[w].entry = e
        /\ pc[w] = "dedicated" /\ pc'[w] = "central"
        /\ \A v \in Worker \ {w} : op'[v] = op[v] /\ pc'[v] = pc[v]
    BY <1>6 DEF AppendDedicated, Shape, OpShape, OpFields
  <2>2. /\ AppendTo(w, "dedicated", e) /\ "dedicated" \in Log /\ "central" \in Log
        /\ "central" # "dedicated"
    BY <1>6 DEF AppendDedicated, Log
  <2>3. PhaseInv(w)
    BY DEF HistoryInv, OwnHistory
  <2>4. /\ op[w].id \notin IdsOf(Range(OwnLog(w, "dedicated")))
        /\ op[w].id \notin IdsOf(Range(OwnLog(w, "central")))
    BY <2>1, <2>3 DEF PhaseInv
  <2>5. OwnLog(w, "central")' = OwnLog(w, "central") /\ changes' = changes
    BY <2>1, <2>2, AppendToIs DEF OwnLog
  <2>6. PhaseInv(w)'
    BY <2>1, <2>3, <2>4, <2>5 DEF PhaseInv, Unwritten
  <2> QED BY <2>1, <2>2, <2>4, <2>6, AppendHistory
<1>7. ASSUME NEW w \in Worker, AppendCentral(w) PROVE HistoryInv'
  <2> DEFINE e == op[w].entry
  <2>1. PhaseInv(w) /\ pc[w] = "central" /\ AppendTo(w, "central", e) /\ "central" \in Log
    BY <1>7 DEF HistoryInv, OwnHistory, AppendCentral, Log
  <2>2. e \in op[w].todo /\ op[w].todo \ {e} = {} /\ op[w].next = "done"
    BY <2>1 DEF PhaseInv
  <2>3. /\ op'[w].todo = {} /\ op'[w].tx = op[w].tx /\ op'[w].doomed = op[w].doomed
        /\ op'[w].id = op[w].id /\ op'[w].next = op[w].next /\ pc'[w] = "done"
        /\ \A v \in Worker \ {w} : op'[v] = op[v] /\ pc'[v] = pc[v]
    BY <1>7, <2>2 DEF AppendCentral, Appended, Shape, OpShape, OpFields
  <2> HIDE DEF e
  <2>4. op[w].id \notin IdsOf(Range(OwnLog(w, "central")))
    BY <2>1 DEF PhaseInv
  <2>5. PhaseInv(w)'
    BY <2>1, <2>2, <2>3 DEF PhaseInv, Unwritten
  <2> QED BY <2>1, <2>2, <2>3, <2>4, <2>5, AppendHistory
<1>8. ASSUME NEW w \in Worker, EndOp(w) \/ CommitOuter(w) PROVE HistoryInv'
  <2>1. CASE Commit(w)
    BY <2>1, CommitHistory
  <2>2. CASE EndOp(w) /\ outer[w]
    <3>1. /\ log' = log /\ newLog' = newLog /\ changes' = changes /\ newChanges' = newChanges
          /\ opSeq' = opSeq /\ opSeq \in Nat /\ op'[w] = NoOp /\ pc'[w] = "idle"
          /\ \A v \in Worker \ {w} : op'[v] = op[v] /\ pc'[v] = pc[v]
      BY <2>2 DEF EndOp, committed, pending, Shape, OpShape
    <3>2. PhaseInv(w)' /\ Runs(w)
      BY <3>1 DEF PhaseInv, Unwritten, NoOp, Runs
    <3>3. AgreeInv(w)'
      BY <3>1 DEF HistoryInv, OwnHistory, AgreeInv
    <3> QED BY <3>1, <3>2, <3>3, QuietHistory
  <2> QED BY <1>8, <2>1, <2>2 DEF EndOp, CommitOuter
<1>9. ASSUME NEW w \in Worker, Raise(w) PROVE HistoryInv'
  BY <1>9, RaiseHistory
<1>10. CASE (\E w \in Worker : BeginOuter(w)) \/ UNCHANGED vars
  <2>1. UNCHANGED <<log, changes, newLog, newChanges, pc, op, opSeq>>
    BY <1>10 DEF BeginOuter, vars, committed, pending
  <2>2. IdsInv'
    BY <2>1 DEF HistoryInv, IdsInv, CommittedIds, PendingIds
  <2>3. CommittedHistory'
    BY <2>1 DEF HistoryInv, CommittedHistory, TxOnly
  <2>4. \A w \in Worker : OwnHistory(w)'
    BY <2>1 DEF HistoryInv, OwnHistory, PhaseInv, AgreeInv, Unwritten, OwnLog
  <2> QED BY <2>2, <2>3, <2>4 DEF HistoryInv
<1> QED BY <1>1, <1>2, <1>3, <1>4, <1>5, <1>6, <1>7, <1>8, <1>9, <1>10
        DEF Next, Statement, UpdateRow, InsertRow, InsertConflict, Fails, DeadlockDetected

\* The log of a row whose changes were all made in transactions is the history of the row:
\* each change has an entry in it that says the same, and only one, in the order of the
\* changes, whatever fails, waits or is rolled back in between.
THEOREM LogTellsHistoryCorrect ==
  ASSUME Registered, NoBulk PROVE Spec => []LogTellsHistory
<1>1. ASSUME Shape, ChangeInv, HistoryInv PROVE LogTellsHistory
  <2> SUFFICES ASSUME NEW l \in Log, NEW o \in Obj, TxOnly(o)
               PROVE  LET done == {i \in DOMAIN changes : changes[i].obj = o}
                          Tells(p, i) == log[l][p].obj = o /\ log[l][p].id = changes[i].id IN
                      /\ \A i \in done : \E p \in DOMAIN log[l] :
                           /\ Tells(p, i) /\ log[l][p].action = changes[i].action
                           /\ log[l][p].new = changes[i].new
                      /\ \A i, j \in done, p, q \in DOMAIN log[l] :
                           Tells(p, i) /\ Tells(q, j) => (p < q <=> i < j)
    BY DEF LogTellsHistory, TxOnly
  <2>1. Agree(Range(log[l]), Range(changes)) /\ InOrder(changes, log[l], o)
    BY <1>1 DEF HistoryInv, CommittedHistory
  <2>2. ASSUME NEW i \in DOMAIN changes, changes[i].obj = o
        PROVE  \E p \in DOMAIN log[l] :
                 /\ log[l][p].obj = o /\ log[l][p].id = changes[i].id
                 /\ log[l][p].action = changes[i].action /\ log[l][p].new = changes[i].new
    <3>1. changes[i] \in Range(changes)
      BY DEF Range
    <3>2. Logged(changes[i])
      BY <1>1, <2>2, <3>1 DEF ChangeInv, ChangesLogged, TxOnly
    <3>3. PICK e \in Range(log[l]) : e.id = changes[i].id /\ e.obj = changes[i].obj
      BY <3>2 DEF Logged, Keys
    <3>4. PICK p \in DOMAIN log[l] : log[l][p] = e
      BY <3>3 DEF Range
    <3> QED BY <2>1, <2>2, <3>1, <3>3, <3>4 DEF Agree
  <2> QED BY <2>1, <2>2 DEF InOrder
<1> QED BY <1>1, InitInv, InitHistory, ShapeStep, CentralStep, ChangeStep, HistoryStep, PTL
        DEF Spec
=============================================================================
