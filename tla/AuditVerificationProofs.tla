----------------------- MODULE AuditVerificationProofs -----------------------
(***************************************************************************)
(* Proofs about AuditVerification, for any number of entries, checkpoints, *)
(* keys and out-of-band edits.                                             *)
(***************************************************************************)
EXTENDS AuditVerification, AuditRecordsProofs, SequenceTheorems

-----------------------------------------------------------------------------
(* Types.                                                                  *)

IsRow(r) == r = [pk |-> r.pk, body |-> r.body, envelope |-> r.envelope,
                 previous_hash |-> r.previous_hash, entry_hash |-> r.entry_hash]
IsCheckpoint(c) ==
  c = [pk |-> c.pk, last_entry_hash |-> c.last_entry_hash, row_count |-> c.row_count,
       previous_checkpoint_hash |-> c.previous_checkpoint_hash, envelope |-> c.envelope,
       checkpoint_hash |-> c.checkpoint_hash]

RowsType(T, n) ==
  /\ Keyed(T)
  /\ \A r \in T : IsRow(r) /\ r.pk \in 1..n /\ r.body \in Body
CheckpointsType(C, n) ==
  /\ Keyed(C)
  /\ \A c \in C : IsCheckpoint(c) /\ c.pk \in 1..n /\ c.row_count \in 0..MaxPk

TypeInv ==
  /\ TypeOK
  /\ RowsType(rows, rowSeq) /\ CheckpointsType(checkpoints, cpSeq)

\* The pks of a sequence bound the number of rows.
LEMMA AtMostPks ==
  ASSUME NEW T, NEW n \in Nat, Keyed(T), \A r \in T : r.pk \in 1..n
  PROVE  Cardinality(T) \in Nat /\ Cardinality(T) <= n
<1> DEFINE f == [r \in T |-> r.pk]
<1>1. f \in Injection(T, 1..n)
  BY DEF Injection, IsInjective, Keyed
<1>2. IsFiniteSet(1..n) /\ Cardinality(1..n) = n
  BY FS_Interval
<1> HIDE DEF f
<1> QED BY <1>1, <1>2, FS_Injection, FS_CardinalityType DEF Keyed

LEMMA InitTypes == Init => TypeInv
BY FS_EmptySet, BoundAssumption DEF Init, TypeInv, TypeOK, RowsType, CheckpointsType, Keyed

\* What an edit makes of the rows.
EditedRows(T) ==
  \/ \E r \in rows, b \in Body :
       \/ T = Replace(rows, r, [r EXCEPT !.body = b])
       \/ T = Replace(rows, r, [r EXCEPT !.body = b, !.entry_hash =
                                  Unkeyed(ChecksumPayload(r.envelope, r.previous_hash, b))])
  \/ \E r \in rows : \/ T = Replace(rows, r, [r EXCEPT !.envelope.mac_alg = "HMAC-SHA-512"])
                     \/ T = rows \ {r}
  \/ \E r, s \in rows :
       /\ r.pk < s.pk
       /\ \/ T = (rows \ {r, s}) \cup {[r EXCEPT !.body = s.body], [s EXCEPT !.body = r.body]}
          \/ T = (rows \ {r, s}) \cup {[r EXCEPT !.pk = s.pk], [s EXCEPT !.pk = r.pk]}
  \/ T = {}
EditedCheckpoints(C) ==
  \/ \E c \in checkpoints, h, p \in KnownHash :
       C = Replace(checkpoints, c, [c EXCEPT !.checkpoint_hash = h, !.previous_checkpoint_hash = p])
  \/ \E c, d \in checkpoints :
       C = Replace(checkpoints, c,
             [c EXCEPT !.row_count = d.row_count, !.last_entry_hash = d.last_entry_hash])
  \/ \E c \in checkpoints : C = checkpoints \ {c}

LEMMA EditIs ==
  ASSUME Edit
  PROVE  /\ edits < MaxEdits /\ edits' = edits + 1
         /\ UNCHANGED <<rowSeq, cpSeq, provider, currentKey, previousKey, issued, seen>>
         /\ \/ EditedRows(rows') /\ UNCHANGED checkpoints
            \/ EditedCheckpoints(checkpoints') /\ UNCHANGED rows
BY DEF Edit, AlterBody, Rehash, AlterEnvelope, DeleteRow, SwapContents, SwapRows, ReplaceTable,
       AlterCheckpoint, Redescribe, DeleteCheckpoint, EditRows, EditCheckpoints, EditedRows, EditedCheckpoints, keys

\* One row in the place of another.
LEMMA ReplaceKeyed ==
  ASSUME NEW T, Keyed(T), NEW r \in T, NEW s, s.pk = r.pk
  PROVE  Keyed(Replace(T, r, s))
<1>1. IsFiniteSet(T \ {r}) /\ IsFiniteSet((T \ {r}) \cup {s})
  BY FS_RemoveElement, FS_AddElement DEF Keyed
<1> QED BY <1>1 DEF Keyed, Replace

LEMMA SubsetKeyed ==
  ASSUME NEW T, Keyed(T), NEW S, S \subseteq T
  PROVE  Keyed(S)
<1>1. S \in SUBSET T
  OBVIOUS
<1> QED BY <1>1, FS_Subset DEF Keyed

\* The rows an edit puts in the place of others, field by field.
HasFields(t, pk, body, envelope, previous_hash, entry_hash) ==
  /\ IsRow(t) /\ t.pk = pk /\ t.body = body /\ t.envelope = envelope
  /\ t.previous_hash = previous_hash /\ t.entry_hash = entry_hash

LEMMA RowFields ==
  ASSUME NEW p, NEW b, NEW e, NEW v, NEW h, NEW t,
         t = [pk |-> p, body |-> b, envelope |-> e, previous_hash |-> v, entry_hash |-> h]
  PROVE  HasFields(t, p, b, e, v, h)
BY DEF HasFields, IsRow

LEMMA RowUpdates ==
  ASSUME NEW r, IsRow(r), NEW b, NEW h, NEW k
  PROVE  /\ HasFields([r EXCEPT !.body = b],
                      r.pk, b, r.envelope, r.previous_hash, r.entry_hash)
         /\ HasFields([r EXCEPT !.body = b, !.entry_hash = h],
                      r.pk, b, r.envelope, r.previous_hash, h)
         /\ HasFields([r EXCEPT !.envelope.mac_alg = h],
                      r.pk, r.body, [r.envelope EXCEPT !.mac_alg = h], r.previous_hash, r.entry_hash)
         /\ HasFields([r EXCEPT !.pk = k],
                      k, r.body, r.envelope, r.previous_hash, r.entry_hash)
<1> DEFINE q == [r EXCEPT !.body = b]
<1>1. q = [pk |-> r.pk, body |-> b, envelope |-> r.envelope,
           previous_hash |-> r.previous_hash, entry_hash |-> r.entry_hash]
  BY DEF IsRow
<1>2. [r EXCEPT !.body = b, !.entry_hash = h] =
        [pk |-> r.pk, body |-> b, envelope |-> r.envelope,
         previous_hash |-> r.previous_hash, entry_hash |-> h]
  <2>1. [r EXCEPT !.body = b, !.entry_hash = h] = [q EXCEPT !.entry_hash = h]
    OBVIOUS
  <2> HIDE DEF q
  <2>2. [q EXCEPT !.entry_hash = h] =
          [pk |-> r.pk, body |-> b, envelope |-> r.envelope,
           previous_hash |-> r.previous_hash, entry_hash |-> h]
    BY <1>1
  <2> QED BY <2>1, <2>2
<1>3. [r EXCEPT !.envelope.mac_alg = h] =
        [pk |-> r.pk, body |-> r.body, envelope |-> [r.envelope EXCEPT !.mac_alg = h],
         previous_hash |-> r.previous_hash, entry_hash |-> r.entry_hash]
  BY DEF IsRow
<1>4. [r EXCEPT !.pk = k] =
        [pk |-> k, body |-> r.body, envelope |-> r.envelope,
         previous_hash |-> r.previous_hash, entry_hash |-> r.entry_hash]
  BY DEF IsRow
<1>5. HasFields([r EXCEPT !.body = b], r.pk, b, r.envelope, r.previous_hash, r.entry_hash)
  BY <1>1, RowFields, Zenon
<1>6. HasFields([r EXCEPT !.body = b, !.entry_hash = h], r.pk, b, r.envelope, r.previous_hash, h)
  BY <1>2, RowFields, Zenon
<1>7. HasFields([r EXCEPT !.envelope.mac_alg = h],
                r.pk, r.body, [r.envelope EXCEPT !.mac_alg = h], r.previous_hash, r.entry_hash)
  BY <1>3, RowFields, Zenon
<1>8. HasFields([r EXCEPT !.pk = k], k, r.body, r.envelope, r.previous_hash, r.entry_hash)
  BY <1>4, RowFields, Zenon
<1> QED BY <1>5, <1>6, <1>7, <1>8

\* The row t that an edit puts in the place of r, or of another with its contents.
RowFrom(t, r) ==
  /\ IsRow(t) /\ t.previous_hash = r.previous_hash
  /\ t.entry_hash = r.entry_hash \/ \E p : t.entry_hash = <<NoKey, p>>
  /\ t.body = r.body \/ t.body \in Body

LEMMA FieldsFrom ==
  ASSUME NEW r, NEW t, NEW k, NEW b, NEW e, NEW h, HasFields(t, k, b, e, r.previous_hash, h),
         b = r.body \/ b \in Body, h = r.entry_hash \/ \E p : h = <<NoKey, p>>
  PROVE  RowFrom(t, r) /\ t.pk = k
BY DEF HasFields, RowFrom

\* Some rows deleted, one replaced, or two, with their pks exchanged or not.
Fewer(T) == T \subseteq rows
OneReplaced(T) ==
  \E r \in rows : \E t : T = Replace(rows, r, t) /\ RowFrom(t, r) /\ t.pk = r.pk
TwoExchanged(T) ==
  \E r, s \in rows : \E t, u :
    /\ T = (rows \ {r, s}) \cup {t, u} /\ r.pk < s.pk
    /\ RowFrom(t, r) /\ RowFrom(u, s)
    /\ (t.pk = s.pk /\ u.pk = r.pk) \/ (t.pk = r.pk /\ u.pk = s.pk)

LEMMA EditShapes ==
  ASSUME \A r \in rows : IsRow(r) /\ r.body \in Body, NEW T, EditedRows(T)
  PROVE  Fewer(T) \/ OneReplaced(T) \/ TwoExchanged(T)
<1>1. ASSUME NEW r \in rows, NEW b \in Body, T = Replace(rows, r, [r EXCEPT !.body = b])
      PROVE  OneReplaced(T)
  <2> DEFINE t == [r EXCEPT !.body = b]
  <2>1. HasFields(t, r.pk, b, r.envelope, r.previous_hash, r.entry_hash)
    BY RowUpdates
  <2>2. T = Replace(rows, r, t)
    BY <1>1
  <2> HIDE DEF t
  <2>3. RowFrom(t, r) /\ t.pk = r.pk
    BY <2>1, FieldsFrom
  <2> QED BY <2>2, <2>3 DEF OneReplaced
<1>2. ASSUME NEW r \in rows, NEW b \in Body, NEW p,
             T = Replace(rows, r, [r EXCEPT !.body = b, !.entry_hash = <<NoKey, p>>])
      PROVE  OneReplaced(T)
  <2> DEFINE h == <<NoKey, p>>
             t == [r EXCEPT !.body = b, !.entry_hash = h]
  <2>1. T = Replace(rows, r, t) /\ \E q : h = <<NoKey, q>>
    BY <1>2
  <2> HIDE DEF h
  <2>2. HasFields(t, r.pk, b, r.envelope, r.previous_hash, h)
    BY RowUpdates
  <2> HIDE DEF t
  <2>3. RowFrom(t, r) /\ t.pk = r.pk
    BY <2>1, <2>2, FieldsFrom
  <2> QED BY <2>1, <2>3 DEF OneReplaced
<1>3. ASSUME NEW r \in rows, T = Replace(rows, r, [r EXCEPT !.envelope.mac_alg = "HMAC-SHA-512"])
      PROVE  OneReplaced(T)
  <2> DEFINE e == [r.envelope EXCEPT !.mac_alg = "HMAC-SHA-512"]
             t == [r EXCEPT !.envelope.mac_alg = "HMAC-SHA-512"]
  <2>1. HasFields(t, r.pk, r.body, e, r.previous_hash, r.entry_hash)
    BY RowUpdates
  <2>2. T = Replace(rows, r, t)
    BY <1>3
  <2> HIDE DEF e, t
  <2>3. RowFrom(t, r) /\ t.pk = r.pk
    BY <2>1, FieldsFrom
  <2> QED BY <2>2, <2>3 DEF OneReplaced
<1>4. ASSUME NEW r \in rows, NEW s \in rows, r.pk < s.pk,
             T = (rows \ {r, s}) \cup {[r EXCEPT !.pk = s.pk], [s EXCEPT !.pk = r.pk]}
      PROVE  TwoExchanged(T)
  <2> DEFINE t == [r EXCEPT !.pk = s.pk]
             u == [s EXCEPT !.pk = r.pk]
  <2>1. /\ HasFields(t, s.pk, r.body, r.envelope, r.previous_hash, r.entry_hash)
        /\ HasFields(u, r.pk, s.body, s.envelope, s.previous_hash, s.entry_hash)
    BY RowUpdates
  <2>2. T = (rows \ {r, s}) \cup {t, u}
    BY <1>4
  <2> HIDE DEF t, u
  <2>3. RowFrom(t, r) /\ t.pk = s.pk /\ RowFrom(u, s) /\ u.pk = r.pk
    BY <2>1, FieldsFrom
  <2> QED BY <1>4, <2>2, <2>3 DEF TwoExchanged
<1>8. ASSUME NEW r \in rows, NEW s \in rows, r.pk < s.pk,
             T = (rows \ {r, s}) \cup {[r EXCEPT !.body = s.body], [s EXCEPT !.body = r.body]}
      PROVE  TwoExchanged(T)
  <2> DEFINE a == r.body
             b == s.body
             t == [r EXCEPT !.body = b]
             u == [s EXCEPT !.body = a]
  <2>0. a \in Body /\ b \in Body
    OBVIOUS
  <2>1. T = (rows \ {r, s}) \cup {t, u}
    BY <1>8
  <2> HIDE DEF a, b
  <2>2. /\ HasFields(t, r.pk, b, r.envelope, r.previous_hash, r.entry_hash)
        /\ HasFields(u, s.pk, a, s.envelope, s.previous_hash, s.entry_hash)
    BY RowUpdates
  <2> HIDE DEF t, u
  <2>3. RowFrom(t, r) /\ t.pk = r.pk /\ RowFrom(u, s) /\ u.pk = s.pk
    BY <2>0, <2>2, FieldsFrom
  <2> QED BY <1>8, <2>1, <2>3 DEF TwoExchanged
<1>5. ASSUME NEW r \in rows, NEW b \in Body,
             T = Replace(rows, r, [r EXCEPT !.body = b, !.entry_hash =
                   Unkeyed(ChecksumPayload(r.envelope, r.previous_hash, b))])
      PROVE  OneReplaced(T)
  BY <1>2, <1>5 DEF Unkeyed, HmacSha256
<1>6. \A r \in rows : T = rows \ {r} => Fewer(T)
  BY DEF Fewer
<1>7. T = {} => Fewer(T)
  BY DEF Fewer
<1> QED BY <1>1, <1>3, <1>4, <1>5, <1>6, <1>7, <1>8, Zenon DEF EditedRows

LEMMA EditedRow ==
  ASSUME \A r \in rows : IsRow(r) /\ r.body \in Body, NEW T, EditedRows(T), NEW t \in T
  PROVE  (\E r \in rows : RowFrom(t, r)) /\ (\E r \in rows : t.pk = r.pk)
<1>1. \A r \in rows : RowFrom(r, r)
  BY DEF RowFrom
<1> QED BY <1>1, EditShapes DEF Fewer, OneReplaced, TwoExchanged, Replace

LEMMA EditedRowsType ==
  ASSUME NEW n \in Nat, RowsType(rows, n), NEW T, EditedRows(T)
  PROVE  RowsType(T, n)
<1>1. Keyed(rows) /\ \A r \in rows : IsRow(r) /\ r.pk \in 1..n /\ r.body \in Body
  BY DEF RowsType
<1>2. \A t \in T : IsRow(t) /\ t.pk \in 1..n /\ t.body \in Body
  BY <1>1, EditedRow DEF RowFrom
<1> SUFFICES Keyed(T)
  BY <1>2 DEF RowsType
<1>3. CASE Fewer(T)
  BY <1>1, <1>3, SubsetKeyed DEF Fewer
<1>4. CASE OneReplaced(T)
  BY <1>1, <1>4, ReplaceKeyed DEF OneReplaced
<1>5. CASE TwoExchanged(T)
  <2>1. PICK r \in rows, s \in rows : \E t, u :
               /\ T = (rows \ {r, s}) \cup {t, u} /\ r.pk < s.pk
               /\ (t.pk = s.pk /\ u.pk = r.pk) \/ (t.pk = r.pk /\ u.pk = s.pk)
    BY <1>5 DEF TwoExchanged
  <2>2. PICK t, u : /\ T = (rows \ {r, s}) \cup {t, u} /\ r.pk < s.pk
                    /\ (t.pk = s.pk /\ u.pk = r.pk) \/ (t.pk = r.pk /\ u.pk = s.pk)
    BY <2>1
  <2>3. IsFiniteSet(rows \ {r, s})
    BY <1>1, SubsetKeyed DEF Keyed
  <2>4. IsFiniteSet(((rows \ {r, s}) \cup {t}) \cup {u})
    BY <2>3, FS_AddElement
  <2>5. T = ((rows \ {r, s}) \cup {t}) \cup {u}
    BY <2>2
  <2> QED BY <1>1, <2>2, <2>4, <2>5 DEF Keyed
<1> QED BY <1>1, <1>3, <1>4, <1>5, EditShapes

\* The checkpoint e that an edit makes of c.
CheckpointFrom(e, c) ==
  /\ IsCheckpoint(e) /\ e.pk = c.pk
  /\ e.checkpoint_hash \in KnownHash /\ e.previous_checkpoint_hash \in KnownHash
  /\ \E d \in checkpoints : e.row_count = d.row_count

LEMMA CheckpointFields ==
  ASSUME NEW c \in checkpoints, NEW d \in checkpoints, NEW l, NEW v,
         NEW h \in KnownHash, NEW p \in KnownHash, NEW e,
         e = [pk |-> c.pk, last_entry_hash |-> l, row_count |-> d.row_count,
              previous_checkpoint_hash |-> p, envelope |-> v, checkpoint_hash |-> h]
  PROVE  CheckpointFrom(e, c)
<1> DEFINE n == d.row_count
           k == c.pk
<1>1. e = [pk |-> k, last_entry_hash |-> l, row_count |-> n,
           previous_checkpoint_hash |-> p, envelope |-> v, checkpoint_hash |-> h]
  OBVIOUS
<1> HIDE DEF n, k
<1>2. IsCheckpoint(e) /\ e.pk = k /\ e.checkpoint_hash = h /\ e.previous_checkpoint_hash = p
      /\ e.row_count = n
  BY <1>1 DEF IsCheckpoint
<1> QED BY <1>2 DEF CheckpointFrom, n, k

LEMMA CheckpointRelinked ==
  ASSUME NEW c \in checkpoints, IsCheckpoint(c), NEW h \in KnownHash, NEW p \in KnownHash, NEW e,
         e = [c EXCEPT !.checkpoint_hash = h, !.previous_checkpoint_hash = p]
  PROVE  CheckpointFrom(e, c)
<1> DEFINE q == [c EXCEPT !.checkpoint_hash = h]
<1>1. q = [pk |-> c.pk, last_entry_hash |-> c.last_entry_hash, row_count |-> c.row_count,
           previous_checkpoint_hash |-> c.previous_checkpoint_hash, envelope |-> c.envelope,
           checkpoint_hash |-> h]
  BY DEF IsCheckpoint
<1>2. e = [q EXCEPT !.previous_checkpoint_hash = p]
  OBVIOUS
<1> HIDE DEF q
<1>3. e = [pk |-> c.pk, last_entry_hash |-> c.last_entry_hash, row_count |-> c.row_count,
           previous_checkpoint_hash |-> p, envelope |-> c.envelope, checkpoint_hash |-> h]
  BY <1>1, <1>2
<1> QED BY <1>3, CheckpointFields

LEMMA CheckpointRedescribed ==
  ASSUME NEW c \in checkpoints, IsCheckpoint(c), NEW d \in checkpoints, NEW e,
         e = [c EXCEPT !.row_count = d.row_count, !.last_entry_hash = d.last_entry_hash]
  PROVE  CheckpointFrom(e, c)
<1> DEFINE q == [c EXCEPT !.row_count = d.row_count]
<1>1. q = [pk |-> c.pk, last_entry_hash |-> c.last_entry_hash, row_count |-> d.row_count,
           previous_checkpoint_hash |-> c.previous_checkpoint_hash, envelope |-> c.envelope,
           checkpoint_hash |-> c.checkpoint_hash]
  BY DEF IsCheckpoint
<1>2. e = [q EXCEPT !.last_entry_hash = d.last_entry_hash]
  OBVIOUS
<1> HIDE DEF q
<1>3. e = [pk |-> c.pk, last_entry_hash |-> d.last_entry_hash, row_count |-> d.row_count,
           previous_checkpoint_hash |-> c.previous_checkpoint_hash, envelope |-> c.envelope,
           checkpoint_hash |-> c.checkpoint_hash]
  BY <1>1, <1>2
<1>4. c.checkpoint_hash \in KnownHash /\ c.previous_checkpoint_hash \in KnownHash
  BY DEF KnownHash, CheckpointHashes
<1> QED BY <1>3, <1>4, CheckpointFields

LEMMA EditedCheckpoint ==
  ASSUME \A c \in checkpoints : IsCheckpoint(c), NEW C, EditedCheckpoints(C)
  PROVE  \/ C \subseteq checkpoints
         \/ \E c \in checkpoints : \E e : C = Replace(checkpoints, c, e) /\ CheckpointFrom(e, c)
<1>1. ASSUME NEW c \in checkpoints, NEW h \in KnownHash, NEW p \in KnownHash,
             C = Replace(checkpoints, c, [c EXCEPT !.checkpoint_hash = h, !.previous_checkpoint_hash = p])
      PROVE  \E e : C = Replace(checkpoints, c, e) /\ CheckpointFrom(e, c)
  BY <1>1, CheckpointRelinked
<1>2. ASSUME NEW c \in checkpoints, NEW d \in checkpoints,
             C = Replace(checkpoints, c,
                   [c EXCEPT !.row_count = d.row_count, !.last_entry_hash = d.last_entry_hash])
      PROVE  \E e : C = Replace(checkpoints, c, e) /\ CheckpointFrom(e, c)
  BY <1>2, CheckpointRedescribed
<1> QED BY <1>1, <1>2 DEF EditedCheckpoints

LEMMA EditedCheckpointsType ==
  ASSUME NEW n \in Nat, CheckpointsType(checkpoints, n), NEW C, EditedCheckpoints(C)
  PROVE  CheckpointsType(C, n)
<1>1. /\ Keyed(checkpoints)
      /\ \A c \in checkpoints : IsCheckpoint(c) /\ c.pk \in 1..n /\ c.row_count \in 0..MaxPk
  BY DEF CheckpointsType
<1>2. CASE C \subseteq checkpoints
  BY <1>1, <1>2, SubsetKeyed DEF CheckpointsType
<1>3. ASSUME NEW c \in checkpoints, NEW e, C = Replace(checkpoints, c, e), CheckpointFrom(e, c)
      PROVE  CheckpointsType(C, n)
  <2>1. Keyed(C)
    BY <1>1, <1>3, ReplaceKeyed DEF CheckpointFrom
  <2> QED BY <1>1, <1>3, <2>1 DEF CheckpointsType, CheckpointFrom, Replace
<1> QED BY <1>1, <1>2, <1>3, EditedCheckpoint

\* A new row, or a new checkpoint, takes the next number of its sequence.
LEMMA AppendedRow ==
  ASSUME NEW values \in Values, AppendEntry(values)
  PROVE  /\ rowSeq < MaxPk /\ currentKey # NoKey /\ Sortable(values) /\ rowSeq' = rowSeq + 1
         /\ UNCHANGED <<checkpoints, cpSeq, provider, currentKey, previousKey, edits, seen>>
         /\ \E r : /\ rows' = rows \cup {r}
                  /\ HasFields(r, rowSeq + 1, CanonicalJson(Returned(values)), StandardEnvelope,
                       LastEntryHash(rows),
                       HmacSha256(currentKey, ChecksumPayload(StandardEnvelope, LastEntryHash(rows),
                                                              CanonicalJson(values))))
                  /\ issued' = issued \cup {[entry_hash |-> r.entry_hash, values |-> values]}
<1> DEFINE body == CanonicalJson(Returned(values))
           v == LastEntryHash(rows)
           hash == HmacSha256(currentKey, ChecksumPayload(StandardEnvelope, v, CanonicalJson(values)))
           r == Entry(rowSeq + 1, currentKey, v, CanonicalJson(values), body)
<1>1. /\ rows' = rows \cup {r}
      /\ issued' = issued \cup {[entry_hash |-> r.entry_hash, values |-> values]}
      /\ rowSeq < MaxPk /\ currentKey # NoKey /\ Sortable(values) /\ rowSeq' = rowSeq + 1
      /\ UNCHANGED <<checkpoints, cpSeq, provider, currentKey, previousKey, edits, seen>>
  BY DEF AppendEntry, keys
<1>2. HasFields(r, rowSeq + 1, body, StandardEnvelope, v, hash)
  <2> DEFINE e == StandardEnvelope
  <2>1. r = [pk |-> rowSeq + 1, body |-> body, envelope |-> e, previous_hash |-> v,
             entry_hash |-> hash]
    BY DEF Entry
  <2> HIDE DEF e, v, body, hash, r
  <2>2. HasFields(r, rowSeq + 1, body, e, v, hash)
    BY <2>1, RowFields
  <2> QED BY <2>2 DEF e
<1> HIDE DEF r
<1> QED BY <1>1, <1>2 DEF body, hash, v

LEMMA TakenCheckpoint ==
  ASSUME TakeCheckpoint
  PROVE  /\ cpSeq < MaxCpPk /\ currentKey # NoKey /\ cpSeq' = cpSeq + 1
         /\ UNCHANGED <<rows, rowSeq, provider, currentKey, previousKey, edits, issued>>
         /\ \E c : /\ checkpoints' = checkpoints \cup {c}
                  /\ IsCheckpoint(c) /\ c.pk = cpSeq + 1 /\ c.envelope = StandardEnvelope
                  /\ c.row_count = Cardinality(rows) /\ c.last_entry_hash = LastEntryHash(rows)
                  /\ c.previous_checkpoint_hash = LastCheckpointHash(checkpoints)
                  /\ c.checkpoint_hash = CheckpointMac(currentKey, c)
                  /\ seen' = seen \cup {[checkpoint_hash |-> c.checkpoint_hash,
                                         contents |-> Contents(rows),
                                         intact |-> Intact(rows, currentKey, previousKey),
                                         earlier |-> CheckpointHashes,
                                         complete |-> AllVerify(checkpoints)]}
<1> DEFINE c == Checkpoint(cpSeq + 1, currentKey, LastEntryHash(rows),
                           LastCheckpointHash(checkpoints), Cardinality(rows), TableName)
<1>1. /\ cpSeq < MaxCpPk /\ currentKey # NoKey /\ cpSeq' = cpSeq + 1
      /\ UNCHANGED <<rows, rowSeq, provider, currentKey, previousKey, edits, issued>>
      /\ checkpoints' = checkpoints \cup {c}
      /\ seen' = seen \cup {[checkpoint_hash |-> c.checkpoint_hash,
                             contents |-> Contents(rows),
                             intact |-> Intact(rows, currentKey, previousKey),
                             earlier |-> CheckpointHashes,
                             complete |-> AllVerify(checkpoints)]}
  BY DEF TakeCheckpoint, keys
<1>2. /\ IsCheckpoint(c) /\ c.pk = cpSeq + 1 /\ c.envelope = StandardEnvelope
      /\ c.row_count = Cardinality(rows) /\ c.last_entry_hash = LastEntryHash(rows)
      /\ c.previous_checkpoint_hash = LastCheckpointHash(checkpoints)
      /\ c.checkpoint_hash = CheckpointMac(currentKey, c)
  <2> DEFINE h == LastEntryHash(rows)
             v == LastCheckpointHash(checkpoints)
             n == Cardinality(rows)
             e == StandardEnvelope
             m == HmacSha256(currentKey, CheckpointPayload(e, h, v, n, TableName))
  <2>1. c = [pk |-> cpSeq + 1, last_entry_hash |-> h, row_count |-> n,
             previous_checkpoint_hash |-> v, envelope |-> e, checkpoint_hash |-> m]
    BY DEF Checkpoint
  <2> HIDE DEF h, v, n, e, m, c
  <2>2. /\ IsCheckpoint(c) /\ c.pk = cpSeq + 1 /\ c.envelope = e /\ c.row_count = n
        /\ c.last_entry_hash = h /\ c.previous_checkpoint_hash = v /\ c.checkpoint_hash = m
    BY <2>1 DEF IsCheckpoint
  <2> QED BY <2>2 DEF h, v, n, e, m, CheckpointMac
<1> HIDE DEF c
<1> QED BY <1>1, <1>2

LEMMA TypeStep == TypeInv /\ [Next]_vars => TypeInv'
<1> SUFFICES ASSUME TypeInv, [Next]_vars PROVE TypeInv'
  OBVIOUS
<1>1. /\ rowSeq \in 0..MaxPk /\ cpSeq \in 0..MaxCpPk /\ edits \in 0..MaxEdits
      /\ currentKey \in Key \cup {NoKey} /\ previousKey \in Key \cup {NoKey}
      /\ RowsType(rows, rowSeq) /\ CheckpointsType(checkpoints, cpSeq)
      /\ MaxPk \in Nat /\ MaxCpPk \in Nat /\ MaxEdits \in Nat
  BY BoundAssumption DEF TypeInv, TypeOK
<1> SUFFICES /\ rowSeq' \in 0..MaxPk /\ cpSeq' \in 0..MaxCpPk /\ edits' \in 0..MaxEdits
             /\ currentKey' \in Key \cup {NoKey} /\ previousKey' \in Key \cup {NoKey}
             /\ RowsType(rows, rowSeq)' /\ CheckpointsType(checkpoints, cpSeq)'
  BY DEF TypeInv, TypeOK, RowsType, CheckpointsType, Keyed
<1>2. ASSUME NEW values \in Values, AppendEntry(values) PROVE RowsType(rows, rowSeq)'
  <2>1. PICK r : /\ rows' = rows \cup {r} /\ IsRow(r) /\ r.pk = rowSeq + 1
                 /\ r.body = CanonicalJson(Returned(values))
    BY <1>2, AppendedRow DEF HasFields
  <2>2. rowSeq' = rowSeq + 1 /\ Sortable(values)
    BY <1>2, AppendedRow
  <2>3. Keyed(rows \cup {r})
    BY <1>1, <2>1, NewestKeyed DEF RowsType
  <2>4. r.body \in Body
    BY <2>1, <2>2, BodyAssumption
  <2> QED BY <1>1, <2>1, <2>2, <2>3, <2>4 DEF RowsType
<1>3. ASSUME TakeCheckpoint PROVE CheckpointsType(checkpoints, cpSeq)'
  <2>1. PICK c : /\ checkpoints' = checkpoints \cup {c} /\ IsCheckpoint(c) /\ c.pk = cpSeq + 1
                 /\ c.row_count = Cardinality(rows)
    BY <1>3, TakenCheckpoint
  <2>2. cpSeq' = cpSeq + 1
    BY <1>3, TakenCheckpoint
  <2>3. Keyed(checkpoints \cup {c})
    BY <1>1, <2>1, NewestKeyed DEF CheckpointsType
  <2>4. c.row_count \in 0..MaxPk
    <3>1. Cardinality(rows) \in Nat /\ Cardinality(rows) <= rowSeq
      BY <1>1, AtMostPks DEF RowsType
    <3> QED BY <1>1, <2>1, <3>1
  <2> QED BY <1>1, <2>1, <2>2, <2>3, <2>4 DEF CheckpointsType
<1>4. CASE \E values \in Values : AppendEntry(values)
  BY <1>1, <1>2, <1>4, AppendedRow DEF CheckpointsType
<1>5. CASE TakeCheckpoint
  BY <1>1, <1>3, <1>5, TakenCheckpoint DEF RowsType
<1>6. CASE (\E k \in Key : RotateKey(k)) \/ (\E k, j \in Key \cup {NoKey} : Redeploy(k, j))
  BY <1>1, <1>6 DEF RotateKey, Redeploy, RowsType, CheckpointsType
<1>7. CASE Edit
  <2>1. /\ edits < MaxEdits /\ edits' = edits + 1
        /\ UNCHANGED <<rowSeq, cpSeq, provider, currentKey, previousKey>>
        /\ \/ EditedRows(rows') /\ UNCHANGED checkpoints
           \/ EditedCheckpoints(checkpoints') /\ UNCHANGED rows
    BY <1>7, EditIs
  <2>2. RowsType(rows, rowSeq)'
    BY <1>1, <2>1, EditedRowsType DEF RowsType
  <2>3. CheckpointsType(checkpoints, cpSeq)'
    BY <1>1, <2>1, EditedCheckpointsType DEF CheckpointsType
  <2> QED BY <1>1, <2>1, <2>2, <2>3
<1>8. CASE UNCHANGED vars
  BY <1>1, <1>8 DEF vars, keys, RowsType, CheckpointsType
<1> QED BY <1>4, <1>5, <1>6, <1>7, <1>8 DEF Next

\* Types are correct: pks are unique and drawn from their sequences, whatever is edited
\* (AuditVerification, operations.py).
THEOREM VerificationTypeCorrect == Spec => []TypeOK
<1>1. TypeInv => TypeOK
  BY DEF TypeInv
<1> QED BY <1>1, InitTypes, TypeStep, PTL DEF Spec

-----------------------------------------------------------------------------
(* The hash of the last row fixes the hashes of all rows.                  *)

\* A table whose hash column is a chain: every hash is made over the one before it.
Chained(T) ==
  /\ Keyed(T)
  /\ \A r \in T : \E k, e, b :
       r.entry_hash = HmacSha256(k, ChecksumPayload(e, LastEntryHash(Below(T, r.pk)), b))

\* The hash of the i-th row, and what the first row is chained to.
HashAt(T, i) == IF i = 0 THEN Genesis ELSE InPkOrder(T)[i].entry_hash

LEMMA ChainedHash ==
  ASSUME NEW T, Chained(T), NEW i \in 1..Cardinality(T)
  PROVE  HashAt(T, i)[2][2] = HashAt(T, i - 1) /\ HashAt(T, i) # Genesis
<1> DEFINE r == InPkOrder(T)[i]
           h == LastEntryHash(Below(T, r.pk))
<1>1. Keyed(T) /\ Cardinality(T) \in Nat
  BY HashAtEnd DEF Chained
<1>2. r \in T /\ h = HashAt(T, i - 1)
  <2>1. h = IF i = 1 THEN Genesis ELSE InPkOrder(T)[i - 1].entry_hash
    BY <1>1, HashBefore
  <2>2. i = 1 <=> i - 1 = 0
    BY <1>1
  <2> QED BY <1>1, <2>1, <2>2, InPkOrderRank DEF HashAt
<1>3. PICK k, e, b : r.entry_hash = <<k, <<e, h, b>>>>
  BY <1>2 DEF Chained, HmacSha256, ChecksumPayload
<1>4. HashAt(T, i) = r.entry_hash
  BY <1>1 DEF HashAt
<1> HIDE DEF r, h
<1>5. <<k, <<e, h, b>>>> # <<>>
  OBVIOUS
<1> QED BY <1>2, <1>3, <1>4, <1>5 DEF Genesis

LEMMA SameHashSameChain ==
  ASSUME NEW S, NEW T, Chained(S), Chained(T), LastEntryHash(S) = LastEntryHash(T)
  PROVE  /\ Cardinality(S) = Cardinality(T)
         /\ \A i \in 1..Cardinality(S) : InPkOrder(S)[i].entry_hash = InPkOrder(T)[i].entry_hash
<1> DEFINE m == Cardinality(S)
           n == Cardinality(T)
           Same == {j \in Nat : j <= m /\ j <= n => HashAt(S, m - j) = HashAt(T, n - j)}
<1>1. m \in Nat /\ n \in Nat /\ HashAt(S, m) = HashAt(T, n)
  BY HashAtEnd DEF Chained, HashAt
<1>2. /\ \A i \in 1..m : HashAt(S, i)[2][2] = HashAt(S, i - 1) /\ HashAt(S, i) # Genesis
      /\ \A i \in 1..n : HashAt(T, i)[2][2] = HashAt(T, i - 1) /\ HashAt(T, i) # Genesis
  BY ChainedHash
<1>3. HashAt(S, 0) = Genesis /\ HashAt(T, 0) = Genesis
  BY DEF HashAt
<1> HIDE DEF m, n
<1>4. \A j \in Nat : j <= m /\ j <= n => HashAt(S, m - j) = HashAt(T, n - j)
  <2>1. 0 \in Same
    BY <1>1
  <2>2. ASSUME NEW j \in Nat, j \in Same PROVE j + 1 \in Same
    <3> SUFFICES ASSUME j + 1 <= m, j + 1 <= n
                 PROVE  HashAt(S, m - (j + 1)) = HashAt(T, n - (j + 1))
      OBVIOUS
    <3>1. HashAt(S, m - j) = HashAt(T, n - j) /\ m - j \in 1..m /\ n - j \in 1..n
      BY <1>1, <2>2
    <3>2. HashAt(S, (m - j) - 1) = HashAt(T, (n - j) - 1)
      BY <1>2, <3>1
    <3>3. (m - j) - 1 = m - (j + 1) /\ (n - j) - 1 = n - (j + 1)
      BY <1>1
    <3> QED BY <3>2, <3>3
  <2>3. Nat \subseteq Same
    <3> HIDE DEF Same
    <3> QED BY <2>1, <2>2, EveryNumber
  <2> QED BY <2>3
<1>5. ~(m < n)
  <2> SUFFICES ASSUME m < n PROVE FALSE
    OBVIOUS
  <2>1. HashAt(S, m - m) = HashAt(T, n - m) /\ m - m = 0 /\ n - m \in 1..n
    BY <1>1, <1>4
  <2> QED BY <1>2, <1>3, <2>1
<1>6. ~(n < m)
  <2> SUFFICES ASSUME n < m PROVE FALSE
    OBVIOUS
  <2>1. HashAt(S, m - n) = HashAt(T, n - n) /\ n - n = 0 /\ m - n \in 1..m
    BY <1>1, <1>4
  <2> QED BY <1>2, <1>3, <2>1
<1>7. m = n
  BY <1>1, <1>5, <1>6
<1>8. ASSUME NEW i \in 1..m PROVE InPkOrder(S)[i].entry_hash = InPkOrder(T)[i].entry_hash
  <2>1. m - i \in Nat /\ m - i <= m /\ m - (m - i) = i /\ i # 0
    BY <1>1
  <2>2. HashAt(S, i) = HashAt(T, i)
    BY <1>4, <1>7, <2>1
  <2> QED BY <2>1, <2>2 DEF HashAt
<1> QED BY <1>7, <1>8 DEF m, n

-----------------------------------------------------------------------------
(* The walk of verify_chain.                                               *)

\* The reports satisfy their recursive definition: for every number of rows there is a
\* function that does, by adding a report for one more row.
LEMMA WalkReports ==
  ASSUME NEW T, Cardinality(T) \in Nat, NEW current, NEW previous, NEW full
  PROVE  /\ Walk(T, current, previous, full)[0] = Untouched
         /\ \A i \in 1..Cardinality(T) :
              Walk(T, current, previous, full)[i] =
                WalkRow(Walk(T, current, previous, full)[i - 1], InPkOrder(T)[i],
                        current, previous, full)
<1> DEFINE Step(report, i) == WalkRow(report, InPkOrder(T)[i], current, previous, full)
           IsWalk(g, m) == g = [i \in 0..m |-> IF i = 0 THEN Untouched ELSE Step(g[i - 1], i)]
           Sizes == {m \in Nat : \E g : IsWalk(g, m)}
           n == Cardinality(T)
           w == CHOOSE g : IsWalk(g, n)
<1>1. Walk(T, current, previous, full) = w
  BY Zenon DEF Walk
<1> HIDE DEF Step
<1>2. 0 \in Sizes
  <2>1. IsWalk([i \in 0..0 |-> Untouched], 0)
    OBVIOUS
  <2> QED BY <2>1
<1>3. ASSUME NEW m \in Nat, m \in Sizes PROVE m + 1 \in Sizes
  <2>1. PICK g : IsWalk(g, m)
    BY <1>3
  <2> DEFINE h == [i \in 0..(m + 1) |-> IF i <= m THEN g[i] ELSE Step(g[m], i)]
  <2>2. ASSUME NEW i \in 0..(m + 1)
        PROVE  h[i] = IF i = 0 THEN Untouched ELSE Step(h[i - 1], i)
    <3>1. CASE i = 0
      BY <2>1, <3>1
    <3>2. CASE i # 0 /\ i <= m
      <4>1. i \in 0..m /\ i - 1 \in 0..m /\ i - 1 <= m /\ i - 1 \in 0..(m + 1)
        BY <3>2
      <4>2. h[i] = g[i] /\ h[i - 1] = g[i - 1]
        BY <3>2, <4>1
      <4>3. g[i] = Step(g[i - 1], i)
        BY <2>1, <3>2, <4>1
      <4> QED BY <3>2, <4>2, <4>3
    <3>3. CASE i = m + 1
      <4>1. i - 1 = m /\ m \in 0..(m + 1) /\ m <= m /\ ~(i <= m) /\ i # 0
        BY <3>3
      <4>2. h[i - 1] = g[m] /\ h[i] = Step(g[m], i)
        BY <3>3, <4>1
      <4> QED BY <4>1, <4>2
    <3> QED BY <3>1, <3>2, <3>3
  <2>3. IsWalk(h, m + 1)
    <3>1. h = [i \in 0..(m + 1) |-> h[i]]
      OBVIOUS
    <3> HIDE DEF h
    <3> QED BY <2>2, <3>1
  <2>4. m + 1 \in Nat /\ \E x : IsWalk(x, m + 1)
    <3> HIDE DEF h, IsWalk
    <3> QED BY <2>3
  <2> QED BY <2>4
<1>4. n \in Sizes
  <2>1. Nat \subseteq Sizes
    <3> HIDE DEF Sizes
    <3> QED BY <1>2, <1>3, EveryNumber
  <2> QED BY <2>1
<1>5. IsWalk(w, n)
  BY <1>4
<1> HIDE DEF w
<1>6. w[0] = Untouched /\ \A i \in 1..n : w[i] = Step(w[i - 1], i)
  BY <1>5
<1> QED BY <1>1, <1>6 DEF Step

-----------------------------------------------------------------------------
(* What one row does to the report.                                        *)

\* The report with these fields.
Reports(r, is_intact, total_count, current_key_count, previous_key_count, failed_pk,
        failure_reason, expected_previous_hash, done, raised) ==
  r = [is_intact |-> is_intact, total_count |-> total_count,
       current_key_count |-> current_key_count, previous_key_count |-> previous_key_count,
       failed_pk |-> failed_pk, failure_reason |-> failure_reason,
       expected_previous_hash |-> expected_previous_hash, done |-> done, raised |-> raised]

LEMMA ReportFields ==
  ASSUME NEW a, NEW b, NEW c, NEW d, NEW e, NEW f, NEW g, NEW h, NEW i,
         NEW r, Reports(r, a, b, c, d, e, f, g, h, i)
  PROVE  /\ r.is_intact = a /\ r.total_count = b /\ r.current_key_count = c
         /\ r.previous_key_count = d /\ r.failed_pk = e /\ r.failure_reason = f
         /\ r.expected_previous_hash = g /\ r.done = h /\ r.raised = i
BY DEF Reports

LEMMA ReportUpdates ==
  ASSUME NEW a, NEW b, NEW c, NEW d, NEW e, NEW f, NEW g, NEW h, NEW i,
         NEW r, Reports(r, a, b, c, d, e, f, g, h, i), NEW x
  PROVE  /\ Reports([r EXCEPT !.is_intact = x], x, b, c, d, e, f, g, h, i)
         /\ Reports([r EXCEPT !.total_count = x], a, x, c, d, e, f, g, h, i)
         /\ Reports([r EXCEPT !.current_key_count = x], a, b, x, d, e, f, g, h, i)
         /\ Reports([r EXCEPT !.previous_key_count = x], a, b, c, x, e, f, g, h, i)
         /\ Reports([r EXCEPT !.failed_pk = x], a, b, c, d, x, f, g, h, i)
         /\ Reports([r EXCEPT !.failure_reason = x], a, b, c, d, e, x, g, h, i)
         /\ Reports([r EXCEPT !.expected_previous_hash = x], a, b, c, d, e, f, x, h, i)
         /\ Reports([r EXCEPT !.done = x], a, b, c, d, e, f, g, x, i)
         /\ Reports([r EXCEPT !.raised = x], a, b, c, d, e, f, g, h, x)
<1>1. Reports([r EXCEPT !.is_intact = x], x, b, c, d, e, f, g, h, i)
  BY DEF Reports
<1>2. Reports([r EXCEPT !.total_count = x], a, x, c, d, e, f, g, h, i)
  BY DEF Reports
<1>3. Reports([r EXCEPT !.current_key_count = x], a, b, x, d, e, f, g, h, i)
  BY DEF Reports
<1>4. Reports([r EXCEPT !.previous_key_count = x], a, b, c, x, e, f, g, h, i)
  BY DEF Reports
<1>5. Reports([r EXCEPT !.failed_pk = x], a, b, c, d, x, f, g, h, i)
  BY DEF Reports
<1>6. Reports([r EXCEPT !.failure_reason = x], a, b, c, d, e, x, g, h, i)
  BY DEF Reports
<1>7. Reports([r EXCEPT !.expected_previous_hash = x], a, b, c, d, e, f, x, h, i)
  BY DEF Reports
<1>8. Reports([r EXCEPT !.done = x], a, b, c, d, e, f, g, x, i)
  BY DEF Reports
<1>9. Reports([r EXCEPT !.raised = x], a, b, c, d, e, f, g, h, x)
  BY DEF Reports
<1> QED BY <1>1, <1>2, <1>3, <1>4, <1>5, <1>6, <1>7, <1>8, <1>9, Zenon

\* The failure that is remembered: the one there was, or else the new one.
Kept(failed_pk, old, new) == IF failed_pk = NoPk THEN new ELSE old

LEMMA FailedIs ==
  ASSUME NEW a, NEW b, NEW c, NEW d, NEW e, NEW f, NEW g, NEW h, NEW i, NEW pk, NEW reason,
         NEW r, Reports(r, a, b, c, d, e, f, g, h, i)
  PROVE  Reports(Failed(r, pk, reason),
                 FALSE, b, c, d, Kept(e, e, pk), Kept(e, f, reason), g, h, i)
<1> DEFINE x == Kept(e, e, pk)
           y == Kept(e, f, reason)
           r1 == [r EXCEPT !.is_intact = FALSE]
           r2 == [r1 EXCEPT !.failed_pk = x]
           r3 == [r2 EXCEPT !.failure_reason = y]
<1> HIDE DEF x, y, r1, r2, r3
<1>1. Reports(r1, FALSE, b, c, d, e, f, g, h, i)
  BY ReportUpdates, Zenon DEF r1
<1>2. Reports(r2, FALSE, b, c, d, x, f, g, h, i)
  BY <1>1, ReportUpdates, Zenon DEF r2
<1>3. Reports(r3, FALSE, b, c, d, x, y, g, h, i)
  BY <1>2, ReportUpdates, Zenon DEF r3
<1>4. r.failed_pk = e /\ r1.failed_pk = e /\ r2.failure_reason = f
  <2>1. r.failed_pk = e
    BY ReportFields
  <2>2. r1.failed_pk = e
    BY <1>1 DEF Reports
  <2>3. r2.failure_reason = f
    BY <1>2 DEF Reports
  <2> QED BY <2>1, <2>2, <2>3
<1>5. Failed(r, pk, reason) = r3
  BY <1>4, Zenon DEF Failed, Kept, r3, r2, r1, x, y
<1> QED BY <1>3, <1>5, Zenon DEF x, y

LEMMA CheckLinkIs ==
  ASSUME NEW a, NEW b, NEW c, NEW d, NEW e, NEW f, NEW g, NEW h, NEW i, NEW entry,
         NEW r, Reports(r, a, b, c, d, e, f, g, h, i)
  PROVE  /\ entry.previous_hash = g =>
              Reports(CheckLink(r, entry), a, b + 1, c, d, e, f, g, h, i)
         /\ entry.previous_hash # g =>
              Reports(CheckLink(r, entry), FALSE, b + 1, c, d, Kept(e, e, entry.pk),
                      Kept(e, f, "previous_hash mismatch"), g, h, i)
<1> DEFINE q == [r EXCEPT !.total_count = b + 1]
<1>1. r.total_count = b /\ r.expected_previous_hash = g
  BY ReportFields
<1>2. Reports(q, a, b + 1, c, d, e, f, g, h, i)
  BY ReportUpdates, Zenon
<1>3. CheckLink(r, entry) = IF entry.previous_hash = g THEN q
                            ELSE Failed(q, entry.pk, "previous_hash mismatch")
  BY <1>1, Zenon DEF CheckLink
<1> HIDE DEF q
<1>4. Reports(Failed(q, entry.pk, "previous_hash mismatch"), FALSE, b + 1, c, d,
              Kept(e, e, entry.pk), Kept(e, f, "previous_hash mismatch"), g, h, i)
  BY <1>2, FailedIs, Zenon
<1> QED BY <1>2, <1>3, <1>4, Zenon

LEMMA CheckMacIs ==
  ASSUME NEW a, NEW b, NEW c, NEW d, NEW e, NEW f, NEW g, NEW h, NEW i, NEW entry, NEW result,
         NEW r, Reports(r, a, b, c, d, e, f, g, h, i)
  PROVE  /\ result = "current" =>
              Reports(CheckMac(r, entry, result), a, b, c + 1, d, e, f, g, h, i)
         /\ result = "previous" =>
              Reports(CheckMac(r, entry, result), a, b, c, d + 1, e, f, g, h, i)
         /\ result \notin {"current", "previous"} =>
              Reports(CheckMac(r, entry, result), FALSE, b, c, d, Kept(e, e, entry.pk),
                      Kept(e, f, "MAC verification failed"), g, h, i)
<1> DEFINE q == [r EXCEPT !.current_key_count = c + 1]
           p == [r EXCEPT !.previous_key_count = d + 1]
<1>1. r.current_key_count = c /\ r.previous_key_count = d
  BY ReportFields
<1>2. Reports(q, a, b, c + 1, d, e, f, g, h, i) /\ Reports(p, a, b, c, d + 1, e, f, g, h, i)
  BY ReportUpdates, Zenon
<1>3. ASSUME result = "current" PROVE CheckMac(r, entry, result) = q
  <2>1. result = "current" /\ ~(result = "previous")
    BY <1>3
  <2> QED BY <1>1, <2>1, Zenon DEF CheckMac
<1>4. ASSUME result = "previous" PROVE CheckMac(r, entry, result) = p
  <2>1. result = "previous" /\ ~(result = "current")
    BY <1>4
  <2> QED BY <1>1, <2>1, Zenon DEF CheckMac
<1>5. ASSUME result \notin {"current", "previous"}
      PROVE  CheckMac(r, entry, result) = Failed(r, entry.pk, "MAC verification failed")
  <2>1. ~(result = "previous") /\ ~(result = "current")
    BY <1>5
  <2> QED BY <2>1, Zenon DEF CheckMac
<1> HIDE DEF q, p
<1>6. Reports(Failed(r, entry.pk, "MAC verification failed"), FALSE, b, c, d,
              Kept(e, e, entry.pk), Kept(e, f, "MAC verification failed"), g, h, i)
  BY FailedIs, Zenon
<1> QED BY <1>2, <1>3, <1>4, <1>5, <1>6, Zenon

\* The end of a step that checks the MAC.
Settled(r, stops, hash) ==
  [r EXCEPT !.done = stops, !.expected_previous_hash = IF stops THEN @ ELSE hash]

LEMMA SettledIs ==
  ASSUME NEW a, NEW b, NEW c, NEW d, NEW e, NEW f, NEW g, NEW h, NEW i, NEW stops, NEW hash,
         NEW x, x = IF stops THEN g ELSE hash,
         NEW r, Reports(r, a, b, c, d, e, f, g, h, i)
  PROVE  Reports(Settled(r, stops, hash), a, b, c, d, e, f, x, stops, i)
<1> DEFINE q == [r EXCEPT !.done = stops]
<1>1. r.expected_previous_hash = g
  BY ReportFields
<1>2. Settled(r, stops, hash) = [q EXCEPT !.expected_previous_hash = x]
  BY <1>1 DEF Settled
<1> HIDE DEF q
<1>3. Reports(q, a, b, c, d, e, f, g, stops, i)
  BY ReportUpdates, Zenon DEF q
<1>4. Reports([q EXCEPT !.expected_previous_hash = x], a, b, c, d, e, f, x, stops, i)
  BY <1>3, ReportUpdates, Zenon
<1> QED BY <1>2, <1>4, Zenon

\* The walk stops at the link, or because there is no key to check with.
LEMMA WalkRowStops ==
  ASSUME NEW a, NEW b, NEW c, NEW d, NEW e, NEW f, NEW g, NEW i, NEW entry,
         NEW current, NEW previous, NEW full \in BOOLEAN, NEW no, ~no,
         NEW r, Reports(r, a, b, c, d, e, f, g, no, i)
  PROVE  /\ ~full /\ entry.previous_hash # g =>
              Reports(WalkRow(r, entry, current, previous, full), FALSE, b + 1, c, d, Kept(e, e, entry.pk),
                      Kept(e, f, "previous_hash mismatch"), g, TRUE, i)
         /\ full \/ entry.previous_hash = g =>
              (VerifyEntry(entry, current, previous) = "raises" =>
                 /\ WalkRow(r, entry, current, previous, full).done
                 /\ WalkRow(r, entry, current, previous, full).raised)
<1> DEFINE linked == CheckLink(r, entry)
           result == VerifyEntry(entry, current, previous)
           yes == TRUE
           w == WalkRow(r, entry, current, previous, full)
<1> HIDE DEF yes
<1>1. r.done = no /\ r.expected_previous_hash = g
  BY ReportFields
<1>2. ASSUME ~full, entry.previous_hash # g
      PROVE  Reports(w, FALSE, b + 1, c, d, Kept(e, e, entry.pk),
                     Kept(e, f, "previous_hash mismatch"), g, TRUE, i)
  <2>1. w = [linked EXCEPT !.done = yes]
    BY <1>1, <1>2, Zenon DEF WalkRow, yes
  <2> HIDE DEF w
  <2>2. Reports(linked, FALSE, b + 1, c, d, Kept(e, e, entry.pk),
                Kept(e, f, "previous_hash mismatch"), g, no, i)
    BY <1>2, CheckLinkIs, Zenon
  <2> HIDE DEF linked
  <2>3. Reports([linked EXCEPT !.done = yes], FALSE, b + 1, c, d, Kept(e, e, entry.pk),
                Kept(e, f, "previous_hash mismatch"), g, yes, i)
    BY <2>2, ReportUpdates, Zenon
  <2> QED BY <2>1, <2>3, Zenon DEF yes
<1>3. ASSUME full \/ entry.previous_hash = g, result = "raises"
      PROVE  w.done /\ w.raised
  <2>1. w = [linked EXCEPT !.done = yes, !.raised = yes]
    BY <1>1, <1>3, Zenon DEF WalkRow, yes
  <2>2. \E x, y, z : Reports(linked, x, b + 1, c, d, y, z, g, no, i)
    <3>1. \/ Reports(linked, a, b + 1, c, d, e, f, g, no, i)
          \/ Reports(linked, FALSE, b + 1, c, d, Kept(e, e, entry.pk),
                     Kept(e, f, "previous_hash mismatch"), g, no, i)
      BY CheckLinkIs, Zenon
    <3> HIDE DEF linked
    <3> QED BY <3>1, Zenon
  <2>3. PICK x, y, z : Reports(linked, x, b + 1, c, d, y, z, g, no, i)
    BY <2>2
  <2> DEFINE q == [linked EXCEPT !.done = yes]
  <2>4. w = [q EXCEPT !.raised = yes]
    BY <2>1
  <2> HIDE DEF linked, w
  <2>5. Reports(q, x, b + 1, c, d, y, z, g, yes, i)
    BY <2>3, ReportUpdates, Zenon
  <2> HIDE DEF q
  <2>6. Reports([q EXCEPT !.raised = yes], x, b + 1, c, d, y, z, g, yes, yes)
    BY <2>5, ReportUpdates, Zenon
  <2>7. Reports(w, x, b + 1, c, d, y, z, g, yes, yes)
    BY <2>4, <2>6, Zenon
  <2>8. w.done = yes /\ w.raised = yes
    BY <2>7, ReportFields
  <2> QED BY <2>8, Zenon DEF yes
<1> QED BY <1>2, <1>3

\* Otherwise it checks the MAC.
LEMMA WalkRowChecks ==
  ASSUME NEW a, NEW b, NEW c, NEW d, NEW e, NEW f, NEW g, NEW i, NEW entry,
         NEW current, NEW previous, NEW full \in BOOLEAN, NEW no, ~no,
         NEW r, ~r.done, full \/ entry.previous_hash = r.expected_previous_hash,
         Reports(CheckLink(r, entry), a, b, c, d, e, f, g, no, i),
         VerifyEntry(entry, current, previous) # "raises"
  PROVE  /\ VerifyEntry(entry, current, previous) = "current" =>
              Reports(WalkRow(r, entry, current, previous, full),
                      a, b, c + 1, d, e, f, entry.entry_hash, FALSE, i)
         /\ VerifyEntry(entry, current, previous) = "previous" =>
              Reports(WalkRow(r, entry, current, previous, full),
                      a, b, c, d + 1, e, f, entry.entry_hash, FALSE, i)
         /\ VerifyEntry(entry, current, previous) \notin {"current", "previous"} =>
              /\ full => Reports(WalkRow(r, entry, current, previous, full),
                                 FALSE, b, c, d, Kept(e, e, entry.pk),
                                 Kept(e, f, "MAC verification failed"), entry.entry_hash, FALSE, i)
              /\ ~full => Reports(WalkRow(r, entry, current, previous, full),
                                  FALSE, b, c, d, Kept(e, e, entry.pk),
                                  Kept(e, f, "MAC verification failed"), g, TRUE, i)
<1> DEFINE linked == CheckLink(r, entry)
           result == VerifyEntry(entry, current, previous)
           checked == CheckMac(linked, entry, result)
           stops == ~full /\ result \notin {"current", "previous"}
           w == WalkRow(r, entry, current, previous, full)
<1>1. w = Settled(checked, stops, entry.entry_hash)
  BY Zenon DEF WalkRow, Settled
<1> HIDE DEF checked, linked
<1>2. ASSUME result = "current"
      PROVE  Reports(w, a, b, c + 1, d, e, f, entry.entry_hash, FALSE, i)
  <2>1. Reports(checked, a, b, c + 1, d, e, f, g, no, i)
    BY <1>2, CheckMacIs, Zenon DEF checked, linked
  <2>2. stops = FALSE /\ entry.entry_hash = IF stops THEN g ELSE entry.entry_hash
    BY <1>2
  <2> HIDE DEF stops, w
  <2>3. Reports(Settled(checked, stops, entry.entry_hash),
                a, b, c + 1, d, e, f, entry.entry_hash, stops, i)
    BY <2>1, <2>2, SettledIs, Zenon
  <2> QED BY <1>1, <2>2, <2>3, Zenon
<1>3. ASSUME result = "previous"
      PROVE  Reports(w, a, b, c, d + 1, e, f, entry.entry_hash, FALSE, i)
  <2>1. Reports(checked, a, b, c, d + 1, e, f, g, no, i)
    BY <1>3, CheckMacIs, Zenon DEF checked, linked
  <2>2. stops = FALSE /\ entry.entry_hash = IF stops THEN g ELSE entry.entry_hash
    BY <1>3
  <2> HIDE DEF stops, w
  <2>3. Reports(Settled(checked, stops, entry.entry_hash),
                a, b, c, d + 1, e, f, entry.entry_hash, stops, i)
    BY <2>1, <2>2, SettledIs, Zenon
  <2> QED BY <1>1, <2>2, <2>3, Zenon
<1>4. ASSUME result \notin {"current", "previous"}, NEW hash,
             full => hash = entry.entry_hash, ~full => hash = g
      PROVE  Reports(w, FALSE, b, c, d, Kept(e, e, entry.pk),
                     Kept(e, f, "MAC verification failed"), hash, ~full, i)
  <2>1. Reports(checked, FALSE, b, c, d, Kept(e, e, entry.pk),
                Kept(e, f, "MAC verification failed"), g, no, i)
    BY <1>4, CheckMacIs, Zenon DEF checked, linked
  <2>2. stops = ~full /\ hash = IF stops THEN g ELSE entry.entry_hash
    BY <1>4
  <2> HIDE DEF stops, w
  <2>3. Reports(Settled(checked, stops, entry.entry_hash),
                FALSE, b, c, d, Kept(e, e, entry.pk), Kept(e, f, "MAC verification failed"),
                hash, stops, i)
    BY <2>1, <2>2, SettledIs, Zenon
  <2> QED BY <1>1, <2>2, <2>3, Zenon
<1>5. ASSUME result \notin {"current", "previous"}, full
      PROVE  Reports(w, FALSE, b, c, d, Kept(e, e, entry.pk),
                     Kept(e, f, "MAC verification failed"), entry.entry_hash, FALSE, i)
  <2>1. ~full = FALSE
    BY <1>5
  <2>2. Reports(w, FALSE, b, c, d, Kept(e, e, entry.pk),
                Kept(e, f, "MAC verification failed"), entry.entry_hash, ~full, i)
    BY <1>4, <1>5, Zenon
  <2> QED BY <2>1, <2>2, Zenon
<1>6. ASSUME result \notin {"current", "previous"}, ~full
      PROVE  Reports(w, FALSE, b, c, d, Kept(e, e, entry.pk),
                     Kept(e, f, "MAC verification failed"), g, TRUE, i)
  <2>1. ~full = TRUE
    BY <1>6
  <2>2. Reports(w, FALSE, b, c, d, Kept(e, e, entry.pk),
                Kept(e, f, "MAC verification failed"), g, ~full, i)
    BY <1>4, <1>6, Zenon
  <2> QED BY <2>1, <2>2, Zenon
<1> QED BY <1>2, <1>3, <1>5, <1>6, Zenon

-----------------------------------------------------------------------------
(* What the walk reports.                                                  *)

\* The i-th row: the result of its check, whether it carries the hash of the row before it,
\* and whether it is to be reported.
ResultAt(T, current, previous, i) == VerifyEntry(InPkOrder(T)[i], current, previous)
LinkedAt(T, i) == InPkOrder(T)[i].previous_hash = HashAt(T, i - 1)
BadAt(T, current, previous, i) ==
  ~LinkedAt(T, i) \/ ResultAt(T, current, previous, i) \notin {"current", "previous"}

\* The first i rows, and those of them that a key verifies.
FirstRows(T, i) == {InPkOrder(T)[j] : j \in 1..i}
Counted(T, current, previous, i, key) ==
  {r \in FirstRows(T, i) : VerifyEntry(r, current, previous) = key}

LEMMA FirstRowsGrow ==
  ASSUME NEW T, Keyed(T), NEW i \in 1..Cardinality(T)
  PROVE  /\ FirstRows(T, i) = FirstRows(T, i - 1) \cup {InPkOrder(T)[i]}
         /\ InPkOrder(T)[i] \notin FirstRows(T, i - 1)
         /\ FirstRows(T, i) \subseteq T /\ FirstRows(T, i - 1) \subseteq T
         /\ IsFiniteSet(FirstRows(T, i)) /\ IsFiniteSet(FirstRows(T, i - 1))
<1> DEFINE n == Cardinality(T)
           R(j) == InPkOrder(T)[j]
<1>1. n \in Nat
  BY FS_CardinalityType DEF Keyed
<1>2. \A j \in 1..n : R(j) \in T
  BY InPkOrderRank
<1>3. \A j \in 1..n : j < i => R(j).pk < R(i).pk /\ R(j).pk \in Int
  BY <1>2, InPkOrderIncreases DEF Keyed
<1> HIDE DEF n, R
<1>4. /\ 1..i = (1..(i - 1)) \cup {i} /\ i \in 1..n /\ 1..i \subseteq 1..n
      /\ \A j \in 1..(i - 1) : j \in 1..n /\ j < i
  BY <1>1 DEF n
<1>5. FirstRows(T, i) = FirstRows(T, i - 1) \cup {R(i)}
  BY <1>4 DEF FirstRows, R
<1>6. R(i) \notin FirstRows(T, i - 1)
  <2> SUFFICES ASSUME NEW j \in 1..(i - 1), R(j) = R(i) PROVE FALSE
    BY DEF FirstRows, R
  <2>1. R(j).pk < R(i).pk /\ R(j).pk \in Int
    BY <1>3, <1>4
  <2> QED BY <2>1
<1>7. FirstRows(T, i) \subseteq T /\ FirstRows(T, i - 1) \subseteq T
  BY <1>2, <1>4 DEF FirstRows, R
<1>8. FirstRows(T, i) \in SUBSET T /\ FirstRows(T, i - 1) \in SUBSET T
  BY <1>7
<1>9. IsFiniteSet(FirstRows(T, i)) /\ IsFiniteSet(FirstRows(T, i - 1))
  BY <1>8, FS_Subset DEF Keyed
<1> QED BY <1>5, <1>6, <1>7, <1>9 DEF R

\* All rows are in the table's head of full length.
LEMMA FirstRowsAreAll ==
  ASSUME NEW T, Keyed(T)
  PROVE  FirstRows(T, Cardinality(T)) = T
<1>1. FirstRows(T, Cardinality(T)) \subseteq T
  BY InPkOrderRank DEF FirstRows
<1>2. ASSUME NEW r \in T PROVE r \in FirstRows(T, Cardinality(T))
  <2>1. Rank(T, r) \in 0..(Cardinality(T) - 1) /\ Cardinality(T) \in Nat
    BY RankBounds, FS_CardinalityType DEF Keyed
  <2>2. Rank(T, r) + 1 \in 1..Cardinality(T) /\ Rank(T, r) = (Rank(T, r) + 1) - 1
    BY <2>1
  <2>3. InPkOrder(T)[Rank(T, r) + 1] = r
    BY <2>2, InPkOrderIs
  <2> QED BY <2>2, <2>3 DEF FirstRows
<1> QED BY <1>1, <1>2

LEMMA CountedGrows ==
  ASSUME NEW T, Keyed(T), NEW current, NEW previous, NEW i \in 1..Cardinality(T), NEW key
  PROVE  /\ Cardinality(Counted(T, current, previous, i, key)) \in Nat
         /\ Cardinality(Counted(T, current, previous, i - 1, key)) \in Nat
         /\ Cardinality(Counted(T, current, previous, i, key)) =
              IF ResultAt(T, current, previous, i) = key
              THEN Cardinality(Counted(T, current, previous, i - 1, key)) + 1
              ELSE Cardinality(Counted(T, current, previous, i - 1, key))
<1> DEFINE C == Counted(T, current, previous, i, key)
           D == Counted(T, current, previous, i - 1, key)
           r == InPkOrder(T)[i]
<1>1. D \in SUBSET FirstRows(T, i - 1) /\ C \in SUBSET FirstRows(T, i) /\ r \notin D
      /\ C = IF ResultAt(T, current, previous, i) = key THEN D \cup {r} ELSE D
  BY FirstRowsGrow DEF Counted, ResultAt
<1> HIDE DEF C, D, r
<1>2. IsFiniteSet(D) /\ IsFiniteSet(C)
  BY <1>1, FirstRowsGrow, FS_Subset
<1>3. Cardinality(D) \in Nat /\ Cardinality(C) \in Nat
  BY <1>2, FS_CardinalityType
<1>4. Cardinality(D \cup {r}) = Cardinality(D) + 1
  BY <1>1, <1>2, FS_AddElement
<1> QED BY <1>1, <1>3, <1>4 DEF C, D

\* The report after i rows of a walk that goes on.
GoesOn(w, T, current, previous, i) ==
  \E a, e, f :
    /\ Reports(w, a, i, Cardinality(Counted(T, current, previous, i, "current")),
               Cardinality(Counted(T, current, previous, i, "previous")),
               e, f, HashAt(T, i), FALSE, FALSE)
    /\ a \in BOOLEAN
    /\ a = TRUE <=> \A j \in 1..i : ~BadAt(T, current, previous, j)
    /\ e = NoPk <=> \A j \in 1..i : ~BadAt(T, current, previous, j)
    /\ \A j \in 1..i :
         BadAt(T, current, previous, j) /\ (\A l \in 1..(j - 1) : ~BadAt(T, current, previous, l)) =>
           /\ e = InPkOrder(T)[j].pk
           /\ f = IF LinkedAt(T, j) THEN "MAC verification failed" ELSE "previous_hash mismatch"

LEMMA WalkGoesOn ==
  ASSUME NEW T, Keyed(T), \A r \in T : r.pk # NoPk, NEW i \in 1..Cardinality(T),
         NEW current, NEW previous, NEW full \in BOOLEAN,
         NEW r, GoesOn(r, T, current, previous, i - 1),
         ResultAt(T, current, previous, i) # "raises",
         full \/ ~BadAt(T, current, previous, i)
  PROVE  GoesOn(WalkRow(r, InPkOrder(T)[i], current, previous, full), T, current, previous, i)
<1> DEFINE entry == InPkOrder(T)[i]
           w == WalkRow(r, entry, current, previous, full)
           result == VerifyEntry(entry, current, previous)
           Bad(j) == BadAt(T, current, previous, j)
           C(j) == Cardinality(Counted(T, current, previous, j, "current"))
           D(j) == Cardinality(Counted(T, current, previous, j, "previous"))
           g == HashAt(T, i - 1)
           Reason(j) == IF LinkedAt(T, j) THEN "MAC verification failed" ELSE "previous_hash mismatch"
           First(j) == Bad(j) /\ \A l \in 1..(j - 1) : ~Bad(l)
<1> HIDE DEF g
<1>1. PICK a, e, f :
        /\ Reports(r, a, i - 1, C(i - 1), D(i - 1), e, f, g, FALSE, FALSE)
        /\ a \in BOOLEAN
        /\ a = TRUE <=> \A j \in 1..(i - 1) : ~Bad(j)
        /\ e = NoPk <=> \A j \in 1..(i - 1) : ~Bad(j)
        /\ \A j \in 1..(i - 1) : First(j) => e = InPkOrder(T)[j].pk /\ f = Reason(j)
  BY Zenon DEF GoesOn, g
<1>2. /\ entry \in T /\ entry.pk # NoPk /\ entry.entry_hash = HashAt(T, i) /\ i \in Int
      /\ (i - 1) + 1 = i
  BY InPkOrderRank DEF HashAt
<1>3. LinkedAt(T, i) <=> entry.previous_hash = g
  BY DEF LinkedAt, g
<1>4. /\ Bad(i) <=> entry.previous_hash # g \/ result \notin {"current", "previous"}
      /\ result # "raises"
  BY <1>3 DEF BadAt, ResultAt
<1>5. /\ C(i) = IF result = "current" THEN C(i - 1) + 1 ELSE C(i - 1)
      /\ D(i) = IF result = "previous" THEN D(i - 1) + 1 ELSE D(i - 1)
  BY CountedGrows DEF ResultAt
<1> HIDE DEF entry, w, result, Bad, C, D
\* What is remembered after the link is checked.
<1>6. PICK b, x, y :
        /\ Reports(CheckLink(r, entry), b, i, C(i - 1), D(i - 1), x, y, g, FALSE, FALSE)
        /\ entry.previous_hash = g => b = a /\ x = e /\ y = f
        /\ entry.previous_hash # g =>
             b = FALSE /\ x = Kept(e, e, entry.pk) /\ y = Kept(e, f, "previous_hash mismatch")
  <2>1. CASE entry.previous_hash = g
    <3>1. Reports(CheckLink(r, entry), a, (i - 1) + 1, C(i - 1), D(i - 1), e, f, g, FALSE, FALSE)
      BY <1>1, <2>1, CheckLinkIs, Zenon
    <3> QED BY <1>2, <2>1, <3>1, Zenon
  <2>2. CASE entry.previous_hash # g
    <3>1. Reports(CheckLink(r, entry), FALSE, (i - 1) + 1, C(i - 1), D(i - 1),
                  Kept(e, e, entry.pk), Kept(e, f, "previous_hash mismatch"), g, FALSE, FALSE)
      BY <1>1, <2>2, CheckLinkIs, Zenon
    <3> QED BY <1>2, <2>2, <3>1, Zenon
  <2> QED BY <2>1, <2>2
\* And after the MAC is.
<1>7. PICK s, u, v :
        /\ Reports(w, s, i, C(i), D(i), u, v, HashAt(T, i), FALSE, FALSE)
        /\ result \in {"current", "previous"} => s = b /\ u = x /\ v = y
        /\ result \notin {"current", "previous"} =>
             s = FALSE /\ u = Kept(x, x, entry.pk) /\ v = Kept(x, y, "MAC verification failed")
  <2>1. ~r.done /\ r.expected_previous_hash = g
    <3> DEFINE no == FALSE
    <3>1. Reports(r, a, i - 1, C(i - 1), D(i - 1), e, f, g, no, no) /\ ~no
      BY <1>1, Zenon
    <3> HIDE DEF no
    <3>2. r.done = no /\ r.expected_previous_hash = g
      BY <3>1, ReportFields
    <3> QED BY <3>1, <3>2
  <2>2. full \/ entry.previous_hash = r.expected_previous_hash
    BY <1>4, <2>1 DEF Bad
  <2> DEFINE no == FALSE
  <2>3. Reports(CheckLink(r, entry), b, i, C(i - 1), D(i - 1), x, y, g, no, FALSE) /\ ~no
    BY <1>6, Zenon
  <2> HIDE DEF no
  <2>5. /\ result = "current" =>
             Reports(w, b, i, C(i - 1) + 1, D(i - 1), x, y, entry.entry_hash, FALSE, FALSE)
        /\ result = "previous" =>
             Reports(w, b, i, C(i - 1), D(i - 1) + 1, x, y, entry.entry_hash, FALSE, FALSE)
        /\ result \notin {"current", "previous"} =>
             (full => Reports(w, FALSE, i, C(i - 1), D(i - 1), Kept(x, x, entry.pk),
                              Kept(x, y, "MAC verification failed"), entry.entry_hash, FALSE, FALSE))
    BY <1>4, <2>1, <2>2, <2>3, WalkRowChecks, Zenon DEF result, w
  <2>6. CASE result = "current"
    <3>1. C(i) = C(i - 1) + 1 /\ D(i) = D(i - 1)
      BY <1>5, <2>6
    <3>2. result \in {"current", "previous"}
      BY <2>6
    <3> QED BY <1>2, <2>5, <2>6, <3>1, <3>2, Zenon
  <2>7. CASE result = "previous"
    <3>1. C(i) = C(i - 1) /\ D(i) = D(i - 1) + 1
      BY <1>5, <2>7
    <3>2. result \in {"current", "previous"}
      BY <2>7
    <3> QED BY <1>2, <2>5, <2>7, <3>1, <3>2, Zenon
  <2>8. CASE result \notin {"current", "previous"}
    <3>1. C(i) = C(i - 1) /\ D(i) = D(i - 1)
      BY <1>5, <2>8
    <3>2. full
      BY <1>4, <2>8 DEF Bad
    <3> QED BY <1>2, <2>5, <2>8, <3>1, <3>2, Zenon
  <2> QED BY <2>6, <2>7, <2>8
<1>8. (\A j \in 1..i : ~Bad(j)) <=> (\A j \in 1..(i - 1) : ~Bad(j)) /\ ~Bad(i)
  <2>1. 1..i = (1..(i - 1)) \cup {i}
    BY <1>2
  <2> QED BY <2>1
<1>9. s \in BOOLEAN /\ (s = TRUE <=> \A j \in 1..i : ~Bad(j))
  <2> DEFINE Earlier == \A j \in 1..(i - 1) : ~Bad(j)
             Now == \A j \in 1..i : ~Bad(j)
  <2>1. a \in BOOLEAN /\ (a = TRUE <=> Earlier) /\ (Now <=> Earlier /\ ~Bad(i))
    BY <1>1, <1>8
  <2> HIDE DEF Earlier, Now
  <2>2. CASE entry.previous_hash = g /\ result \in {"current", "previous"}
    <3>1. s = a /\ ~Bad(i)
      BY <1>4, <1>6, <1>7, <2>2
    <3> QED BY <2>1, <3>1 DEF Now
  <2>3. CASE ~(entry.previous_hash = g /\ result \in {"current", "previous"})
    <3>1. s = FALSE /\ Bad(i)
      BY <1>4, <1>6, <1>7, <2>3
    <3> QED BY <2>1, <3>1 DEF Now
  <2> QED BY <2>2, <2>3
<1>10. u = NoPk <=> \A j \in 1..i : ~Bad(j)
  BY <1>1, <1>2, <1>4, <1>6, <1>7, <1>8 DEF Kept
<1>11. ASSUME NEW j \in 1..i, First(j) PROVE u = InPkOrder(T)[j].pk /\ v = Reason(j)
  <2>1. CASE j \in 1..(i - 1)
    <3>1. e = InPkOrder(T)[j].pk /\ f = Reason(j) /\ e # NoPk
      BY <1>1, <1>11, <2>1
    <3> QED BY <1>6, <1>7, <3>1 DEF Kept
  <2>2. CASE j = i
    <3>1. e = NoPk
      BY <1>1, <1>11, <2>2
    <3>2. Bad(i)
      BY <1>11, <2>2
    <3>3. InPkOrder(T)[j].pk = entry.pk
      BY <2>2 DEF entry
    <3>4. CASE LinkedAt(T, i)
      BY <1>2, <1>3, <1>4, <1>6, <1>7, <2>2, <3>1, <3>2, <3>3, <3>4 DEF Kept
    <3>5. CASE ~LinkedAt(T, i)
      BY <1>2, <1>3, <1>4, <1>6, <1>7, <2>2, <3>1, <3>2, <3>3, <3>5 DEF Kept
    <3> QED BY <3>4, <3>5
  <2>3. j \in 1..(i - 1) \/ j = i
    BY <1>2
  <2> QED BY <2>1, <2>2, <2>3
<1>12. GoesOn(w, T, current, previous, i)
  <2>1. \A j \in 1..i : First(j) => u = InPkOrder(T)[j].pk /\ v = Reason(j)
    BY <1>11, Zenon
  <2>2. Reports(w, s, i, C(i), D(i), u, v, HashAt(T, i), FALSE, FALSE)
    BY <1>7, Zenon
  <2> QED BY <1>9, <1>10, <2>1, <2>2, Zenon DEF GoesOn, Bad, C, D
<1> QED BY <1>12 DEF w, entry

LEMMA WalkUpTo ==
  ASSUME NEW T, Keyed(T), \A r \in T : r.pk # NoPk, NEW current, NEW previous, NEW full \in BOOLEAN,
         NEW k \in 0..Cardinality(T),
         \A j \in 1..k : /\ ResultAt(T, current, previous, j) # "raises"
                         /\ full \/ ~BadAt(T, current, previous, j)
  PROVE  GoesOn(Walk(T, current, previous, full)[k], T, current, previous, k)
<1> DEFINE w == Walk(T, current, previous, full)
           n == Cardinality(T)
           Good == {i \in Nat : i <= k => GoesOn(w[i], T, current, previous, i)}
<1>1. n \in Nat /\ k \in Nat /\ k <= n
  BY FS_CardinalityType DEF Keyed
<1>2. /\ w[0] = Untouched
      /\ \A i \in 1..n : w[i] = WalkRow(w[i - 1], InPkOrder(T)[i], current, previous, full)
  BY <1>1, WalkReports
<1> HIDE DEF w, n
<1>3. 0 \in Good
  <2>1. Counted(T, current, previous, 0, "current") = {} /\ Counted(T, current, previous, 0, "previous") = {}
    BY DEF Counted, FirstRows
  <2>2. /\ Cardinality(Counted(T, current, previous, 0, "current")) = 0
        /\ Cardinality(Counted(T, current, previous, 0, "previous")) = 0
    BY <2>1, FS_EmptySet
  <2>3. HashAt(T, 0) = Genesis
    BY DEF HashAt
  <2>4. Reports(Untouched, TRUE, 0, 0, 0, NoPk, "none", Genesis, FALSE, FALSE)
    BY Zenon DEF Reports, Untouched
  <2>5. Reports(Untouched, TRUE, 0, Cardinality(Counted(T, current, previous, 0, "current")),
                Cardinality(Counted(T, current, previous, 0, "previous")),
                NoPk, "none", HashAt(T, 0), FALSE, FALSE)
    BY <2>2, <2>3, <2>4, Zenon
  <2>6. \A j \in 1..0 : FALSE
    OBVIOUS
  <2>7. GoesOn(Untouched, T, current, previous, 0)
    <3>1. TRUE \in BOOLEAN
      OBVIOUS
    <3> QED BY <2>5, <2>6, <3>1, Zenon DEF GoesOn
  <2> QED BY <1>2, <2>7
<1>4. ASSUME NEW i \in Nat, i \in Good PROVE i + 1 \in Good
  <2> SUFFICES ASSUME i + 1 <= k PROVE GoesOn(w[i + 1], T, current, previous, i + 1)
    OBVIOUS
  <2>1. GoesOn(w[i], T, current, previous, i) /\ i + 1 \in 1..n /\ i + 1 \in 1..k /\ (i + 1) - 1 = i
    BY <1>1, <1>4
  <2>2. w[i + 1] = WalkRow(w[i], InPkOrder(T)[i + 1], current, previous, full)
    BY <1>2, <2>1
  <2>3. /\ ResultAt(T, current, previous, i + 1) # "raises"
        /\ full \/ ~BadAt(T, current, previous, i + 1)
    BY <2>1
  <2> DEFINE m == i + 1
  <2>4. m \in 1..Cardinality(T) /\ GoesOn(w[i], T, current, previous, m - 1)
    BY <2>1 DEF n
  <2> HIDE DEF m
  <2>5. GoesOn(WalkRow(w[i], InPkOrder(T)[m], current, previous, full), T, current, previous, m)
    <3>1. ResultAt(T, current, previous, m) # "raises" /\ (full \/ ~BadAt(T, current, previous, m))
      BY <2>3 DEF m
    <3> QED BY <2>4, <3>1, WalkGoesOn
  <2> QED BY <2>2, <2>5 DEF m
<1>5. k \in Good
  <2>1. Nat \subseteq Good
    <3> HIDE DEF Good
    <3> QED BY <1>3, <1>4, EveryNumber
  <2> QED BY <1>1, <2>1
<1> QED BY <1>1, <1>5 DEF w

\* A walk that is done stays as it is.
LEMMA WalkIsDone ==
  ASSUME NEW T, Keyed(T), NEW current, NEW previous, NEW full,
         NEW i \in 1..Cardinality(T), Walk(T, current, previous, full)[i].done
  PROVE  VerifyChain(T, current, previous, full) = Walk(T, current, previous, full)[i]
<1> DEFINE w == Walk(T, current, previous, full)
           n == Cardinality(T)
           Same == {j \in Nat : i + j <= n => w[i + j] = w[i]}
<1>1. n \in Nat /\ i \in Nat
  BY FS_CardinalityType DEF Keyed
<1>2. \A j \in 1..n : w[j] = WalkRow(w[j - 1], InPkOrder(T)[j], current, previous, full)
  BY <1>1, WalkReports, Zenon
<1>3. w[i].done
  OBVIOUS
<1> HIDE DEF w, n
<1>4. 0 \in Same
  BY <1>1
<1>5. ASSUME NEW j \in Nat, j \in Same PROVE j + 1 \in Same
  <2> SUFFICES ASSUME i + (j + 1) <= n PROVE w[i + (j + 1)] = w[i]
    OBVIOUS
  <2>1. w[i + j] = w[i] /\ i + (j + 1) \in 1..n /\ (i + (j + 1)) - 1 = i + j
    BY <1>1, <1>5
  <2>2. w[i + (j + 1)] = WalkRow(w[i], InPkOrder(T)[i + (j + 1)], current, previous, full)
    BY <1>2, <2>1
  <2> HIDE DEF Same
  <2> QED BY <1>3, <2>2, Zenon DEF WalkRow
<1>6. n - i \in Same
  <2>1. Nat \subseteq Same
    <3> HIDE DEF Same
    <3> QED BY <1>4, <1>5, EveryNumber
  <2>2. n - i \in Nat
    BY <1>1 DEF n
  <2> QED BY <2>1, <2>2
<1>7. w[n] = w[i]
  <2>1. i + (n - i) = n
    BY <1>1
  <2> QED BY <1>1, <1>6, <2>1
<1> QED BY <1>7 DEF VerifyChain, w, n

\* verify_chain in full mode, when every row has a result.
LEMMA FullWalk ==
  ASSUME NEW T, Keyed(T), \A r \in T : r.pk # NoPk, NEW current, NEW previous,
         \A j \in 1..Cardinality(T) : ResultAt(T, current, previous, j) # "raises"
  PROVE  GoesOn(VerifyChain(T, current, previous, TRUE), T, current, previous, Cardinality(T))
<1>1. Cardinality(T) \in 0..Cardinality(T) /\ TRUE \in BOOLEAN
  BY FS_CardinalityType DEF Keyed
<1> QED BY <1>1, WalkUpTo, Zenon DEF VerifyChain

\* It raises as soon as there is no key to check a row with.
LEMMA WalkRaises ==
  ASSUME NEW T, Keyed(T), \A r \in T : r.pk # NoPk, NEW current, NEW previous, NEW full \in BOOLEAN,
         NEW m \in 1..Cardinality(T), ResultAt(T, current, previous, m) = "raises",
         full \/ LinkedAt(T, m),
         \A j \in 1..(m - 1) : /\ ResultAt(T, current, previous, j) # "raises"
                               /\ full \/ ~BadAt(T, current, previous, j)
  PROVE  VerifyChain(T, current, previous, full).raised
<1> DEFINE w == Walk(T, current, previous, full)
           entry == InPkOrder(T)[m]
           i == m - 1
           no == FALSE
<1>1. Cardinality(T) \in Nat
  BY FS_CardinalityType DEF Keyed
<1>2. i \in 0..Cardinality(T)
  BY <1>1
<1>3. GoesOn(w[i], T, current, previous, i)
  <2> HIDE DEF i
  <2>1. \A j \in 1..i : /\ ResultAt(T, current, previous, j) # "raises"
                        /\ full \/ ~BadAt(T, current, previous, j)
    BY DEF i
  <2> QED BY <1>2, <2>1, WalkUpTo
<1>4. w[m] = WalkRow(w[i], entry, current, previous, full)
  BY <1>1, WalkReports
<1>5. w[m].done /\ w[m].raised
  <2>1. \E a, c, d, e, f : Reports(w[i], a, i, c, d, e, f, HashAt(T, i), no, no) /\ ~no
    BY <1>3, Zenon DEF GoesOn
  <2>2. (full \/ entry.previous_hash = HashAt(T, i)) /\ VerifyEntry(entry, current, previous) = "raises"
    BY DEF LinkedAt, ResultAt
  <2> HIDE DEF w, i, no, entry
  <2>3. PICK a, c, d, e, f : Reports(w[i], a, i, c, d, e, f, HashAt(T, i), no, no) /\ ~no
    BY <2>1, Zenon
  <2>4. /\ WalkRow(w[i], entry, current, previous, full).done
        /\ WalkRow(w[i], entry, current, previous, full).raised
    BY <2>2, <2>3, WalkRowStops, Zenon
  <2> QED BY <1>4, <2>4
<1>6. VerifyChain(T, current, previous, full) = w[m]
  BY <1>5, WalkIsDone
<1> QED BY <1>5, <1>6, Zenon

-----------------------------------------------------------------------------
(* An intact table.                                                        *)

\* What the loop expects of a row is the hash of the row before it in pk order.
LEMMA LinkedAtIs ==
  ASSUME NEW T, Keyed(T), NEW i \in 1..Cardinality(T)
  PROVE  /\ InPkOrder(T)[i] \in T
         /\ LinkedAt(T, i) <=>
              InPkOrder(T)[i].previous_hash = LastEntryHash(Below(T, InPkOrder(T)[i].pk))
<1>1. i = 1 <=> i - 1 = 0
  OBVIOUS
<1> QED BY <1>1, HashBefore, InPkOrderRank DEF LinkedAt, HashAt

\* Every row is in some place.
LEMMA PlaceOf ==
  ASSUME NEW T, Keyed(T), NEW r \in T
  PROVE  \E i \in 1..Cardinality(T) : InPkOrder(T)[i] = r
BY FirstRowsAreAll DEF FirstRows

LEMMA IntactIs ==
  ASSUME NEW T, Keyed(T), \A r \in T : r.pk # NoPk, NEW current, NEW previous
  PROVE  Intact(T, current, previous) <=> Linked(T) /\ \A r \in T : Verified(r, current, previous)
<1> DEFINE n == Cardinality(T)
           Raising == {j \in 1..n : ResultAt(T, current, previous, j) = "raises"}
           report == VerifyChain(T, current, previous, TRUE)
<1>1. CASE Raising # {}
  <2>1. PICK m \in Raising : \A j \in Raising : m <= j
    <3>1. Raising \subseteq Nat
      OBVIOUS
    <3> HIDE DEF Raising
    <3> QED BY <1>1, <3>1, LeastNumber
  <2>2. /\ m \in 1..n /\ ResultAt(T, current, previous, m) = "raises"
        /\ \A j \in 1..(m - 1) : ResultAt(T, current, previous, j) # "raises"
    <3>1. n \in Nat
      BY FS_CardinalityType DEF Keyed
    <3> HIDE DEF n
    <3>2. \A j \in 1..(m - 1) : j \in 1..n /\ ~(m <= j)
      BY <2>1, <3>1
    <3> QED BY <2>1, <3>2
  <2>3. report.raised
    <3>1. TRUE \in BOOLEAN
      OBVIOUS
    <3> QED BY <2>2, <3>1, WalkRaises, Zenon
  <2>4. InPkOrder(T)[m] \in T /\ ~Verified(InPkOrder(T)[m], current, previous)
    BY <2>2, LinkedAtIs DEF ResultAt, Verified
  <2> QED BY <2>3, <2>4 DEF Intact
<1>2. CASE Raising = {}
  <2>1. \A j \in 1..n : ResultAt(T, current, previous, j) # "raises"
    BY <1>2
  <2>2. GoesOn(report, T, current, previous, n)
    BY <2>1, FullWalk
  <2>3. ~report.raised /\ (report.is_intact <=> \A j \in 1..n : ~BadAt(T, current, previous, j))
    <3> DEFINE Fine == \A j \in 1..n : ~BadAt(T, current, previous, j)
    <3> HIDE DEF report, n
    <3> DEFINE no == FALSE
    <3>1. PICK a, c, d, e, f :
            Reports(report, a, n, c, d, e, f, HashAt(T, n), no, no) /\ a \in BOOLEAN
            /\ (a = TRUE <=> Fine) /\ ~no
      BY <2>2, Zenon DEF GoesOn
    <3> HIDE DEF no, Fine
    <3>2. report.is_intact = a /\ report.raised = no
      BY <3>1, ReportFields
    <3>3. report.is_intact <=> Fine
      BY <3>1, <3>2
    <3> QED BY <3>1, <3>2, <3>3 DEF Fine
  <2>4. (\A j \in 1..n : ~BadAt(T, current, previous, j)) <=>
          Linked(T) /\ \A r \in T : Verified(r, current, previous)
    BY LinkedAtIs, PlaceOf DEF BadAt, ResultAt, Linked, Verified
  <2> QED BY <2>3, <2>4 DEF Intact
<1> QED BY <1>1, <1>2

\* The key a verified entry was sealed with.
LEMMA VerifiedIs ==
  ASSUME NEW r, NEW current, NEW previous
  PROVE  Verified(r, current, previous) <=>
           /\ ValidateEnvelope(r.envelope) /\ current # NoKey
           /\ \/ r.entry_hash = EntryMac(current, r)
              \/ previous # NoKey /\ r.entry_hash = EntryMac(previous, r)
BY DEF Verified, VerifyEntry

-----------------------------------------------------------------------------
(* Nothing but what append issued verifies.                                *)

IssuedOrUnkeyed(r) == (\E i \in issued : i.entry_hash = r.entry_hash) \/ \E p : r.entry_hash = <<NoKey, p>>
RowsIssued == \A r \in rows : IssuedOrUnkeyed(r)

LEMMA IssuedStep == TypeInv /\ RowsIssued /\ [Next]_vars => RowsIssued'
<1> SUFFICES ASSUME TypeInv, RowsIssued, [Next]_vars PROVE RowsIssued'
  OBVIOUS
<1>1. ASSUME NEW values \in Values, AppendEntry(values) PROVE RowsIssued'
  <2>1. PICK r : /\ rows' = rows \cup {r}
                 /\ issued' = issued \cup {[entry_hash |-> r.entry_hash, values |-> values]}
    BY <1>1, AppendedRow
  <2>2. \E i \in issued' : i.entry_hash = r.entry_hash
    <3> DEFINE i == [entry_hash |-> r.entry_hash, values |-> values]
    <3>1. i \in issued' /\ i.entry_hash = r.entry_hash
      BY <2>1
    <3> HIDE DEF i
    <3> QED BY <3>1
  <2>3. \A i \in issued : i \in issued'
    BY <2>1
  <2> QED BY <2>1, <2>2, <2>3 DEF RowsIssued, IssuedOrUnkeyed
<1>2. CASE TakeCheckpoint \/ UNCHANGED vars
  BY <1>2, TakenCheckpoint DEF RowsIssued, IssuedOrUnkeyed, vars
<1>3. CASE (\E k \in Key : RotateKey(k)) \/ (\E k, j \in Key \cup {NoKey} : Redeploy(k, j))
  BY <1>3 DEF RotateKey, Redeploy, RowsIssued, IssuedOrUnkeyed
<1>4. CASE Edit
  <2>1. issued' = issued /\ (EditedRows(rows') \/ rows' = rows)
    BY <1>4, EditIs
  <2>2. CASE rows' = rows
    BY <2>1, <2>2 DEF RowsIssued, IssuedOrUnkeyed
  <2>3. CASE EditedRows(rows')
    <3>1. \A t \in rows' : \E r \in rows : RowFrom(t, r)
      BY <2>3, EditedRow DEF TypeInv, RowsType
    <3> QED BY <2>1, <3>1 DEF RowsIssued, IssuedOrUnkeyed, RowFrom
  <2> QED BY <2>1, <2>2, <2>3
<1> QED BY <1>1, <1>2, <1>3, <1>4 DEF Next

\* A table that verify_chain calls intact holds only entries append issued, whatever was
\* edited and whichever keys are held (verify_chain, operations.py).
THEOREM IntactMeansIssued == Spec => []IntactRowsWereIssued
<1>1. Init => RowsIssued
  BY DEF Init, RowsIssued
<1>2. TypeInv /\ RowsIssued => IntactRowsWereIssued
  <2> SUFFICES ASSUME TypeInv, RowsIssued, Intact(rows, currentKey, previousKey), NEW r \in rows
               PROVE  \E i \in issued : i.entry_hash = r.entry_hash
    BY DEF IntactRowsWereIssued
  <2>1. Keyed(rows) /\ \A s \in rows : s.pk # NoPk
    BY DEF TypeInv, RowsType, NoPk
  <2>2. Verified(r, currentKey, previousKey)
    BY <2>1, IntactIs
  <2>3. \A p : r.entry_hash # <<NoKey, p>>
    BY <2>2, VerifiedIs DEF EntryMac, HmacSha256
  <2> QED BY <2>3 DEF RowsIssued, IssuedOrUnkeyed
<1> QED BY <1>1, <1>2, InitTypes, TypeStep, IssuedStep, PTL DEF Spec

-----------------------------------------------------------------------------
(* The chain of the checkpoints.                                           *)

\* What the history keeps of a checkpoint that is taken.
LEMMA SeenCheckpoint ==
  ASSUME TakeCheckpoint
  PROVE  \E c, s :
           /\ checkpoints' = checkpoints \cup {c} /\ seen' = seen \cup {s}
           /\ IsCheckpoint(c) /\ c.pk = cpSeq + 1 /\ c.envelope = StandardEnvelope
           /\ c.row_count = Cardinality(rows) /\ c.last_entry_hash = LastEntryHash(rows)
           /\ c.previous_checkpoint_hash = LastCheckpointHash(checkpoints)
           /\ c.checkpoint_hash = CheckpointMac(currentKey, c)
           /\ s.checkpoint_hash = c.checkpoint_hash
           /\ s.contents = Contents(rows)
           /\ s.intact = Intact(rows, currentKey, previousKey)
           /\ s.earlier = CheckpointHashes /\ s.complete = AllVerify(checkpoints)
<1>1. PICK c : /\ checkpoints' = checkpoints \cup {c}
               /\ IsCheckpoint(c) /\ c.pk = cpSeq + 1 /\ c.envelope = StandardEnvelope
               /\ c.row_count = Cardinality(rows) /\ c.last_entry_hash = LastEntryHash(rows)
               /\ c.previous_checkpoint_hash = LastCheckpointHash(checkpoints)
               /\ c.checkpoint_hash = CheckpointMac(currentKey, c)
               /\ seen' = seen \cup {[checkpoint_hash |-> c.checkpoint_hash,
                                      contents |-> Contents(rows),
                                      intact |-> Intact(rows, currentKey, previousKey),
                                      earlier |-> CheckpointHashes,
                                      complete |-> AllVerify(checkpoints)]}
  BY TakenCheckpoint
<1> DEFINE h == c.checkpoint_hash
           t == Contents(rows)
           i == Intact(rows, currentKey, previousKey)
           e == CheckpointHashes
           a == AllVerify(checkpoints)
           s == [checkpoint_hash |-> h, contents |-> t, intact |-> i, earlier |-> e, complete |-> a]
<1>2. seen' = seen \cup {s}
  BY <1>1
<1> HIDE DEF h, t, i, e, a
<1>3. s.checkpoint_hash = h /\ s.contents = t /\ s.intact = i /\ s.earlier = e /\ s.complete = a
  OBVIOUS
<1> HIDE DEF s
<1> QED BY <1>1, <1>2, <1>3 DEF h, t, i, e, a

\* The hash a checkpoint is chained to is part of what its own hash is made of.
PreviousIn(hash) == hash[2][3]
IsCheckpointHash(hash) ==
  \E k, e, l, p, n : hash = HmacSha256(k, CheckpointPayload(e, l, p, n, TableName))

LEMMA CheckpointHashIs ==
  ASSUME NEW k, NEW c
  PROVE  /\ IsCheckpointHash(CheckpointMac(k, c))
         /\ PreviousIn(CheckpointMac(k, c)) = c.previous_checkpoint_hash
BY DEF IsCheckpointHash, PreviousIn, CheckpointMac, HmacSha256, CheckpointPayload

LEMMA CheckpointHashIsPair ==
  ASSUME NEW hash, IsCheckpointHash(hash)
  PROVE  hash # Genesis
<1>1. PICK k, x : hash = <<k, x>>
  BY DEF IsCheckpointHash, HmacSha256
<1>2. <<k, x>> # <<>>
  OBVIOUS
<1> QED BY <1>1, <1>2 DEF Genesis

\* The hashes in the table: those of checkpoints that were taken, and those no key made.
TakenHash(hash) == \E s \in seen : s.checkpoint_hash = hash
KnownOrNone(hash) == hash = Genesis \/ (\E p : hash = <<NoKey, p>>) \/ TakenHash(hash)
HashesKnown ==
  \A c \in checkpoints : KnownOrNone(c.checkpoint_hash) /\ KnownOrNone(c.previous_checkpoint_hash)

LEMMA HashesKnownStep == TypeInv /\ HashesKnown /\ [Next]_vars => HashesKnown'
<1> SUFFICES ASSUME TypeInv, HashesKnown, [Next]_vars PROVE HashesKnown'
  OBVIOUS
<1>1. /\ Keyed(checkpoints) /\ \A c \in checkpoints : IsCheckpoint(c)
      /\ \A c \in checkpoints :
           KnownOrNone(c.checkpoint_hash) /\ KnownOrNone(c.previous_checkpoint_hash)
  BY DEF TypeInv, CheckpointsType, HashesKnown
<1>2. CASE TakeCheckpoint
  <2>1. PICK c, s :
          /\ checkpoints' = checkpoints \cup {c} /\ seen' = seen \cup {s}
          /\ c.previous_checkpoint_hash = LastCheckpointHash(checkpoints)
          /\ s.checkpoint_hash = c.checkpoint_hash
    BY <1>2, SeenCheckpoint
  <2>2. \A h : KnownOrNone(h) => KnownOrNone(h)'
    BY <2>1 DEF KnownOrNone, TakenHash
  <2>3. KnownOrNone(c.checkpoint_hash)'
    BY <2>1 DEF KnownOrNone, TakenHash
  <2>4. KnownOrNone(LastCheckpointHash(checkpoints))
    <3>1. CASE checkpoints = {}
      BY <3>1 DEF LastCheckpointHash, KnownOrNone
    <3>2. CASE checkpoints # {}
      <4>1. Latest(checkpoints) \in checkpoints
        BY <1>1, <3>2, LatestIs
      <4> QED BY <1>1, <3>2, <4>1 DEF LastCheckpointHash
    <3> QED BY <3>1, <3>2
  <2>5. KnownOrNone(c.previous_checkpoint_hash)'
    BY <2>1, <2>2, <2>4
  <2>6. \A d \in checkpoints :
          KnownOrNone(d.checkpoint_hash)' /\ KnownOrNone(d.previous_checkpoint_hash)'
    BY <1>1, <2>2
  <2> QED BY <2>1, <2>3, <2>5, <2>6 DEF HashesKnown, KnownOrNone, TakenHash
<1>3. ASSUME seen' = seen, checkpoints' = checkpoints PROVE HashesKnown'
  BY <1>3 DEF HashesKnown, KnownOrNone, TakenHash
<1>4. CASE Edit
  <2>1. /\ seen' = seen
        /\ EditedCheckpoints(checkpoints') \/ checkpoints' = checkpoints
    BY <1>4, EditIs
  <2>2. \A h \in KnownHash : KnownOrNone(h)
    <3>1. \A p : KnownOrNone(Unkeyed(p))
      BY DEF KnownOrNone, Unkeyed, HmacSha256
    <3>2. KnownOrNone(Genesis)
      BY DEF KnownOrNone
    <3> QED BY <1>1, <3>1, <3>2 DEF KnownHash, CheckpointHashes
  <2>3. \A d \in checkpoints' :
          KnownOrNone(d.checkpoint_hash) /\ KnownOrNone(d.previous_checkpoint_hash)
    BY <1>1, <2>1, <2>2, EditedCheckpoint DEF CheckpointFrom, Replace
  <2> QED BY <2>1, <2>3 DEF HashesKnown, KnownOrNone, TakenHash
<1>5. CASE \E values \in Values : AppendEntry(values)
  BY <1>3, <1>5, AppendedRow
<1>6. CASE (\E k \in Key : RotateKey(k)) \/ (\E k, j \in Key \cup {NoKey} : Redeploy(k, j))
  BY <1>3, <1>6 DEF RotateKey, Redeploy
<1>7. CASE UNCHANGED vars
  BY <1>3, <1>7 DEF vars
<1> QED BY <1>2, <1>4, <1>5, <1>6, <1>7 DEF Next

\* What verifies was taken: whoever edits has no key.
LEMMA VerifiedWasTaken ==
  ASSUME HashesKnown, NEW c \in checkpoints, currentKey # NoKey,
         MacOk(c, currentKey, previousKey)
  PROVE  TakenAs(c) # {}
<1>1. PICK k : k # NoKey /\ c.checkpoint_hash = CheckpointMac(k, c)
  BY DEF MacOk
<1>2. c.checkpoint_hash # Genesis
  BY <1>1, CheckpointHashIs, CheckpointHashIsPair
<1>3. \A p : c.checkpoint_hash # <<NoKey, p>>
  BY <1>1 DEF CheckpointMac, HmacSha256
<1>4. TakenHash(c.checkpoint_hash)
  BY <1>2, <1>3 DEF HashesKnown, KnownOrNone
<1> QED BY <1>4 DEF TakenHash, TakenAs

\* Checkpoints that are as they were signed, one linked to the other.
SealedCheckpoints(C) ==
  /\ Keyed(C) /\ LinkedCheckpoints(C)
  /\ \A c \in C : \E k : c.checkpoint_hash = CheckpointMac(k, c)
HashesOf(C) == {c.checkpoint_hash : c \in C}

LEMMA AllVerifySealed ==
  ASSUME NEW C, Keyed(C), AllVerify(C)
  PROVE  SealedCheckpoints(C)
BY DEF AllVerify, MacOk, ChainOk, SealedCheckpoints, LinkedCheckpoints

LEMMA SealedHash ==
  ASSUME NEW C, SealedCheckpoints(C), NEW c \in C
  PROVE  /\ c.checkpoint_hash # Genesis
         /\ PreviousIn(c.checkpoint_hash) = LastCheckpointHash(Below(C, c.pk))
<1>1. PICK k : c.checkpoint_hash = CheckpointMac(k, c)
  BY DEF SealedCheckpoints
<1>2. c.previous_checkpoint_hash = LastCheckpointHash(Below(C, c.pk))
  BY DEF SealedCheckpoints, LinkedCheckpoints
<1> QED BY <1>1, <1>2, CheckpointHashIs, CheckpointHashIsPair

LEMMA LastIsOneOf ==
  ASSUME NEW C, Keyed(C), LastCheckpointHash(C) # Genesis
  PROVE  LastCheckpointHash(C) \in HashesOf(C)
<1>1. C # {}
  BY DEF LastCheckpointHash
<1>2. Latest(C) \in C
  BY <1>1, LatestIs
<1> QED BY <1>1, <1>2 DEF LastCheckpointHash, HashesOf

\* The last hash fixes all that came before: take the last checkpoint of S that is not in T;
\* the one after it, which is, was signed with a link to it.
LEMMA SameLastSameChain ==
  ASSUME NEW S, NEW T, SealedCheckpoints(S), SealedCheckpoints(T),
         LastCheckpointHash(S) = LastCheckpointHash(T)
  PROVE  HashesOf(S) \subseteq HashesOf(T)
<1> DEFINE Missing == {d \in S : d.checkpoint_hash \notin HashesOf(T)}
<1> SUFFICES ASSUME Missing # {} PROVE FALSE
  BY DEF HashesOf
<1>1. Keyed(S) /\ Keyed(T) /\ (\A d \in S : d.pk \in Int)
  BY DEF SealedCheckpoints, Keyed
<1>2. PICK d \in Missing : \A e \in Missing : e.pk <= d.pk
  <2>1. Missing \subseteq S
    OBVIOUS
  <2> HIDE DEF Missing
  <2>2. Keyed(Missing)
    BY <1>1, <2>1, SubsetKeyed
  <2> QED BY <2>2, LatestIs
<1> DEFINE Above == {e \in S : d.pk < e.pk}
<1>3. d \in S /\ d.checkpoint_hash \notin HashesOf(T)
  BY <1>2
<1>4. \A e \in Above : e \in S /\ d.pk < e.pk /\ e.checkpoint_hash \in HashesOf(T)
  <2>1. ASSUME NEW e \in Above PROVE e \notin Missing
    BY <1>1, <1>2, <2>1
  <2> QED BY <2>1
<1> HIDE DEF Missing
<1>5. d.checkpoint_hash # Genesis
  BY <1>3, SealedHash
<1>6. CASE Above = {}
  <2>1. \A e \in S : e.pk <= d.pk
    BY <1>1, <1>3, <1>6
  <2>2. LastCheckpointHash(S) = d.checkpoint_hash
    BY <1>1, <1>3, <2>1, LatestIsOnly DEF LastCheckpointHash
  <2> QED BY <1>1, <1>3, <1>5, <2>2, LastIsOneOf
<1>7. CASE Above # {}
  <2> DEFINE pks == {e.pk - d.pk : e \in Above}
  <2>1. pks \subseteq Nat /\ pks # {}
    BY <1>1, <1>3, <1>7
  <2>2. PICK n \in pks : \A m \in pks : n <= m
    <3> HIDE DEF pks
    <3> QED BY <2>1, LeastNumber
  <2>3. PICK e \in Above : \A a \in Above : e.pk - d.pk <= a.pk - d.pk
    BY <2>2
  <2>4. e \in S /\ d.pk < e.pk /\ e.checkpoint_hash \in HashesOf(T)
    BY <1>4
  <2>5. \A a \in Below(S, e.pk) : a.pk <= d.pk
    <3> SUFFICES ASSUME NEW a \in S, a.pk < e.pk, ~(a.pk <= d.pk) PROVE FALSE
      BY DEF Below
    <3>1. a \in Above /\ a.pk \in Int /\ d.pk \in Int /\ e.pk \in Int
      BY <1>1, <1>3, <2>4
    <3> QED BY <2>3, <3>1
  <2>6. LastCheckpointHash(Below(S, e.pk)) = d.checkpoint_hash
    <3> DEFINE B == Below(S, e.pk)
    <3>1. d \in B /\ B \subseteq S
      BY <1>3, <2>4 DEF Below
    <3>2. \A a \in B : a.pk <= d.pk
      BY <2>5
    <3> HIDE DEF B
    <3>3. Keyed(B)
      BY <1>1, <3>1, SubsetKeyed
    <3>4. Latest(B) = d
      BY <3>1, <3>2, <3>3, LatestIsOnly
    <3>5. LastCheckpointHash(B) = d.checkpoint_hash
      BY <3>1, <3>4 DEF LastCheckpointHash
    <3> QED BY <3>5 DEF B
  <2>7. PICK f \in T : e.checkpoint_hash = f.checkpoint_hash
    BY <2>4 DEF HashesOf
  <2>8. d.checkpoint_hash = LastCheckpointHash(Below(T, f.pk))
    BY <2>4, <2>6, <2>7, SealedHash
  <2>9. Below(T, f.pk) \subseteq T
    BY DEF Below
  <2>10. LastCheckpointHash(Below(T, f.pk)) \in HashesOf(Below(T, f.pk))
    BY <1>1, <1>5, <2>8, <2>9, SubsetKeyed, LastIsOneOf
  <2> QED BY <1>3, <2>8, <2>9, <2>10 DEF HashesOf
<1> QED BY <1>6, <1>7

\* What the history says was there when checkpoints verified is one sealed chain, and the
\* checkpoint was signed with a link to the end of it.
ChainedTo(s, C) ==
  /\ SealedCheckpoints(C) /\ s.earlier = HashesOf(C)
  /\ PreviousIn(s.checkpoint_hash) = LastCheckpointHash(C)
SeenChains == \A s \in seen : s.complete => \E C : ChainedTo(s, C)

LEMMA SeenChainsStep == TypeInv /\ SeenChains /\ [Next]_vars => SeenChains'
<1> SUFFICES ASSUME TypeInv, SeenChains, [Next]_vars PROVE SeenChains'
  OBVIOUS
<1>1. CASE TakeCheckpoint
  <2>1. PICK c, s :
          /\ seen' = seen \cup {s}
          /\ c.previous_checkpoint_hash = LastCheckpointHash(checkpoints)
          /\ c.checkpoint_hash = CheckpointMac(currentKey, c)
          /\ s.checkpoint_hash = c.checkpoint_hash
          /\ s.earlier = CheckpointHashes /\ s.complete = AllVerify(checkpoints)
    BY <1>1, SeenCheckpoint
  <2>2. Keyed(checkpoints)
    BY DEF TypeInv, CheckpointsType
  <2>3. s.complete => SealedCheckpoints(checkpoints)
    BY <2>1, <2>2, AllVerifySealed
  <2>4. PreviousIn(s.checkpoint_hash) = LastCheckpointHash(checkpoints)
    BY <2>1, CheckpointHashIs
  <2>5. s.complete => ChainedTo(s, checkpoints)
    BY <2>1, <2>3, <2>4 DEF ChainedTo, HashesOf, CheckpointHashes
  <2>6. \A t \in seen' : t.complete => \E C : ChainedTo(t, C)
    BY <2>1, <2>5 DEF SeenChains
  <2> QED BY <2>6 DEF SeenChains, ChainedTo, SealedCheckpoints, HashesOf
<1>2. ASSUME seen' = seen PROVE SeenChains'
  BY <1>2 DEF SeenChains
<1>3. CASE \E values \in Values : AppendEntry(values)
  BY <1>2, <1>3, AppendedRow
<1>4. CASE (\E k \in Key : RotateKey(k)) \/ (\E k, j \in Key \cup {NoKey} : Redeploy(k, j))
  BY <1>2, <1>4 DEF RotateKey, Redeploy
<1>5. CASE Edit
  BY <1>2, <1>5, EditIs
<1>6. CASE UNCHANGED vars
  BY <1>2, <1>6 DEF vars
<1> QED BY <1>1, <1>3, <1>4, <1>5, <1>6 DEF Next

\* When the checkpoints up to c verify and link, everything that was there when c was taken
\* is still there: both chains end in the hash c was signed with.
LEMMA NothingMissing ==
  ASSUME TypeInv, SeenChains, NEW c \in checkpoints,
         AllVerify({d \in checkpoints : d.pk <= c.pk}), NEW s \in TakenAs(c), s.complete
  PROVE  s.earlier \subseteq CheckpointHashes
<1> DEFINE D == {d \in checkpoints : d.pk <= c.pk}
           B == Below(checkpoints, c.pk)
<1>1. Keyed(checkpoints) /\ \A d \in checkpoints : d.pk \in Int
  BY DEF TypeInv, CheckpointsType, Keyed
<1>2. Keyed(D) /\ SealedCheckpoints(D)
  <2>1. D \subseteq checkpoints /\ AllVerify(D)
    OBVIOUS
  <2> HIDE DEF D
  <2> QED BY <1>1, <2>1, SubsetKeyed, AllVerifySealed
<1>3. c \in D /\ B \subseteq D /\ B \subseteq checkpoints /\ Below(D, c.pk) = B
  BY <1>1 DEF Below
<1>4. \A d \in B : Below(B, d.pk) = Below(D, d.pk)
  BY <1>1 DEF Below
<1> HIDE DEF D, B
<1>5. SealedCheckpoints(B)
  <2>1. Keyed(B)
    BY <1>1, <1>3, SubsetKeyed
  <2> QED BY <1>2, <1>3, <1>4, <2>1 DEF SealedCheckpoints, LinkedCheckpoints
<1>6. PreviousIn(c.checkpoint_hash) = LastCheckpointHash(B)
  BY <1>2, <1>3, SealedHash
<1>7. PICK C : ChainedTo(s, C)
  BY DEF SeenChains, TakenAs
<1>8. LastCheckpointHash(C) = LastCheckpointHash(B) /\ SealedCheckpoints(C) /\ s.earlier = HashesOf(C)
  BY <1>6, <1>7 DEF ChainedTo, TakenAs
<1>9. HashesOf(C) \subseteq HashesOf(B)
  BY <1>5, <1>8, SameLastSameChain
<1> QED BY <1>3, <1>8, <1>9 DEF HashesOf, CheckpointHashes

\* No checkpoint is missing before one that verifies and links down to the first: neither
\* deleting one, nor chaining the next to the one before it, nor writing other hashes into the
\* table gets through (verify_checkpoint, operations.py).
THEOREM CheckpointChainComplete == Spec => []ValidCheckpointsComplete
<1>1. Init => HashesKnown /\ SeenChains
  BY DEF Init, HashesKnown, SeenChains
<1>2. TypeInv /\ HashesKnown /\ SeenChains => ValidCheckpointsComplete
  <2> SUFFICES ASSUME TypeInv, HashesKnown, SeenChains, currentKey # NoKey, NEW c \in checkpoints,
                      AllVerify({d \in checkpoints : d.pk <= c.pk})
               PROVE  /\ TakenAs(c) # {}
                      /\ \A s \in TakenAs(c) : s.complete => s.earlier \subseteq CheckpointHashes
    BY DEF ValidCheckpointsComplete
  <2>1. c.pk <= c.pk
    BY DEF TypeInv, CheckpointsType
  <2>2. MacOk(c, currentKey, previousKey)
    BY <2>1 DEF AllVerify
  <2> QED BY <2>2, VerifiedWasTaken, NothingMissing
<1>3. TypeInv /\ HashesKnown /\ SeenChains /\ [Next]_vars => (HashesKnown /\ SeenChains)'
  BY HashesKnownStep, SeenChainsStep
<1> QED BY <1>1, <1>2, <1>3, InitTypes, TypeStep, PTL DEF Spec

-----------------------------------------------------------------------------
(* The table a checkpoint was taken of.                                    *)

\* A linked table of rows that are as they were sealed.
Sealed(T) ==
  /\ Keyed(T) /\ Linked(T)
  /\ \A r \in T : \E k : r.entry_hash = EntryMac(k, r)

LEMMA IntactIsSealed ==
  ASSUME NEW T, Keyed(T), \A r \in T : r.pk # NoPk, NEW current, NEW previous,
         Intact(T, current, previous)
  PROVE  Sealed(T)
<1>1. Linked(T) /\ \A r \in T : Verified(r, current, previous)
  BY IntactIs
<1> QED BY <1>1, VerifiedIs DEF Sealed

\* Sealed tables with the same last hash say the same.
LEMMA SameHashSameContents ==
  ASSUME NEW S, NEW T, Sealed(S), Sealed(T), LastEntryHash(S) = LastEntryHash(T)
  PROVE  Contents(S) = Contents(T)
<1>1. ASSUME NEW R, Sealed(R)
      PROVE  Chained(R) /\ \A i \in 1..Cardinality(R) :
                             InPkOrder(R)[i].body = InPkOrder(R)[i].entry_hash[2][3]
  <2>1. Keyed(R) /\ Linked(R) /\ \A r \in R : \E k : r.entry_hash = EntryMac(k, r)
    BY <1>1 DEF Sealed
  <2>2. ASSUME NEW r \in R
        PROVE  /\ \E k, e, b : r.entry_hash =
                    HmacSha256(k, ChecksumPayload(e, LastEntryHash(Below(R, r.pk)), b))
               /\ r.body = r.entry_hash[2][3]
    <3>1. PICK k : r.entry_hash = EntryMac(k, r)
      BY <2>1
    <3>2. r.previous_hash = LastEntryHash(Below(R, r.pk))
      BY <2>1 DEF Linked
    <3>3. r.entry_hash = HmacSha256(k, ChecksumPayload(r.envelope, LastEntryHash(Below(R, r.pk)), r.body))
      BY <3>1, <3>2, Zenon DEF EntryMac
    <3>4. r.body = r.entry_hash[2][3]
      BY <3>3 DEF HmacSha256, ChecksumPayload
    <3> QED BY <3>3, <3>4, Zenon
  <2> QED BY <2>1, <2>2, InPkOrderRank DEF Chained
<1>2. /\ Cardinality(S) = Cardinality(T)
      /\ \A i \in 1..Cardinality(S) : InPkOrder(S)[i].entry_hash = InPkOrder(T)[i].entry_hash
  BY <1>1, SameHashSameChain
<1>3. \A i \in 1..Cardinality(S) : InPkOrder(S)[i].body = InPkOrder(T)[i].body
  BY <1>1, <1>2
<1> QED BY <1>2, <1>3 DEF Contents

\* What the history says of a checkpoint is what its hash was made over.
Describes(s, T) ==
  /\ s.contents = Contents(T) /\ (s.intact => Sealed(T))
  /\ \E k, e, p, n : s.checkpoint_hash =
       HmacSha256(k, CheckpointPayload(e, LastEntryHash(T), p, n, TableName))
SeenTables == \A s \in seen : \E T : Describes(s, T)

LEMMA SeenTablesStep == TypeInv /\ SeenTables /\ [Next]_vars => SeenTables'
<1> SUFFICES ASSUME TypeInv, SeenTables, [Next]_vars PROVE SeenTables'
  OBVIOUS
<1>1. CASE TakeCheckpoint
  <2>1. PICK c, s :
          /\ seen' = seen \cup {s}
          /\ c.last_entry_hash = LastEntryHash(rows) /\ c.checkpoint_hash = CheckpointMac(currentKey, c)
          /\ s.checkpoint_hash = c.checkpoint_hash /\ s.contents = Contents(rows)
          /\ s.intact = Intact(rows, currentKey, previousKey)
    BY <1>1, SeenCheckpoint
  <2>2. Keyed(rows) /\ \A r \in rows : r.pk # NoPk
    BY DEF TypeInv, RowsType, NoPk
  <2>3. s.intact => Sealed(rows)
    BY <2>1, <2>2, IntactIsSealed
  <2>4. s.checkpoint_hash =
          HmacSha256(currentKey, CheckpointPayload(c.envelope, LastEntryHash(rows),
                       c.previous_checkpoint_hash, c.row_count, TableName))
    BY <2>1 DEF CheckpointMac
  <2>5. Describes(s, rows)
    BY <2>1, <2>3, <2>4, Zenon DEF Describes
  <2>6. \A t \in seen' : \E T : Describes(t, T)
    BY <2>1, <2>5 DEF SeenTables
  <2> QED BY <2>6 DEF SeenTables, Describes, Sealed
<1>2. ASSUME seen' = seen PROVE SeenTables'
  BY <1>2 DEF SeenTables
<1>3. CASE \E values \in Values : AppendEntry(values)
  BY <1>2, <1>3, AppendedRow
<1>4. CASE (\E k \in Key : RotateKey(k)) \/ (\E k, j \in Key \cup {NoKey} : Redeploy(k, j))
  BY <1>2, <1>4 DEF RotateKey, Redeploy
<1>5. CASE Edit
  BY <1>2, <1>5, EditIs
<1>6. CASE UNCHANGED vars
  BY <1>2, <1>6 DEF vars
<1> QED BY <1>1, <1>3, <1>4, <1>5, <1>6 DEF Next

\* A valid checkpoint and an intact chain pin the whole table to what it said when the
\* checkpoint was taken (verify_checkpoint and verify_chain, operations.py).
THEOREM CheckpointPinsTable == Spec => []ValidCheckpointPinsTable
<1>1. Init => HashesKnown /\ SeenTables
  BY DEF Init, HashesKnown, SeenTables
<1>2. TypeInv /\ HashesKnown /\ SeenTables => ValidCheckpointPinsTable
  <2> SUFFICES ASSUME TypeInv, HashesKnown, SeenTables, Intact(rows, currentKey, previousKey),
                      NEW c \in checkpoints,
                      CheckpointValid(c, rows, checkpoints, currentKey, previousKey)
               PROVE  /\ TakenAs(c) # {}
                      /\ \A s \in TakenAs(c) : s.intact => Contents(rows) = s.contents
    BY DEF ValidCheckpointPinsTable
  <2>1. TakenAs(c) # {}
    BY VerifiedWasTaken DEF CheckpointValid
  <2>2. Keyed(rows) /\ \A r \in rows : r.pk # NoPk
    BY DEF TypeInv, RowsType, NoPk
  <2>3. Sealed(rows)
    BY <2>2, IntactIsSealed
  <2>4. PICK key : c.checkpoint_hash = CheckpointMac(key, c)
    BY DEF CheckpointValid, MacOk
  <2>5. LastEntryHash(rows) = c.last_entry_hash
    BY DEF CheckpointValid, LiveOk
  <2>6. ASSUME NEW s \in TakenAs(c), s.intact PROVE Contents(rows) = s.contents
    <3>1. PICK T : Describes(s, T)
      BY DEF TakenAs, SeenTables
    <3>2. PICK k, e, p, n : s.checkpoint_hash =
                 HmacSha256(k, CheckpointPayload(e, LastEntryHash(T), p, n, TableName))
      BY <3>1 DEF Describes
    <3>3. c.last_entry_hash = LastEntryHash(T)
      BY <2>4, <3>2 DEF TakenAs, CheckpointMac, HmacSha256, CheckpointPayload
    <3>4. Sealed(T) /\ s.contents = Contents(T)
      BY <2>6, <3>1 DEF Describes
    <3> QED BY <2>3, <2>5, <3>3, <3>4, SameHashSameContents
  <2> QED BY <2>1, <2>6
<1>3. TypeInv /\ HashesKnown /\ SeenTables /\ [Next]_vars => (HashesKnown /\ SeenTables)'
  BY HashesKnownStep, SeenTablesStep
<1> QED BY <1>1, <1>2, <1>3, InitTypes, TypeStep, PTL DEF Spec

-----------------------------------------------------------------------------
(* A table nobody edits.                                                   *)

\* No two rows of a chain have the same hash, and none that of no row.
LEMMA HashesDiffer ==
  ASSUME NEW T, Chained(T), NEW i \in 0..Cardinality(T), NEW j \in 0..Cardinality(T), i < j
  PROVE  HashAt(T, i) # HashAt(T, j)
<1> DEFINE n == Cardinality(T)
           Differ == {d \in Nat : d <= i => HashAt(T, i - d) = HashAt(T, j - d)}
<1> SUFFICES ASSUME HashAt(T, i) = HashAt(T, j) PROVE FALSE
  OBVIOUS
<1>1. n \in Nat
  BY HashAtEnd DEF Chained
<1>2. /\ \A l \in 1..n : HashAt(T, l)[2][2] = HashAt(T, l - 1) /\ HashAt(T, l) # Genesis
      /\ HashAt(T, 0) = Genesis
  BY ChainedHash DEF HashAt
<1> HIDE DEF n
<1>3. i \in Nat /\ j \in Nat /\ j <= n
  BY <1>1 DEF n
<1>4. 0 \in Differ
  BY <1>3
<1>5. ASSUME NEW d \in Nat, d \in Differ PROVE d + 1 \in Differ
  <2> SUFFICES ASSUME d + 1 <= i PROVE HashAt(T, i - (d + 1)) = HashAt(T, j - (d + 1))
    OBVIOUS
  <2>1. HashAt(T, i - d) = HashAt(T, j - d) /\ i - d \in 1..n /\ j - d \in 1..n
    BY <1>1, <1>3, <1>5
  <2>2. HashAt(T, (i - d) - 1) = HashAt(T, (j - d) - 1)
    BY <1>2, <2>1
  <2>3. (i - d) - 1 = i - (d + 1) /\ (j - d) - 1 = j - (d + 1)
    BY <1>3
  <2> QED BY <2>2, <2>3
<1>6. Nat \subseteq Differ
  <2> HIDE DEF Differ
  <2> QED BY <1>4, <1>5, EveryNumber
<1>7. HashAt(T, i - i) = HashAt(T, j - i) /\ i - i = 0 /\ j - i \in 1..n
  BY <1>1, <1>3, <1>6
<1> QED BY <1>2, <1>7

\* What append wrote, and what checkpoint signed: the number of rows and the hash of the last.
RowIssued(r) ==
  \E i \in issued : \E k \in Key :
    /\ i.entry_hash = r.entry_hash /\ r.envelope = StandardEnvelope
    /\ r.entry_hash =
         HmacSha256(k, ChecksumPayload(StandardEnvelope, r.previous_hash, CanonicalJson(i.values)))
    /\ r.body = CanonicalJson(Returned(i.values))
UneditedRows == Linked(rows) /\ \A r \in rows : RowIssued(r)

UneditedCheckpoints ==
  /\ LinkedCheckpoints(checkpoints)
  /\ \A c \in checkpoints :
       /\ c.envelope = StandardEnvelope /\ \E k \in Key : c.checkpoint_hash = CheckpointMac(k, c)
       /\ c.row_count <= Cardinality(rows) /\ c.last_entry_hash = HashAt(rows, c.row_count)

UneditedInv == edits = 0 => UneditedRows /\ UneditedCheckpoints

LEMMA UneditedIsChained ==
  ASSUME TypeInv, UneditedRows
  PROVE  Chained(rows)
<1>1. Keyed(rows)
  BY DEF TypeInv, RowsType
<1>2. ASSUME NEW r \in rows
      PROVE  \E k, e, b : r.entry_hash =
               HmacSha256(k, ChecksumPayload(e, LastEntryHash(Below(rows, r.pk)), b))
  <2>1. r.previous_hash = LastEntryHash(Below(rows, r.pk)) /\ RowIssued(r)
    BY DEF UneditedRows, Linked
  <2>2. PICK k, b : r.entry_hash = HmacSha256(k, ChecksumPayload(StandardEnvelope, r.previous_hash, b))
    BY <2>1 DEF RowIssued
  <2> QED BY <2>1, <2>2
<1> QED BY <1>1, <1>2 DEF Chained

\* A row at the end leaves the hashes before it where they are.
LEMMA HashesStay ==
  ASSUME NEW S, Keyed(S), NEW r, r.pk \in Int, \A s \in S : s.pk < r.pk
  PROVE  /\ Cardinality(S) \in Nat /\ Cardinality(S \cup {r}) = Cardinality(S) + 1
         /\ \A i \in 0..Cardinality(S) : HashAt(S \cup {r}, i) = HashAt(S, i)
<1> DEFINE T == S \cup {r}
<1>1. Keyed(T) /\ S \subseteq T /\ \A t \in T \ S : \A s \in S : s.pk < t.pk
  BY NewestKeyed
<1>2. Cardinality(S) \in Nat
  BY FS_CardinalityType DEF Keyed
<1>3. r \notin S
  OBVIOUS
<1>4. Cardinality(T) = Cardinality(S) + 1
  BY <1>3, FS_AddElement DEF Keyed
<1>5. \A i \in 1..Cardinality(S) : InPkOrder(T)[i] = InPkOrder(S)[i]
  <2> HIDE DEF T
  <2> QED BY <1>1, InPkOrderGrows
<1>6. ASSUME NEW i \in 0..Cardinality(S) PROVE HashAt(T, i) = HashAt(S, i)
  BY <1>2, <1>5 DEF HashAt
<1> QED BY <1>2, <1>4, <1>6

LEMMA UneditedStep == TypeInv /\ UneditedInv /\ [Next]_vars => UneditedInv'
<1> SUFFICES ASSUME TypeInv, UneditedInv, [Next]_vars, edits' = 0
             PROVE  UneditedRows' /\ UneditedCheckpoints'
  BY DEF UneditedInv
<1>1. /\ Keyed(rows) /\ Keyed(checkpoints) /\ rowSeq \in Nat /\ cpSeq \in Nat /\ edits \in Nat
      /\ currentKey \in Key \cup {NoKey}
      /\ \A r \in rows : r.pk \in 1..rowSeq
      /\ \A c \in checkpoints : c.pk \in 1..cpSeq /\ c.row_count \in Nat
  BY DEF TypeInv, TypeOK, RowsType, CheckpointsType
<1>2. edits = 0 => UneditedRows /\ UneditedCheckpoints
  BY DEF UneditedInv
<1>3. ASSUME NEW values \in Values, AppendEntry(values) PROVE UneditedRows' /\ UneditedCheckpoints'
  <2>1. /\ edits = 0 /\ UneditedRows /\ UneditedCheckpoints /\ currentKey \in Key
        /\ checkpoints' = checkpoints
    BY <1>1, <1>2, <1>3, AppendedRow
  <2> DEFINE text == CanonicalJson(values)
             body == CanonicalJson(Returned(values))
             hash == HmacSha256(currentKey, ChecksumPayload(StandardEnvelope, LastEntryHash(rows), text))
  <2>2. PICK r : /\ rows' = rows \cup {r}
                 /\ HasFields(r, rowSeq + 1, body, StandardEnvelope, LastEntryHash(rows), hash)
                 /\ issued' = issued \cup {[entry_hash |-> r.entry_hash, values |-> values]}
    BY <1>3, AppendedRow
  <2>3. /\ r.pk = rowSeq + 1 /\ r.body = body /\ r.envelope = StandardEnvelope
        /\ r.previous_hash = LastEntryHash(rows) /\ r.entry_hash = hash
    BY <2>2 DEF HasFields
  <2>4. Linked(rows')
    BY <1>1, <2>1, <2>2, <2>3, NewestRowLinks DEF UneditedRows
  <2>5. RowIssued(r)'
    <3> DEFINE i == [entry_hash |-> r.entry_hash, values |-> values]
    <3>1. i \in issued' /\ i.entry_hash = r.entry_hash /\ i.values = values
      BY <2>2
    <3> HIDE DEF i
    <3>2. r.entry_hash = HmacSha256(currentKey,
            ChecksumPayload(StandardEnvelope, r.previous_hash, CanonicalJson(i.values)))
      BY <2>3, <3>1, Zenon
    <3>3. r.body = CanonicalJson(Returned(i.values))
      BY <2>3, <3>1, Zenon
    <3> QED BY <2>1, <2>3, <3>1, <3>2, <3>3, Zenon DEF RowIssued
  <2>6. \A s \in rows : RowIssued(s)'
    <3>1. \A i \in issued : i \in issued'
      BY <2>2
    <3> QED BY <2>1, <3>1 DEF UneditedRows, RowIssued
  <2>7. UneditedRows'
    BY <2>2, <2>4, <2>5, <2>6 DEF UneditedRows
  <2>8. /\ Cardinality(rows) \in Nat /\ Cardinality(rows') = Cardinality(rows) + 1
        /\ \A i \in 0..Cardinality(rows) : HashAt(rows', i) = HashAt(rows, i)
    <3>1. r.pk \in Int /\ \A s \in rows : s.pk < r.pk
      BY <1>1, <2>3
    <3> QED BY <1>1, <2>2, <3>1, HashesStay
  <2>9. UneditedCheckpoints'
    BY <1>1, <2>1, <2>8 DEF UneditedCheckpoints, LinkedCheckpoints
  <2> QED BY <2>7, <2>9
<1>4. CASE TakeCheckpoint
  <2>1. /\ edits = 0 /\ UneditedRows /\ UneditedCheckpoints /\ currentKey \in Key
        /\ rows' = rows /\ issued' = issued
    BY <1>1, <1>2, <1>4, TakenCheckpoint
  <2>2. PICK c : /\ checkpoints' = checkpoints \cup {c}
                 /\ c.pk = cpSeq + 1 /\ c.envelope = StandardEnvelope
                 /\ c.row_count = Cardinality(rows) /\ c.last_entry_hash = LastEntryHash(rows)
                 /\ c.previous_checkpoint_hash = LastCheckpointHash(checkpoints)
                 /\ c.checkpoint_hash = CheckpointMac(currentKey, c)
    BY <1>4, TakenCheckpoint
  <2>3. UneditedRows'
    BY <2>1 DEF UneditedRows, RowIssued
  <2>4. LinkedCheckpoints(checkpoints')
    BY <1>1, <2>1, <2>2, NewestCheckpointLinks DEF UneditedCheckpoints
  <2>5. c.row_count <= Cardinality(rows) /\ c.last_entry_hash = HashAt(rows, c.row_count)
    BY <1>1, <2>2, HashAtEnd DEF HashAt
  <2>6. \A d \in checkpoints' :
          /\ d.envelope = StandardEnvelope /\ \E k \in Key : d.checkpoint_hash = CheckpointMac(k, d)
          /\ d.row_count <= Cardinality(rows) /\ d.last_entry_hash = HashAt(rows, d.row_count)
    BY <2>1, <2>2, <2>5 DEF UneditedCheckpoints
  <2> QED BY <2>1, <2>3, <2>4, <2>6 DEF UneditedCheckpoints
<1>5. ASSUME UNCHANGED <<rows, checkpoints, edits, issued>>
      PROVE  UneditedRows' /\ UneditedCheckpoints'
  BY <1>2, <1>5 DEF UneditedRows, UneditedCheckpoints, RowIssued
<1>6. CASE \E values \in Values : AppendEntry(values)
  BY <1>3, <1>6
<1>7. CASE (\E k \in Key : RotateKey(k)) \/ (\E k, j \in Key \cup {NoKey} : Redeploy(k, j))
  BY <1>5, <1>7 DEF RotateKey, Redeploy
<1>8. CASE Edit
  BY <1>1, <1>8, EditIs
<1>9. CASE UNCHANGED vars
  BY <1>5, <1>9 DEF vars
<1> QED BY <1>4, <1>6, <1>7, <1>8, <1>9 DEF Next

LEMMA InitUnedited == Init => UneditedInv
BY DEF Init, UneditedInv, UneditedRows, UneditedCheckpoints, Linked, LinkedCheckpoints

\* A checkpoint of a table nobody edited is valid exactly as long as its key is held and no
\* entry has been appended since (verify_checkpoint, operations.py).
THEOREM CheckpointValidUntilAppend == Spec => []UneditedCheckpointValidUntilAppend
<1>1. TypeInv /\ UneditedInv => UneditedCheckpointValidUntilAppend
  <2> SUFFICES ASSUME TypeInv, UneditedInv, edits = 0, currentKey # NoKey, NEW c \in checkpoints
               PROVE  CheckpointValid(c, rows, checkpoints, currentKey, previousKey) <=>
                        KeyOf(c.checkpoint_hash) \in KeysHeld /\ Cardinality(rows) = c.row_count
    BY DEF UneditedCheckpointValidUntilAppend
  <2>1. UneditedRows /\ UneditedCheckpoints
    BY DEF UneditedInv
  <2>2. PICK k \in Key : c.checkpoint_hash = CheckpointMac(k, c)
    BY <2>1 DEF UneditedCheckpoints
  <2>3. ValidateEnvelope(c.envelope)
    BY <2>1 DEF UneditedCheckpoints, ValidateEnvelope, StandardEnvelope, ALLOWED_MAC_ALGORITHMS
  <2>4. ChainOk(c, checkpoints)
    BY <2>1 DEF UneditedCheckpoints, LinkedCheckpoints, ChainOk
  <2>5. MacOk(c, currentKey, previousKey) <=> KeyOf(c.checkpoint_hash) \in KeysHeld
    BY <2>2, KeyAssumption DEF MacOk, KeyOf, KeysHeld, CheckpointMac, HmacSha256
  <2>6. LiveOk(c, rows) <=> Cardinality(rows) = c.row_count
    <3> DEFINE n == Cardinality(rows)
               m == c.row_count
    <3>1. Chained(rows) /\ Keyed(rows)
      BY <2>1, UneditedIsChained DEF Chained
    <3>2. n \in Nat /\ m \in Nat /\ m <= n /\ c.last_entry_hash = HashAt(rows, m)
      BY <2>1, <3>1, FS_CardinalityType DEF UneditedCheckpoints, TypeInv, CheckpointsType, Keyed
    <3>3. LastEntryHash(rows) = HashAt(rows, n)
      BY <3>1, HashAtEnd DEF HashAt
    <3>4. m # n => HashAt(rows, m) # HashAt(rows, n)
      BY <3>1, <3>2, HashesDiffer
    <3> HIDE DEF n, m
    <3>5. LastEntryHash(rows) = c.last_entry_hash /\ n >= m <=> n = m
      BY <3>2, <3>3, <3>4
    <3> QED BY <3>5 DEF LiveOk, n, m
  <2> QED BY <2>3, <2>4, <2>5, <2>6 DEF CheckpointValid
<1> QED BY <1>1, InitTypes, TypeStep, InitUnedited, UneditedStep, PTL DEF Spec

-----------------------------------------------------------------------------
(* The order of sort_keys.                                                 *)

\* Where s and t first differ: s ends there or has the smaller character.
DifferAt(s, t, i) ==
  /\ i \in 1..Len(t) /\ i - 1 <= Len(s)
  /\ \A j \in 1..(i - 1) : s[j] = t[j]
  /\ i - 1 = Len(s) \/ s[i] < t[i]

LEMMA SameStart ==
  ASSUME NEW s \in Seq(Nat), NEW t \in Seq(Nat), NEW m \in Nat, m <= Len(s), m <= Len(t)
  PROVE  SubSeq(s, 1, m) = SubSeq(t, 1, m) <=> \A j \in 1..m : s[j] = t[j]
<1>1. SubSeq(s, 1, m) = [j \in 1..m |-> s[j]] /\ SubSeq(t, 1, m) = [j \in 1..m |-> t[j]]
  BY SubSeqRestrict DEF Restrict
<1> QED BY <1>1

LEMMA TextBeforeIs ==
  ASSUME NEW s \in Seq(Nat), NEW t \in Seq(Nat)
  PROVE  TextBefore(s, t) <=> \E i \in Nat : DifferAt(s, t, i)
<1>1. ASSUME NEW i \in 1..Len(t), i - 1 <= Len(s)
      PROVE  SubSeq(s, 1, i - 1) = SubSeq(t, 1, i - 1) <=> \A j \in 1..(i - 1) : s[j] = t[j]
  <2>1. i - 1 \in Nat /\ i - 1 <= Len(t)
    OBVIOUS
  <2> DEFINE m == i - 1
  <2>2. m \in Nat /\ m <= Len(s) /\ m <= Len(t)
    BY <1>1, <2>1
  <2> HIDE DEF m
  <2>3. SubSeq(s, 1, m) = SubSeq(t, 1, m) <=> \A j \in 1..m : s[j] = t[j]
    BY <2>2, SameStart
  <2> QED BY <2>3 DEF m
<1>2. 1..Len(t) \subseteq Nat
  OBVIOUS
<1> QED BY <1>1, <1>2, Zenon DEF TextBefore, DifferAt

LEMMA TextOrder ==
  ASSUME NEW s \in Seq(Nat), NEW t \in Seq(Nat), NEW u \in Seq(Nat)
  PROVE  /\ ~TextBefore(s, s)
         /\ TextBefore(s, t) /\ TextBefore(t, u) => TextBefore(s, u)
         /\ s # t => TextBefore(s, t) \/ TextBefore(t, s)
<1>1. ~TextBefore(s, s)
  <2> SUFFICES ASSUME NEW i \in Nat, DifferAt(s, s, i) PROVE FALSE
    BY TextBeforeIs
  <2>1. i \in 1..Len(s) /\ s[i] < s[i]
    BY DEF DifferAt
  <2>2. s[i] \in Nat
    BY <2>1
  <2> QED BY <2>1, <2>2
<1>2. ASSUME TextBefore(s, t), TextBefore(t, u) PROVE TextBefore(s, u)
  <2>1. PICK i \in Nat : DifferAt(s, t, i)
    BY <1>2, TextBeforeIs
  <2>2. PICK k \in Nat : DifferAt(t, u, k)
    BY <1>2, TextBeforeIs
  <2>3. CASE i < k
    <3>1. \A j \in 1..(i - 1) : s[j] = u[j]
      BY <2>1, <2>2, <2>3 DEF DifferAt
    <3>2. i \in 1..Len(u) /\ i - 1 <= Len(s) /\ t[i] = u[i]
      BY <2>1, <2>2, <2>3 DEF DifferAt
    <3>3. DifferAt(s, u, i)
      BY <2>1, <3>1, <3>2 DEF DifferAt
    <3> QED BY <3>3, TextBeforeIs
  <2>4. CASE k < i
    <3>1. \A j \in 1..(k - 1) : s[j] = u[j]
      BY <2>1, <2>2, <2>4 DEF DifferAt
    <3>2. k \in 1..Len(u) /\ k <= Len(s) /\ k # Len(t) + 1 /\ s[k] = t[k]
      BY <2>1, <2>2, <2>4 DEF DifferAt
    <3>3. DifferAt(s, u, k)
      BY <2>2, <3>1, <3>2 DEF DifferAt
    <3> QED BY <3>3, TextBeforeIs
  <2>5. CASE i = k
    <3>1. \A j \in 1..(i - 1) : s[j] = u[j]
      BY <2>1, <2>2, <2>5 DEF DifferAt
    <3>2. i \in 1..Len(t) /\ i \in 1..Len(u) /\ i - 1 <= Len(s) /\ t[i] < u[i]
      BY <2>1, <2>2, <2>5 DEF DifferAt
    <3>3. i - 1 = Len(s) \/ (i \in 1..Len(s) /\ s[i] < t[i])
      BY <2>1 DEF DifferAt
    <3>4. t[i] \in Nat /\ u[i] \in Nat
      <4>1. i \in 1..Len(t)
        BY <3>2
      <4>2. i \in 1..Len(u)
        BY <3>2
      <4> QED BY <4>1, <4>2
    <3>5. i - 1 = Len(s) \/ s[i] < u[i]
      <4> SUFFICES ASSUME i \in 1..Len(s), s[i] < t[i] PROVE s[i] < u[i]
        BY <3>3
      <4>1. s[i] \in Nat
        OBVIOUS
      <4> QED BY <3>2, <3>4, <4>1
    <3>6. DifferAt(s, u, i)
      BY <3>1, <3>2, <3>5 DEF DifferAt
    <3> QED BY <3>6, TextBeforeIs
  <2> QED BY <2>3, <2>4, <2>5
<1>3. ASSUME s # t PROVE TextBefore(s, t) \/ TextBefore(t, s)
  <2> DEFINE D == {j \in Nat : j \in 1..Len(s) /\ j \in 1..Len(t) /\ s[j] # t[j]}
  <2>1. CASE D = {}
    <3>1. \A j \in 1..Len(s) : j \in 1..Len(t) => s[j] = t[j]
      <4> SUFFICES ASSUME NEW j \in 1..Len(s), j \in 1..Len(t), s[j] # t[j] PROVE FALSE
        OBVIOUS
      <4>1. j \in D
        OBVIOUS
      <4> HIDE DEF D
      <4> QED BY <2>1, <4>1
    <3>2. Len(s) # Len(t)
      BY <1>3, <3>1, SeqEqual
    <3>3. Len(s) < Len(t) => DifferAt(s, t, Len(s) + 1)
      BY <3>1 DEF DifferAt
    <3>4. Len(t) < Len(s) => DifferAt(t, s, Len(t) + 1)
      BY <3>1 DEF DifferAt
    <3>5. Len(s) \in Nat /\ Len(t) \in Nat /\ Len(s) + 1 \in Nat /\ Len(t) + 1 \in Nat
      OBVIOUS
    <3>6. Len(s) < Len(t) \/ Len(t) < Len(s)
      BY <3>2, <3>5
    <3> QED BY <3>3, <3>4, <3>5, <3>6, TextBeforeIs
  <2>2. CASE D # {}
    <3>1. PICK m \in D : \A j \in D : m <= j
      <4>1. D \subseteq Nat
        OBVIOUS
      <4> HIDE DEF D
      <4> QED BY <2>2, <4>1, LeastNumber
    <3>2. /\ m \in Nat /\ m \in 1..Len(s) /\ m \in 1..Len(t) /\ s[m] # t[m]
          /\ s[m] \in Nat /\ t[m] \in Nat
      BY <3>1
    <3>3. ASSUME NEW j \in 1..(m - 1) PROVE s[j] = t[j]
      <4>1. j \in 1..Len(s) /\ j \in 1..Len(t) /\ j \in Nat /\ ~(m <= j)
        BY <3>2
      <4> QED BY <3>1, <4>1
    <3>4. s[m] < t[m] => DifferAt(s, t, m)
      BY <3>2, <3>3 DEF DifferAt
    <3>5. t[m] < s[m] => DifferAt(t, s, m)
      BY <3>2, <3>3 DEF DifferAt
    <3>6. s[m] < t[m] \/ t[m] < s[m]
      BY <3>2
    <3> QED BY <3>2, <3>4, <3>5, <3>6, TextBeforeIs
  <2> QED BY <2>1, <2>2
<1> QED BY <1>1, <1>2, <1>3

\* Keys of one kind are in a strict total order.
LEMMA KeyOrder ==
  ASSUME NEW k, NEW l, NEW m, k.type = l.type, l.type = m.type,
         k.spelling \in Seq(Nat), l.spelling \in Seq(Nat), m.spelling \in Seq(Nat)
  PROVE  /\ ~KeyBefore(k, k)
         /\ KeyBefore(k, l) /\ KeyBefore(l, m) => KeyBefore(k, m)
         /\ k.spelling # l.spelling => KeyBefore(k, l) \/ KeyBefore(l, k)
<1>1. Len(k.spelling) \in Nat /\ Len(l.spelling) \in Nat /\ Len(m.spelling) \in Nat
  OBVIOUS
<1>2. /\ ~TextBefore(k.spelling, k.spelling)
      /\ TextBefore(k.spelling, l.spelling) /\ TextBefore(l.spelling, m.spelling) =>
           TextBefore(k.spelling, m.spelling)
      /\ k.spelling # l.spelling =>
           TextBefore(k.spelling, l.spelling) \/ TextBefore(l.spelling, k.spelling)
  BY TextOrder
<1> QED BY <1>1, <1>2 DEF KeyBefore, NumberBefore

\* What is sorted before each member.
KeysBefore(dict) == [m \in dict |-> {n \in dict : KeyBefore(n.key, m.key)}]

LEMMA SortingOrders ==
  ASSUME NEW dict, IsDictionary(dict), Sortable(dict)
  PROVE  Ordered(dict, KeysBefore(dict))
<1>1. \A m \in dict : m.key.spelling \in Seq(Nat)
  BY DEF IsDictionary
<1>2. \A m, n \in dict : m # n => m.key.spelling # n.key.spelling
  <2> SUFFICES ASSUME NEW m \in dict, NEW n \in dict, m.key.spelling = n.key.spelling PROVE m = n
    OBVIOUS
  <2>1. m.key.type = n.key.type
    BY DEF Sortable
  <2>2. m = Member(m.key.type, m.key.spelling, m.value) /\ n = Member(n.key.type, n.key.spelling, n.value)
    BY DEF IsDictionary
  <2>3. m.key = n.key
    BY <2>1, <2>2 DEF Member
  <2> QED BY <2>3 DEF IsDictionary
<1>3. \A m, n \in dict : m.key.type = n.key.type
  BY DEF Sortable
<1>4. ASSUME NEW x \in dict
      PROVE  KeysBefore(dict)[x] \subseteq dict /\ x \notin KeysBefore(dict)[x]
  BY <1>1, <1>3, KeyOrder DEF KeysBefore
<1>5. ASSUME NEW x \in dict, NEW y \in dict, x # y
      PROVE  x \in KeysBefore(dict)[y] \/ y \in KeysBefore(dict)[x]
  BY <1>1, <1>2, <1>3, <1>5, KeyOrder DEF KeysBefore
<1>6. ASSUME NEW x \in dict, NEW y \in dict, x \in KeysBefore(dict)[y]
      PROVE  KeysBefore(dict)[x] \subseteq KeysBefore(dict)[y]
  BY <1>1, <1>3, <1>6, KeyOrder DEF KeysBefore
<1> QED BY <1>4, <1>5, <1>6 DEF Ordered, IsDictionary

\* The i-th member has i - 1 before it, and is the only one that has.
LEMMA SortedRank ==
  ASSUME NEW dict, IsDictionary(dict), Sortable(dict), NEW i \in 1..Cardinality(dict)
  PROVE  Sorted(dict)[i] \in dict /\ Cardinality(KeysBefore(dict)[Sorted(dict)[i]]) = i - 1
<1> DEFINE Place(m) == Cardinality({n \in dict : KeyBefore(n.key, m.key)}) = i - 1
<1>1. \E m \in dict : Cardinality(KeysBefore(dict)[m]) = i - 1
  BY SortingOrders, OrderIsTaken
<1>2. \E m \in dict : Place(m)
  BY <1>1 DEF KeysBefore
<1>3. Sorted(dict)[i] = CHOOSE m \in dict : Place(m)
  BY DEF Sorted
<1>4. Sorted(dict)[i] \in dict /\ Place(Sorted(dict)[i])
  <2> HIDE DEF Place
  <2> QED BY <1>2, <1>3
<1> QED BY <1>4 DEF KeysBefore

LEMMA SortedIs ==
  ASSUME NEW dict, IsDictionary(dict), Sortable(dict), NEW i \in 1..Cardinality(dict),
         NEW m \in dict, Cardinality(KeysBefore(dict)[m]) = i - 1
  PROVE  Sorted(dict)[i] = m
BY SortedRank, SortingOrders, OrderIsUnique

LEMMA SortedPlace ==
  ASSUME NEW dict, IsDictionary(dict), Sortable(dict), NEW m \in dict
  PROVE  \E i \in 1..Cardinality(dict) : Sorted(dict)[i] = m
<1> DEFINE c == Cardinality(KeysBefore(dict)[m])
<1>1. c \in 0..(Cardinality(dict) - 1)
  BY SortingOrders, OrderBounds
<1>2. Cardinality(dict) \in Nat
  BY FS_CardinalityType DEF IsDictionary
<1>3. c + 1 \in 1..Cardinality(dict) /\ c = (c + 1) - 1
  BY <1>1, <1>2
<1> HIDE DEF c
<1>4. Sorted(dict)[c + 1] = m
  BY <1>3, SortedIs DEF c
<1> QED BY <1>3, <1>4

-----------------------------------------------------------------------------
(* What the JSON column changes.                                           *)

\* The member a member comes back as.
Back(m) == Member("str", m.key.spelling, SpelledOut(m.value))

LEMMA BackIs ==
  ASSUME NEW m
  PROVE  /\ Back(m).key.type = "str" /\ Back(m).key.spelling = m.key.spelling
         /\ Back(m).value = SpelledOut(m.value)
         /\ Back(m) = Member(Back(m).key.type, Back(m).key.spelling, Back(m).value)
BY DEF Back, Member

\* The members of a dictionary that can be sorted are told apart by their spellings.
LEMMA SpellingsDiffer ==
  ASSUME NEW dict, IsDictionary(dict), Sortable(dict), NEW m \in dict, NEW n \in dict,
         m.key.spelling = n.key.spelling
  PROVE  m = n
<1>1. m.key.type = n.key.type
  BY DEF Sortable
<1>2. m = Member(m.key.type, m.key.spelling, m.value) /\ n = Member(n.key.type, n.key.spelling, n.value)
  BY DEF IsDictionary
<1>3. m.key = n.key
  BY <1>1, <1>2 DEF Member
<1> QED BY <1>3 DEF IsDictionary

\* So the column returns a dictionary of as many members.
LEMMA ReturnedIs ==
  ASSUME NEW dict, IsDictionary(dict), Sortable(dict)
  PROVE  /\ IsDictionary(Returned(dict)) /\ Sortable(Returned(dict))
         /\ Returned(dict) = {Back(m) : m \in dict}
         /\ Cardinality(Returned(dict)) = Cardinality(dict)
<1> DEFINE R == Returned(dict)
           f == [m \in dict |-> Back(m)]
<1>1. R = {Back(m) : m \in dict}
  BY DEF Returned, Back
<1>2. \A m, n \in dict : Back(m) = Back(n) => m = n
  BY BackIs, SpellingsDiffer
<1> HIDE DEF R
<1>3. f \in [dict -> R] /\ (\A m, n \in dict : f[m] = f[n] => m = n) /\ \A r \in R : \E m \in dict : f[m] = r
  BY <1>1, <1>2
<1>4. f \in Bijection(dict, R) /\ DOMAIN f = dict
  <2> HIDE DEF f
  <2> QED BY <1>3 DEF Bijection, Injection, IsInjective, Surjection
<1>5. ExistsBijection(dict, R)
  BY <1>4 DEF ExistsBijection
<1>6. IsFiniteSet(R) /\ Cardinality(R) = Cardinality(dict)
  BY <1>5, FS_Bijection DEF IsDictionary
<1>7. \A r \in R : /\ r = Member(r.key.type, r.key.spelling, r.value)
                  /\ r.key.type = "str" /\ r.key.spelling \in Seq(Nat)
  BY <1>1, BackIs DEF IsDictionary
<1>8. \A r, s \in R : r.key = s.key => r = s
  <2> SUFFICES ASSUME NEW m \in dict, NEW n \in dict, Back(m).key = Back(n).key PROVE m = n
    BY <1>1
  <2> QED BY BackIs, SpellingsDiffer
<1> QED BY <1>1, <1>6, <1>7, <1>8 DEF IsDictionary, Sortable, R

\* The text is the list of the members' spellings and values.
LEMMA TextAt ==
  ASSUME NEW dict, NEW i \in 1..Cardinality(dict)
  PROVE  CanonicalJson(dict)[i] = <<Sorted(dict)[i].key.spelling, Sorted(dict)[i].value>>
BY DEF CanonicalJson

LEMMA SameTextSameReturned ==
  ASSUME NEW v, IsDictionary(v), Sortable(v), NEW w, IsDictionary(w), Sortable(w),
         CanonicalJson(v) = CanonicalJson(w)
  PROVE  Returned(v) = Returned(w)
<1>1. ASSUME NEW x, IsDictionary(x), Sortable(x), NEW y, IsDictionary(y), Sortable(y),
             CanonicalJson(x) = CanonicalJson(y), NEW m \in x
      PROVE  Back(m) \in Returned(y)
  <2>1. Cardinality(x) \in Nat /\ Cardinality(y) \in Nat
    BY <1>1, FS_CardinalityType DEF IsDictionary
  <2>2. DOMAIN CanonicalJson(x) = 1..Cardinality(x) /\ DOMAIN CanonicalJson(y) = 1..Cardinality(y)
    BY DEF CanonicalJson
  <2>3. PICK i \in 1..Cardinality(x) : Sorted(x)[i] = m
    BY <1>1, SortedPlace
  <2>4. i \in 1..Cardinality(y)
    BY <1>1, <2>2
  <2> DEFINE n == Sorted(y)[i]
  <2>5. n \in y
    BY <1>1, <2>4, SortedRank
  <2>6. n.key.spelling = m.key.spelling /\ n.value = m.value
    BY <1>1, <2>3, <2>4, TextAt
  <2> HIDE DEF n
  <2>7. Back(m) = Back(n)
    BY <2>6, Zenon DEF Back
  <2> QED BY <1>1, <2>5, <2>7, ReturnedIs
<1>2. (\A m \in v : Back(m) \in Returned(w)) /\ \A m \in w : Back(m) \in Returned(v)
  BY <1>1
<1>3. Returned(v) = {Back(m) : m \in v} /\ Returned(w) = {Back(m) : m \in w}
  BY ReturnedIs
<1> QED BY <1>2, <1>3

\* Coming back, the members are in the order of their spellings.
LEMMA BackBefore ==
  ASSUME NEW dict, IsDictionary(dict), Sortable(dict), NEW m \in dict, NEW n \in dict
  PROVE  /\ Back(m) \in Returned(dict) /\ Back(n) \in Returned(dict)
         /\ Back(m) \in KeysBefore(Returned(dict))[Back(n)] <=>
              TextBefore(m.key.spelling, n.key.spelling)
<1>1. Back(m) \in Returned(dict) /\ Back(n) \in Returned(dict)
  BY ReturnedIs
<1>2. KeyBefore(Back(m).key, Back(n).key) <=> TextBefore(m.key.spelling, n.key.spelling)
  BY BackIs DEF KeyBefore
<1> QED BY <1>1, <1>2 DEF KeysBefore

\* In the same order, each member is in the same place.
LEMMA SamePlaces ==
  ASSUME NEW dict, IsDictionary(dict), Sortable(dict),
         \A m, n \in dict : KeyBefore(m.key, n.key) => TextBefore(m.key.spelling, n.key.spelling),
         NEW m \in dict
  PROVE  Cardinality(KeysBefore(Returned(dict))[Back(m)]) = Cardinality(KeysBefore(dict)[m])
<1> DEFINE R == Returned(dict)
           A == KeysBefore(dict)[m]
           B == KeysBefore(R)[Back(m)]
           f == [n \in A |-> Back(n)]
<1>1. Ordered(dict, KeysBefore(dict)) /\ R = {Back(n) : n \in dict} /\ Back(m) \in R
  BY SortingOrders, ReturnedIs
<1>2. ASSUME NEW n \in dict PROVE n \in A <=> Back(n) \in B
  <2>1. n \in A <=> KeyBefore(n.key, m.key)
    BY DEF KeysBefore
  <2>2. Back(n) \in B <=> TextBefore(n.key.spelling, m.key.spelling)
    BY BackBefore
  <2>3. TextBefore(n.key.spelling, m.key.spelling) => ~TextBefore(m.key.spelling, n.key.spelling)
                                                      /\ n # m
    BY TextOrder DEF IsDictionary
  <2>4. n # m => KeyBefore(n.key, m.key) \/ KeyBefore(m.key, n.key)
    BY <1>1 DEF Ordered, KeysBefore
  <2> QED BY <2>1, <2>2, <2>3, <2>4
<1>3. B \subseteq R /\ A \subseteq dict /\ IsFiniteSet(dict)
  BY <1>1 DEF KeysBefore, IsDictionary
<1>4. B = {Back(n) : n \in A}
  <2> HIDE DEF A, B, R
  <2> QED BY <1>1, <1>2, <1>3
<1>5. \A n, p \in A : Back(n) = Back(p) => n = p
  BY <1>3, BackIs, SpellingsDiffer
<1> HIDE DEF A, B, R
<1>6. f \in [A -> B] /\ (\A n, p \in A : f[n] = f[p] => n = p) /\ \A b \in B : \E n \in A : f[n] = b
  BY <1>4, <1>5
<1>7. f \in Bijection(A, B)
  <2>1. DOMAIN f = A
    OBVIOUS
  <2> HIDE DEF f
  <2> QED BY <1>6, <2>1 DEF Bijection, Injection, IsInjective, Surjection
<1>8. ExistsBijection(A, B)
  BY <1>7 DEF ExistsBijection
<1>9. IsFiniteSet(A)
  BY <1>3, FS_Subset
<1>10. Cardinality(B) = Cardinality(A)
  BY <1>8, <1>9, FS_Bijection
<1> QED BY <1>10 DEF A, B, R

LEMMA SpelledOutDiffers ==
  ASSUME NEW value
  PROVE  SpelledOut(value) = value <=> value # ExponentFloat
BY DEF SpelledOut, ExponentFloat

\* The text is the same exactly for the dictionaries that survive the column.
LEMMA SurvivalIs ==
  ASSUME NEW v, IsDictionary(v), Sortable(v)
  PROVE  CanonicalJson(Returned(v)) = CanonicalJson(v) <=> SurvivesColumn(v)
<1> DEFINE R == Returned(v)
           n == Cardinality(v)
<1>1. IsDictionary(R) /\ Sortable(R) /\ R = {Back(m) : m \in v} /\ Cardinality(R) = n
  BY ReturnedIs
<1>2. ASSUME SurvivesColumn(v) PROVE CanonicalJson(R) = CanonicalJson(v)
  <2>1. ASSUME NEW i \in 1..n
        PROVE  <<Sorted(R)[i].key.spelling, Sorted(R)[i].value>> =
                 <<Sorted(v)[i].key.spelling, Sorted(v)[i].value>>
    <3> DEFINE m == Sorted(v)[i]
    <3>1. m \in v /\ Cardinality(KeysBefore(v)[m]) = i - 1
      BY SortedRank
    <3> HIDE DEF m
    <3>2. Back(m) \in R /\ Cardinality(KeysBefore(R)[Back(m)]) = i - 1
      BY <1>1, <1>2, <3>1, SamePlaces DEF SurvivesColumn
    <3>3. Sorted(R)[i] = Back(m)
      BY <1>1, <3>2, SortedIs
    <3>4. Back(m).value = m.value
      BY <1>2, <3>1, BackIs, SpelledOutDiffers DEF SurvivesColumn
    <3> QED BY <3>3, <3>4, BackIs DEF m
  <2> HIDE DEF R
  <2> QED BY <1>1, <2>1 DEF CanonicalJson
<1>3. ASSUME CanonicalJson(R) = CanonicalJson(v) PROVE SurvivesColumn(v)
  <2>1. ASSUME NEW i \in 1..n
        PROVE  Sorted(v)[i] \in v /\ Sorted(R)[i] = Back(Sorted(v)[i])
               /\ Sorted(v)[i].value # ExponentFloat
    <3>1. Sorted(v)[i] \in v /\ Sorted(R)[i] \in R
      BY <1>1, SortedRank
    <3>2. /\ Sorted(R)[i].key.spelling = Sorted(v)[i].key.spelling
          /\ Sorted(R)[i].value = Sorted(v)[i].value
      <4> HIDE DEF R
      <4> QED BY <1>1, <1>3, TextAt
    <3>3. PICK m \in v : Sorted(R)[i] = Back(m)
      BY <1>1, <3>1
    <3>4. m = Sorted(v)[i]
      BY <3>1, <3>2, <3>3, BackIs, SpellingsDiffer
    <3> QED BY <3>1, <3>2, <3>3, <3>4, BackIs, SpelledOutDiffers
  <2>2. \A m \in v : m.value # ExponentFloat
    BY <2>1, SortedPlace
  <2>3. ASSUME NEW m \in v, NEW l \in v, KeyBefore(m.key, l.key)
        PROVE  TextBefore(m.key.spelling, l.key.spelling)
    <3>1. PICK i \in 1..n : Sorted(v)[i] = m
      BY SortedPlace
    <3>2. PICK j \in 1..n : Sorted(v)[j] = l
      BY SortedPlace
    <3>3. Cardinality(KeysBefore(v)[m]) = i - 1 /\ Cardinality(KeysBefore(v)[l]) = j - 1
      BY <3>1, <3>2, SortedRank
    <3>4. m \in KeysBefore(v)[l]
      BY <2>3 DEF KeysBefore
    <3>5. i - 1 < j - 1
      BY <3>3, <3>4, SortingOrders, OrderIsMonotone
    <3>6. Cardinality(KeysBefore(R)[Back(m)]) = i - 1 /\ Cardinality(KeysBefore(R)[Back(l)]) = j - 1
      BY <1>1, <2>1, <3>1, <3>2, SortedRank
    <3>7. Back(m) \in R /\ Back(l) \in R
      BY <1>1
    <3>8. Back(m) # Back(l) /\ Back(l) \notin KeysBefore(R)[Back(m)]
      <4>1. Ordered(R, KeysBefore(R))
        BY <1>1, SortingOrders
      <4> HIDE DEF R
      <4> QED BY <3>5, <3>6, <3>7, <4>1, OrderIsMonotone
    <3>9. Back(m) \in KeysBefore(R)[Back(l)]
      BY <1>1, <3>7, <3>8, SortingOrders DEF Ordered
    <3> QED BY <3>9, BackBefore
  <2> QED BY <2>2, <2>3 DEF SurvivesColumn
<1> QED BY <1>2, <1>3

-----------------------------------------------------------------------------
(* When the rows of a table nobody edits verify.                           *)

\* What append signs is the text of the values it was given.
IssuedInv ==
  \A i \in issued :
    /\ i.values \in Values /\ Sortable(i.values)
    /\ \E k, p : i.entry_hash =
         HmacSha256(k, ChecksumPayload(StandardEnvelope, p, CanonicalJson(i.values)))

LEMMA IssuedInvStep == IssuedInv /\ [Next]_vars => IssuedInv'
<1> SUFFICES ASSUME IssuedInv, [Next]_vars PROVE IssuedInv'
  OBVIOUS
<1>1. ASSUME NEW values \in Values, AppendEntry(values) PROVE IssuedInv'
  <2> DEFINE hash == HmacSha256(currentKey, ChecksumPayload(StandardEnvelope, LastEntryHash(rows),
                                                            CanonicalJson(values)))
  <2>1. PICK r : /\ HasFields(r, rowSeq + 1, CanonicalJson(Returned(values)), StandardEnvelope,
                              LastEntryHash(rows), hash)
                 /\ issued' = issued \cup {[entry_hash |-> r.entry_hash, values |-> values]}
    BY <1>1, AppendedRow
  <2> DEFINE i == [entry_hash |-> r.entry_hash, values |-> values]
  <2>2. issued' = issued \cup {i} /\ i.entry_hash = hash /\ i.values = values
    BY <2>1 DEF HasFields
  <2>3. Sortable(values)
    BY <1>1, AppendedRow
  <2> HIDE DEF i
  <2>4. i.entry_hash = HmacSha256(currentKey, ChecksumPayload(StandardEnvelope, LastEntryHash(rows),
                                                              CanonicalJson(i.values)))
    BY <2>2, Zenon
  <2> QED BY <2>2, <2>3, <2>4 DEF IssuedInv
<1>2. ASSUME issued' = issued PROVE IssuedInv'
  BY <1>2 DEF IssuedInv
<1>3. CASE \E values \in Values : AppendEntry(values)
  BY <1>1, <1>3
<1>4. CASE TakeCheckpoint \/ Edit \/ UNCHANGED vars
  BY <1>2, <1>4, TakenCheckpoint, EditIs DEF vars
<1>5. CASE (\E k \in Key : RotateKey(k)) \/ (\E k, j \in Key \cup {NoKey} : Redeploy(k, j))
  BY <1>2, <1>5 DEF RotateKey, Redeploy
<1> QED BY <1>3, <1>4, <1>5 DEF Next

\* A row as append wrote it verifies when its key is held and its text came back.
LEMMA RowVerifies ==
  ASSUME IssuedInv, currentKey # NoKey, NEW r \in rows, RowIssued(r)
  PROVE  Verified(r, currentKey, previousKey) <=>
           /\ KeyOf(r.entry_hash) \in KeysHeld
           /\ \E i \in issued : i.entry_hash = r.entry_hash /\ SurvivesColumn(i.values)
<1>1. PICK i \in issued, k \in Key :
        /\ i.entry_hash = r.entry_hash /\ r.envelope = StandardEnvelope
        /\ r.entry_hash =
             HmacSha256(k, ChecksumPayload(StandardEnvelope, r.previous_hash, CanonicalJson(i.values)))
        /\ r.body = CanonicalJson(Returned(i.values))
  BY DEF RowIssued
<1> DEFINE text == CanonicalJson(i.values)
<1>2. \A j \in issued : IsDictionary(j.values) /\ Sortable(j.values)
  BY DictionaryAssumption DEF IssuedInv
<1>3. ValidateEnvelope(r.envelope)
  BY <1>1 DEF ValidateEnvelope, StandardEnvelope, ALLOWED_MAC_ALGORITHMS
<1> HIDE DEF text
<1>4. r.entry_hash = HmacSha256(k, ChecksumPayload(StandardEnvelope, r.previous_hash, text))
  BY <1>1, Zenon DEF text
<1>5. ASSUME NEW key
      PROVE  r.entry_hash = EntryMac(key, r) <=> key = k /\ r.body = text
  BY <1>1, <1>4 DEF EntryMac, HmacSha256, ChecksumPayload
<1>6. KeyOf(r.entry_hash) = k /\ k # NoKey
  BY <1>4, KeyAssumption DEF KeyOf, HmacSha256
<1>7. Verified(r, currentKey, previousKey) <=> k \in KeysHeld /\ r.body = text
  BY <1>3, <1>5, <1>6, VerifiedIs DEF KeysHeld
<1>8. r.body = text <=> SurvivesColumn(i.values)
  BY <1>1, <1>2, SurvivalIs DEF text
<1>9. ASSUME NEW j \in issued, j.entry_hash = r.entry_hash, SurvivesColumn(j.values)
      PROVE  SurvivesColumn(i.values)
  <2>1. PICK l, p : j.entry_hash =
               HmacSha256(l, ChecksumPayload(StandardEnvelope, p, CanonicalJson(j.values)))
    BY DEF IssuedInv
  <2> DEFINE other == CanonicalJson(j.values)
  <2> HIDE DEF other
  <2>2. j.entry_hash = HmacSha256(l, ChecksumPayload(StandardEnvelope, p, other))
    BY <2>1, Zenon DEF other
  <2>3. other = text
    BY <1>4, <1>9, <2>2 DEF HmacSha256, ChecksumPayload
  <2>4. CanonicalJson(Returned(j.values)) = other
    BY <1>2, <1>9, SurvivalIs DEF other
  <2>5. Returned(i.values) = Returned(j.values)
    BY <1>2, <2>3, SameTextSameReturned DEF other, text
  <2> QED BY <1>1, <1>8, <2>3, <2>4, <2>5
<1> QED BY <1>1, <1>6, <1>7, <1>8, <1>9

\* A table nobody edited is intact exactly as long as the key of every row is held and its
\* values came back from the JSON column as they were signed (verify_chain, operations.py).
THEOREM IntactWhileKeysHeld == Spec => []UneditedIntactWhileKeysHeld
<1>1. TypeInv /\ UneditedInv /\ IssuedInv => UneditedIntactWhileKeysHeld
  <2> SUFFICES ASSUME TypeInv, UneditedInv, IssuedInv, edits = 0, currentKey # NoKey
               PROVE  Intact(rows, currentKey, previousKey) <=>
                        \A r \in rows :
                          /\ KeyOf(r.entry_hash) \in KeysHeld
                          /\ \E i \in issued : i.entry_hash = r.entry_hash /\ SurvivesColumn(i.values)
    BY DEF UneditedIntactWhileKeysHeld
  <2>1. Linked(rows) /\ \A r \in rows : RowIssued(r)
    BY DEF UneditedInv, UneditedRows
  <2>2. Keyed(rows) /\ \A r \in rows : r.pk # NoPk
    BY DEF TypeInv, RowsType, NoPk
  <2> QED BY <2>1, <2>2, IntactIs, RowVerifies
<1>2. Init => IssuedInv
  BY DEF Init, IssuedInv
<1> QED BY <1>1, <1>2, InitTypes, TypeStep, InitUnedited, UneditedStep, IssuedInvStep, PTL DEF Spec

-----------------------------------------------------------------------------
(* The report, field by field.                                             *)

\* A report that names the m-th row, the first that is unlinked or that no key verifies.
FailedAt(report, T, current, previous, m) ==
  /\ ~report.raised /\ ~report.is_intact
  /\ report.failed_pk = InPkOrder(T)[m].pk /\ report.total_count = m
  /\ report.current_key_count = Cardinality(Counted(T, current, previous, m - 1, "current"))
  /\ report.previous_key_count = Cardinality(Counted(T, current, previous, m - 1, "previous"))
  /\ LinkedAt(T, m) => report.failure_reason = "MAC verification failed"
  /\ ~LinkedAt(T, m) => report.failure_reason = "previous_hash mismatch"

\* verify_chain stops there.
LEMMA WalkFails ==
  ASSUME NEW T, Keyed(T), \A r \in T : r.pk # NoPk, NEW current, NEW previous,
         NEW full \in BOOLEAN, ~full, NEW m \in 1..Cardinality(T), BadAt(T, current, previous, m),
         ~LinkedAt(T, m) \/ ResultAt(T, current, previous, m) # "raises",
         \A j \in 1..(m - 1) : ~BadAt(T, current, previous, j),
         NEW report, report = VerifyChain(T, current, previous, full)
  PROVE  FailedAt(report, T, current, previous, m)
<1> DEFINE w == Walk(T, current, previous, full)
           entry == InPkOrder(T)[m]
           i == m - 1
           g == HashAt(T, i)
           C == Cardinality(Counted(T, current, previous, i, "current"))
           D == Cardinality(Counted(T, current, previous, i, "previous"))
           no == FALSE
           yes == TRUE
           new == WalkRow(w[i], entry, current, previous, full)
<1>1. Cardinality(T) \in Nat
  BY FS_CardinalityType DEF Keyed
<1>2. i \in 0..Cardinality(T) /\ i + 1 = m
  BY <1>1
<1>3. GoesOn(w[i], T, current, previous, i)
  <2> HIDE DEF i
  <2>1. \A j \in 1..i : /\ ResultAt(T, current, previous, j) # "raises"
                        /\ full \/ ~BadAt(T, current, previous, j)
    BY DEF i, BadAt
  <2> QED BY <1>1, <1>2, <2>1, WalkUpTo, Zenon
<1>4. w[m] = new
  BY <1>1, WalkReports
<1>5. PICK a, f : Reports(w[i], a, i, C, D, NoPk, f, g, no, no)
  <2>1. PICK a, e, f : Reports(w[i], a, i, C, D, e, f, g, FALSE, FALSE)
                       /\ (e = NoPk <=> \A j \in 1..i : ~BadAt(T, current, previous, j))
    BY <1>3, Zenon DEF GoesOn
  <2>2. e = NoPk
    BY <2>1, Zenon
  <2> QED BY <2>1, <2>2, Zenon
<1>6. /\ LinkedAt(T, m) <=> entry.previous_hash = g
      /\ VerifyEntry(entry, current, previous) = ResultAt(T, current, previous, m)
      /\ Kept(NoPk, NoPk, entry.pk) = entry.pk
      /\ \A new1 : Kept(NoPk, f, new1) = new1
  BY DEF LinkedAt, ResultAt, Kept
<1>7. entry.previous_hash = g =>
        /\ VerifyEntry(entry, current, previous) # "raises"
        /\ VerifyEntry(entry, current, previous) \notin {"current", "previous"}
  BY <1>6 DEF BadAt
<1> HIDE DEF w, entry, i, g, C, D, no, yes, new
<1>8. ~no /\ yes /\ no = FALSE /\ yes = TRUE
  BY DEF no, yes
<1>9. ASSUME ~LinkedAt(T, m)
      PROVE  Reports(new, no, m, C, D, entry.pk, "previous_hash mismatch", g, yes, no)
  <2>1. Reports(WalkRow(w[i], entry, current, previous, full), FALSE, i + 1, C, D,
                Kept(NoPk, NoPk, entry.pk), Kept(NoPk, f, "previous_hash mismatch"), g, TRUE, no)
    BY <1>1, <1>5, <1>6, <1>8, <1>9, WalkRowStops, Zenon
  <2> QED BY <1>2, <1>6, <1>8, <2>1, Zenon DEF new
<1>10. ASSUME LinkedAt(T, m)
       PROVE  Reports(new, no, m, C, D, entry.pk, "MAC verification failed", g, yes, no)
  <2>1. Reports(CheckLink(w[i], entry), a, i + 1, C, D, NoPk, f, g, no, no)
    BY <1>5, <1>6, <1>10, CheckLinkIs, Zenon
  <2>2. w[i].done = no /\ w[i].expected_previous_hash = g
    BY <1>5, ReportFields
  <2>3. ~w[i].done /\ (full \/ entry.previous_hash = w[i].expected_previous_hash)
    BY <1>6, <1>8, <1>10, <2>2
  <2>4. Reports(WalkRow(w[i], entry, current, previous, full), FALSE, i + 1, C, D,
                Kept(NoPk, NoPk, entry.pk), Kept(NoPk, f, "MAC verification failed"), g, TRUE, no)
    BY <1>1, <1>6, <1>7, <1>8, <1>10, <2>1, <2>3, WalkRowChecks, Zenon
  <2> QED BY <1>2, <1>6, <1>8, <2>4, Zenon DEF new
<1>11. PICK reason :
         /\ Reports(new, no, m, C, D, entry.pk, reason, g, yes, no)
         /\ LinkedAt(T, m) => reason = "MAC verification failed"
         /\ ~LinkedAt(T, m) => reason = "previous_hash mismatch"
  BY <1>9, <1>10, Zenon
<1>12. /\ new.is_intact = no /\ new.total_count = m /\ new.current_key_count = C
       /\ new.previous_key_count = D /\ new.failed_pk = entry.pk /\ new.failure_reason = reason
       /\ new.done = yes /\ new.raised = no
  <2>1. Reports(new, no, m, C, D, entry.pk, reason, g, yes, no)
    BY <1>11, Zenon
  <2> QED BY <2>1, ReportFields
<1>13. report = new
  <2>1. w[m].done
    BY <1>4, <1>8, <1>12
  <2> QED BY <1>4, <2>1, WalkIsDone DEF w
<1> QED BY <1>8, <1>11, <1>12, <1>13 DEF FailedAt, C, D, entry, i

\* The first m rows are those up to the pk of the m-th.
LEMMA FirstRowsAre ==
  ASSUME NEW T, Keyed(T), NEW m \in 1..Cardinality(T)
  PROVE  FirstRows(T, m) = {r \in T : r.pk <= InPkOrder(T)[m].pk}
<1> DEFINE R(j) == InPkOrder(T)[j]
           n == Cardinality(T)
<1>1. n \in Nat
  BY FS_CardinalityType DEF Keyed
<1>2. \A j \in 1..n : R(j) \in T /\ R(j).pk \in Int
  BY InPkOrderRank DEF Keyed
<1>3. \A j, l \in 1..n : j < l => R(j).pk < R(l).pk
  BY InPkOrderIncreases
<1>4. \A r \in T : \E j \in 1..n : R(j) = r
  BY PlaceOf
<1>5. FirstRows(T, m) = {R(j) : j \in 1..m}
  BY DEF FirstRows
<1>6. m \in 1..n
  OBVIOUS
<1> HIDE DEF R, n
<1>7. ASSUME NEW j \in 1..n PROVE j \in 1..m <=> R(j).pk <= R(m).pk
  <2>1. CASE j < m
    <3>1. R(j).pk < R(m).pk /\ R(j).pk \in Int /\ R(m).pk \in Int
      BY <1>2, <1>3, <1>6, <2>1
    <3> QED BY <1>1, <2>1, <3>1
  <2>2. CASE m < j
    <3>1. R(m).pk < R(j).pk /\ R(j).pk \in Int /\ R(m).pk \in Int
      BY <1>2, <1>3, <1>6, <2>2
    <3> QED BY <1>1, <2>2, <3>1
  <2>3. CASE j = m
    BY <1>1, <1>2, <2>3
  <2> QED BY <1>1, <2>1, <2>2, <2>3
<1>8. 1..m \subseteq 1..n
  BY <1>1, <1>6
<1>9. {R(j) : j \in 1..m} = {r \in T : r.pk <= R(m).pk}
  BY <1>2, <1>4, <1>7, <1>8
<1> QED BY <1>5, <1>9 DEF R

\* The rows ReportsRight calls bad, by their places.
Bad == Unlinked \cup Unverified

LEMMA BadIs ==
  ASSUME TypeInv
  PROVE  /\ Keyed(rows) /\ Cardinality(rows) \in Nat /\ Bad \subseteq rows
         /\ \A r \in rows : r.pk # NoPk /\ r.pk \in Nat
         /\ \A j \in 1..Cardinality(rows) :
              /\ InPkOrder(rows)[j] \in rows
              /\ Result(InPkOrder(rows)[j]) = ResultAt(rows, currentKey, previousKey, j)
              /\ InPkOrder(rows)[j] \in Unlinked <=> ~LinkedAt(rows, j)
              /\ InPkOrder(rows)[j] \in Bad <=>
                   \/ ~LinkedAt(rows, j)
                   \/ ResultAt(rows, currentKey, previousKey, j) \in {"refused", "mismatch"}
              /\ BadAt(rows, currentKey, previousKey, j) <=>
                   \/ InPkOrder(rows)[j] \in Bad
                   \/ ResultAt(rows, currentKey, previousKey, j) = "raises"
<1>1. /\ Keyed(rows) /\ Cardinality(rows) \in Nat /\ Bad \subseteq rows
      /\ \A r \in rows : r.pk # NoPk /\ r.pk \in Nat
  BY FS_CardinalityType DEF TypeInv, RowsType, NoPk, Keyed, Bad, Unlinked, Unverified
<1>2. ASSUME NEW j \in 1..Cardinality(rows)
      PROVE  /\ InPkOrder(rows)[j] \in rows
             /\ InPkOrder(rows)[j] \in Unlinked <=> ~LinkedAt(rows, j)
  BY <1>1, LinkedAtIs DEF Unlinked
<1>3. \A r : Result(r) \in {"refused", "mismatch", "raises", "current", "previous"}
  BY DEF Result, VerifyEntry
<1>4. ASSUME NEW j \in 1..Cardinality(rows)
      PROVE  /\ Result(InPkOrder(rows)[j]) = ResultAt(rows, currentKey, previousKey, j)
             /\ InPkOrder(rows)[j] \in Unverified <=>
                  ResultAt(rows, currentKey, previousKey, j) \in {"refused", "mismatch"}
  BY <1>2 DEF Unverified, Result, ResultAt
<1> QED BY <1>1, <1>2, <1>3, <1>4 DEF Bad, BadAt

LEMMA FirstBadIs ==
  ASSUME TypeInv
  PROVE  /\ Bad = {} => FirstBad = NoPk
         /\ Bad # {} => FirstBad # NoPk
         /\ \A j \in 1..Cardinality(rows) :
              InPkOrder(rows)[j] \in Bad /\ (\A l \in 1..(j - 1) : InPkOrder(rows)[l] \notin Bad) =>
                FirstBad = InPkOrder(rows)[j].pk
         /\ Bad # {} => \E j \in 1..Cardinality(rows) :
              InPkOrder(rows)[j] \in Bad /\ \A l \in 1..(j - 1) : InPkOrder(rows)[l] \notin Bad
<1> DEFINE n == Cardinality(rows)
           R(j) == InPkOrder(rows)[j]
           Leads(j) == R(j) \in Bad /\ \A l \in 1..(j - 1) : R(l) \notin Bad
<1>1. /\ Keyed(rows) /\ n \in Nat /\ Bad \subseteq rows
      /\ \A r \in rows : r.pk # NoPk /\ r.pk \in Nat
      /\ \A j \in 1..n : R(j) \in rows
  BY BadIs
<1>2. \A r \in rows : \E j \in 1..n : R(j) = r
  BY <1>1, PlaceOf
<1>3. \A j, l \in 1..n : j < l => R(j).pk < R(l).pk
  BY <1>1, InPkOrderIncreases
<1> HIDE DEF n, R
<1>4. FirstBad = IF Bad = {} THEN NoPk ELSE (CHOOSE r \in Bad : \A s \in Bad : r.pk <= s.pk).pk
  BY DEF FirstBad, Bad
<1>5. ASSUME NEW j \in 1..n, Leads(j) PROVE FirstBad = R(j).pk /\ FirstBad # NoPk
  <2>1. ASSUME NEW s \in Bad PROVE R(j).pk <= s.pk
    <3>1. PICK l \in 1..n : R(l) = s
      BY <1>1, <1>2
    <3>2. ~(l < j)
      BY <1>1, <1>5, <2>1, <3>1
    <3>3. j = l \/ R(j).pk < R(l).pk
      BY <1>1, <1>3, <3>2
    <3>4. R(j).pk \in Nat /\ R(l).pk \in Nat
      BY <1>1
    <3> QED BY <3>1, <3>3, <3>4
  <2> DEFINE c == CHOOSE r \in Bad : \A s \in Bad : r.pk <= s.pk
  <2>2. c \in Bad /\ c.pk <= R(j).pk
    BY <1>5, <2>1
  <2>3. c.pk \in Nat /\ R(j).pk \in Nat /\ R(j).pk <= c.pk
    BY <1>1, <2>1, <2>2
  <2>4. FirstBad = c.pk
    BY <1>4, <1>5
  <2> HIDE DEF c
  <2> QED BY <1>1, <2>2, <2>3, <2>4
<1>6. ASSUME Bad # {} PROVE \E j \in 1..n : Leads(j)
  <2> DEFINE places == {j \in Nat : j \in 1..n /\ R(j) \in Bad}
  <2>1. places \subseteq Nat /\ places # {}
    BY <1>1, <1>2, <1>6
  <2>2. PICK j \in places : \A l \in places : j <= l
    <3> HIDE DEF places
    <3> QED BY <2>1, LeastNumber
  <2>3. j \in 1..n /\ R(j) \in Bad
    BY <2>2
  <2>4. ASSUME NEW l \in 1..(j - 1) PROVE R(l) \notin Bad
    <3>1. l \in 1..n /\ l \in Nat /\ ~(j <= l)
      BY <1>1, <2>3
    <3> QED BY <2>2, <3>1
  <2> QED BY <2>3, <2>4
<1>7. \A j \in 1..n : Leads(j) => FirstBad = R(j).pk
  BY <1>5
<1>8. Bad # {} => FirstBad # NoPk
  BY <1>5, <1>6
<1>9. Bad = {} => FirstBad = NoPk
  BY <1>4
<1> QED BY <1>6, <1>7, <1>8, <1>9 DEF n, R

\* What ReportsRight asks of one report.
Walked(full) == IF full \/ FirstBad = NoPk THEN rows ELSE {r \in rows : r.pk <= FirstBad}
MacChecked(full) == IF full THEN Walked(full) ELSE Walked(full) \cap (rows \ Unlinked)
Verifying(full, key) == {r \in MacChecked(full) : Result(r) = key}
RightReport(report, full) ==
  /\ report.raised <=> Verifying(full, "raises") # {}
  /\ ~report.raised =>
       /\ report.is_intact <=> FirstBad = NoPk
       /\ report.failed_pk = FirstBad
       /\ report.total_count = Cardinality(Walked(full))
       /\ report.current_key_count = Cardinality(Verifying(full, "current"))
       /\ report.previous_key_count = Cardinality(Verifying(full, "previous"))
       /\ \A r \in rows : r.pk = FirstBad =>
            report.failure_reason = IF r \in rows \ Unlinked THEN "MAC verification failed"
                                    ELSE "previous_hash mismatch"

\* Every row is walked and none raises.
LEMMA WholeReport ==
  ASSUME TypeInv, NEW full \in BOOLEAN, NEW report,
         GoesOn(report, rows, currentKey, previousKey, Cardinality(rows)),
         \A j \in 1..Cardinality(rows) :
           /\ ResultAt(rows, currentKey, previousKey, j) # "raises"
           /\ full \/ ~BadAt(rows, currentKey, previousKey, j)
  PROVE  RightReport(report, full)
<1> DEFINE n == Cardinality(rows)
           R(j) == InPkOrder(rows)[j]
           B(j) == BadAt(rows, currentKey, previousKey, j)
           C(key) == Cardinality(Counted(rows, currentKey, previousKey, n, key))
           no == FALSE
<1>1. /\ Keyed(rows) /\ n \in Nat /\ Bad \subseteq rows
      /\ \A r \in rows : r.pk # NoPk
      /\ \A j \in 1..n : R(j) \in rows /\ (B(j) <=> R(j) \in Bad) /\ Result(R(j)) # "raises"
                         /\ (R(j) \in Unlinked <=> ~LinkedAt(rows, j))
  BY BadIs
<1>2. \A r \in rows : \E j \in 1..n : R(j) = r
  BY <1>1, PlaceOf
<1>3. PICK a, e, f :
        /\ Reports(report, a, n, C("current"), C("previous"), e, f, HashAt(rows, n), no, no)
        /\ a \in BOOLEAN
        /\ a = TRUE <=> \A j \in 1..n : ~B(j)
        /\ e = NoPk <=> \A j \in 1..n : ~B(j)
        /\ \A j \in 1..n : B(j) /\ (\A l \in 1..(j - 1) : ~B(l)) =>
             /\ e = R(j).pk
             /\ f = IF LinkedAt(rows, j) THEN "MAC verification failed" ELSE "previous_hash mismatch"
  BY Zenon DEF GoesOn
<1>4. /\ report.is_intact = a /\ report.total_count = n /\ report.current_key_count = C("current")
      /\ report.previous_key_count = C("previous") /\ report.failed_pk = e
      /\ report.failure_reason = f /\ report.raised = no
  <2>1. Reports(report, a, n, C("current"), C("previous"), e, f, HashAt(rows, n), no, no)
    BY <1>3, Zenon
  <2> HIDE DEF no, C, n
  <2> QED BY <2>1, ReportFields
<1>5. Walked(full) = rows /\ MacChecked(full) = rows
  <2>1. CASE full
    BY <2>1 DEF Walked, MacChecked
  <2>2. CASE ~full
    <3>1. \A j \in 1..n : ~B(j) /\ R(j) \notin Bad
      BY <1>1, <2>2
    <3>2. Bad = {}
      BY <1>1, <1>2, <3>1
    <3>3. FirstBad = NoPk /\ rows \ Unlinked = rows
      BY <3>2, FirstBadIs DEF Bad
    <3> QED BY <2>2, <3>3 DEF Walked, MacChecked
  <2> QED BY <2>1, <2>2
<1>6. \A key : C(key) = Cardinality(Verifying(full, key))
  <2>1. FirstRows(rows, n) = rows
    BY <1>1, FirstRowsAreAll
  <2>2. \A key : Counted(rows, currentKey, previousKey, n, key) = Verifying(full, key)
    BY <1>5, <2>1 DEF Counted, Verifying, Result
  <2> QED BY <2>2
<1>7. Verifying(full, "raises") = {}
  BY <1>1, <1>2, <1>5 DEF Verifying
<1> HIDE DEF n, R, B, C
<1>8. (\A j \in 1..n : ~B(j)) <=> Bad = {}
  BY <1>1, <1>2
<1>9. report.is_intact <=> FirstBad = NoPk
  BY <1>3, <1>4, <1>8, FirstBadIs
<1>10. /\ report.failed_pk = FirstBad
       /\ \A r \in rows : r.pk = FirstBad =>
            report.failure_reason = IF r \in rows \ Unlinked THEN "MAC verification failed"
                                    ELSE "previous_hash mismatch"
  <2>1. CASE Bad = {}
    BY <1>1, <1>3, <1>4, <1>8, <2>1, FirstBadIs
  <2>2. CASE Bad # {}
    <3>1. PICK j \in 1..n : /\ R(j) \in Bad /\ (\A l \in 1..(j - 1) : R(l) \notin Bad)
                            /\ FirstBad = R(j).pk
      BY <2>2, FirstBadIs DEF n, R
    <3>2. B(j) /\ \A l \in 1..(j - 1) : ~B(l)
      <4>1. \A l \in 1..(j - 1) : l \in 1..n
        BY <1>1
      <4> QED BY <1>1, <3>1, <4>1
    <3>3. /\ e = R(j).pk
          /\ f = IF LinkedAt(rows, j) THEN "MAC verification failed" ELSE "previous_hash mismatch"
      BY <1>3, <3>2
    <3>4. \A r \in rows : r.pk = FirstBad => r = R(j)
      BY <1>1, <3>1 DEF Keyed
    <3>5. R(j) \in rows /\ (R(j) \in Unlinked <=> ~LinkedAt(rows, j))
      BY <1>1
    <3> QED BY <1>4, <3>1, <3>3, <3>4, <3>5
  <2> QED BY <2>1, <2>2
<1>11. report.total_count = Cardinality(Walked(full))
  BY <1>4, <1>5 DEF n
<1> QED BY <1>4, <1>6, <1>7, <1>9, <1>10, <1>11 DEF RightReport, no

LEMMA FirstRowsCount ==
  ASSUME NEW T, Keyed(T), NEW m \in 0..Cardinality(T)
  PROVE  Cardinality(FirstRows(T, m)) = m
<1> DEFINE Right == {i \in Nat : i <= Cardinality(T) => Cardinality(FirstRows(T, i)) = i}
<1>1. Cardinality(T) \in Nat
  BY FS_CardinalityType DEF Keyed
<1>2. 0 \in Right
  <2>1. FirstRows(T, 0) = {}
    BY DEF FirstRows
  <2> QED BY <2>1, FS_EmptySet
<1>3. ASSUME NEW i \in Nat, i \in Right PROVE i + 1 \in Right
  <2> SUFFICES ASSUME i + 1 <= Cardinality(T) PROVE Cardinality(FirstRows(T, i + 1)) = i + 1
    OBVIOUS
  <2>1. i + 1 \in 1..Cardinality(T) /\ (i + 1) - 1 = i /\ Cardinality(FirstRows(T, i)) = i
    BY <1>1, <1>3
  <2>2. /\ FirstRows(T, i + 1) = FirstRows(T, i) \cup {InPkOrder(T)[i + 1]}
        /\ InPkOrder(T)[i + 1] \notin FirstRows(T, i)
        /\ IsFiniteSet(FirstRows(T, i))
    BY <2>1, FirstRowsGrow
  <2> HIDE DEF Right
  <2>3. Cardinality(FirstRows(T, i + 1)) = Cardinality(FirstRows(T, i)) + 1
    BY <2>2, FS_AddElement
  <2> QED BY <2>1, <2>3
<1>4. Nat \subseteq Right
  <2> HIDE DEF Right
  <2> QED BY <1>2, <1>3, EveryNumber
<1> QED BY <1>1, <1>4

\* The walk stops at a row that it reports.
LEMMA StoppedReport ==
  ASSUME TypeInv, NEW full \in BOOLEAN, ~full, NEW m \in 1..Cardinality(rows),
         BadAt(rows, currentKey, previousKey, m),
         ~LinkedAt(rows, m) \/ ResultAt(rows, currentKey, previousKey, m) # "raises",
         \A j \in 1..(m - 1) : ~BadAt(rows, currentKey, previousKey, j),
         NEW report, report = VerifyChain(rows, currentKey, previousKey, full)
  PROVE  RightReport(report, full)
<1> DEFINE n == Cardinality(rows)
           R(j) == InPkOrder(rows)[j]
           B(j) == BadAt(rows, currentKey, previousKey, j)
           C(i, key) == Counted(rows, currentKey, previousKey, i, key)
           ok == {"current", "previous"}
<1>1. /\ Keyed(rows) /\ n \in Nat /\ Bad \subseteq rows
      /\ \A r \in rows : r.pk # NoPk
      /\ \A j \in 1..n : /\ R(j) \in rows
                         /\ R(j) \in Unlinked <=> ~LinkedAt(rows, j)
                         /\ Result(R(j)) = ResultAt(rows, currentKey, previousKey, j)
                         /\ B(j) <=> R(j) \in Bad \/ Result(R(j)) = "raises"
  BY BadIs
<1>2. /\ R(m) \in Bad /\ \A l \in 1..(m - 1) : l \in 1..n /\ R(l) \notin Bad /\ R(l) \notin Unlinked
                                               /\ Result(R(l)) # "raises"
  BY <1>1, BadIs DEF Bad
<1>3. FirstBad = R(m).pk /\ FirstBad # NoPk
  BY <1>2, FirstBadIs
<1>4. /\ ~report.raised /\ ~report.is_intact
      /\ report.failed_pk = R(m).pk /\ report.total_count = m
      /\ report.current_key_count = Cardinality(C(m - 1, "current"))
      /\ report.previous_key_count = Cardinality(C(m - 1, "previous"))
      /\ LinkedAt(rows, m) => report.failure_reason = "MAC verification failed"
      /\ ~LinkedAt(rows, m) => report.failure_reason = "previous_hash mismatch"
  <2>1. Keyed(rows) /\ \A r \in rows : r.pk # NoPk
    BY <1>1
  <2>2. FailedAt(report, rows, currentKey, previousKey, m)
    BY <2>1, WalkFails, Zenon
  <2> QED BY <2>2 DEF FailedAt
<1>5. Walked(full) = FirstRows(rows, m) /\ Cardinality(Walked(full)) = m
  <2>1. Walked(full) = FirstRows(rows, m)
    BY <1>1, <1>3, FirstRowsAre DEF Walked
  <2> QED BY <1>1, <2>1, FirstRowsCount
<1>6. /\ FirstRows(rows, m) = FirstRows(rows, m - 1) \cup {R(m)}
      /\ FirstRows(rows, m) \subseteq rows
      /\ \A r \in FirstRows(rows, m - 1) : r \notin Unlinked /\ Result(r) # "raises"
  BY <1>1, <1>2, FirstRowsGrow DEF FirstRows
<1>7. MacChecked(full) = IF LinkedAt(rows, m) THEN FirstRows(rows, m) ELSE FirstRows(rows, m - 1)
  <2>1. MacChecked(full) = {r \in FirstRows(rows, m) : r \notin Unlinked}
    BY <1>5, <1>6 DEF MacChecked
  <2> QED BY <1>1, <1>6, <2>1
<1>8. LinkedAt(rows, m) => Result(R(m)) \notin ok /\ Result(R(m)) # "raises"
  BY <1>1 DEF BadAt
<1>9. \A key \in ok \cup {"raises"} : Verifying(full, key) = C(m - 1, key)
  BY <1>6, <1>7, <1>8 DEF Verifying, Counted, Result
<1>10. Verifying(full, "raises") = {}
  BY <1>6, <1>9 DEF Counted, Result
<1>11. Verifying(full, "current") = C(m - 1, "current") /\ Verifying(full, "previous") = C(m - 1, "previous")
  BY <1>9
<1>12. ASSUME NEW r \in rows, r.pk = FirstBad
       PROVE  report.failure_reason = IF r \in rows \ Unlinked THEN "MAC verification failed"
                                      ELSE "previous_hash mismatch"
  <2>1. r = R(m)
    BY <1>1, <1>3, <1>12 DEF Keyed
  <2> QED BY <1>1, <1>4, <2>1
<1> HIDE DEF C
<1>13. /\ report.is_intact <=> FirstBad = NoPk
       /\ report.failed_pk = FirstBad
       /\ report.total_count = Cardinality(Walked(full))
       /\ report.current_key_count = Cardinality(Verifying(full, "current"))
       /\ report.previous_key_count = Cardinality(Verifying(full, "previous"))
  BY <1>3, <1>4, <1>5, <1>11
<1> QED BY <1>4, <1>10, <1>12, <1>13 DEF RightReport

\* The walk raises.
LEMMA RaisedReport ==
  ASSUME TypeInv, NEW full \in BOOLEAN, NEW m \in 1..Cardinality(rows),
         ResultAt(rows, currentKey, previousKey, m) = "raises", full \/ LinkedAt(rows, m),
         \A j \in 1..(m - 1) : /\ ResultAt(rows, currentKey, previousKey, j) # "raises"
                               /\ full \/ ~BadAt(rows, currentKey, previousKey, j),
         NEW report, report = VerifyChain(rows, currentKey, previousKey, full)
  PROVE  RightReport(report, full)
<1> DEFINE n == Cardinality(rows)
           R(j) == InPkOrder(rows)[j]
           B(j) == BadAt(rows, currentKey, previousKey, j)
<1>1. /\ Keyed(rows) /\ n \in Nat
      /\ \A r \in rows : r.pk # NoPk /\ r.pk \in Nat
      /\ \A j \in 1..n : /\ R(j) \in rows
                         /\ R(j) \in Unlinked <=> ~LinkedAt(rows, j)
                         /\ Result(R(j)) = ResultAt(rows, currentKey, previousKey, j)
                         /\ B(j) <=> R(j) \in Bad \/ Result(R(j)) = "raises"
                         /\ R(j) \in Bad <=> ~LinkedAt(rows, j) \/ Result(R(j)) \in {"refused", "mismatch"}
  BY BadIs
<1>2. report.raised
  BY <1>1, WalkRaises
<1>3. R(m) \in Walked(full)
  <2>1. CASE full \/ FirstBad = NoPk
    BY <1>1, <2>1 DEF Walked
  <2>2. CASE ~full /\ FirstBad # NoPk
    <3>1. PICK j \in 1..n : R(j) \in Bad /\ (\A l \in 1..(j - 1) : R(l) \notin Bad) /\ FirstBad = R(j).pk
      BY <2>2, FirstBadIs
    <3>2. ~(j < m)
      BY <1>1, <2>2, <3>1
    <3>3. j # m
      BY <1>1, <2>2, <3>1
    <3>4. m < j
      BY <1>1, <3>2, <3>3
    <3>5. R(m).pk < R(j).pk
      BY <1>1, <3>4, InPkOrderIncreases
    <3>6. R(m).pk \in Nat /\ R(j).pk \in Nat /\ R(m) \in rows
      BY <1>1
    <3> QED BY <2>2, <3>1, <3>5, <3>6 DEF Walked
  <2> QED BY <2>1, <2>2
<1>4. R(m) \in MacChecked(full) /\ Result(R(m)) = "raises"
  BY <1>1, <1>3 DEF MacChecked
<1>5. Verifying(full, "raises") # {}
  BY <1>4 DEF Verifying
<1> QED BY <1>2, <1>5 DEF RightReport

\* Whatever the table holds, and in both modes.
LEMMA ReportIsRight ==
  ASSUME TypeInv, NEW full \in BOOLEAN, NEW report,
         report = VerifyChain(rows, currentKey, previousKey, full)
  PROVE  RightReport(report, full)
<1> DEFINE n == Cardinality(rows)
           Stops(j) == \/ ResultAt(rows, currentKey, previousKey, j) = "raises"
                       \/ ~full /\ BadAt(rows, currentKey, previousKey, j)
           stops == {j \in Nat : j \in 1..n /\ Stops(j)}
<1>1. Keyed(rows) /\ n \in Nat /\ \A r \in rows : r.pk # NoPk
  BY BadIs
<1>2. CASE stops = {}
  <2>1. \A j \in 1..n : /\ ResultAt(rows, currentKey, previousKey, j) # "raises"
                        /\ full \/ ~BadAt(rows, currentKey, previousKey, j)
    BY <1>2
  <2>2. n \in 0..n
    BY <1>1
  <2>3. GoesOn(report, rows, currentKey, previousKey, n)
    BY <1>1, <2>1, <2>2, WalkUpTo, Zenon DEF VerifyChain
  <2> QED BY <2>1, <2>3, WholeReport
<1>3. CASE stops # {}
  <2>1. PICK m \in stops : \A l \in stops : m <= l
    <3>1. stops \subseteq Nat
      OBVIOUS
    <3> HIDE DEF stops
    <3> QED BY <1>3, <3>1, LeastNumber
  <2>2. m \in 1..n /\ Stops(m)
    BY <2>1
  <2>3. ASSUME NEW j \in 1..(m - 1)
        PROVE  /\ ResultAt(rows, currentKey, previousKey, j) # "raises"
               /\ full \/ ~BadAt(rows, currentKey, previousKey, j)
    <3>1. j \in 1..n /\ j \in Nat /\ ~(m <= j)
      BY <1>1, <2>2
    <3>2. ~Stops(j)
      BY <2>1, <3>1
    <3> QED BY <3>2
  <2> HIDE DEF stops
  <2>4. CASE full \/ (LinkedAt(rows, m) /\ ResultAt(rows, currentKey, previousKey, m) = "raises")
    <3>1. ResultAt(rows, currentKey, previousKey, m) = "raises" /\ (full \/ LinkedAt(rows, m))
      BY <2>2, <2>4
    <3> QED BY <2>2, <2>3, <3>1, RaisedReport
  <2>5. CASE ~full /\ (~LinkedAt(rows, m) \/ ResultAt(rows, currentKey, previousKey, m) # "raises")
    <3>1. BadAt(rows, currentKey, previousKey, m)
      BY <2>2, <2>5 DEF BadAt
    <3>2. \A j \in 1..(m - 1) : ~BadAt(rows, currentKey, previousKey, j)
      BY <2>3, <2>5
    <3> QED BY <2>2, <2>5, <3>1, <3>2, StoppedReport
  <2> QED BY <2>4, <2>5
<1> QED BY <1>2, <1>3

\* The report of verify_chain is right, field by field and in both modes, of every table that
\* can be reached, edited or not: that the loop of verify_chain (operations.py), with its
\* breaks and its early raise, computes what ReportsRight defines without a loop.
THEOREM ReportsAlwaysRight == Spec => []ReportsRight
<1>1. ASSUME TypeInv PROVE ReportsRight
  <2>1. \A full \in BOOLEAN : RightReport(VerifyChain(rows, currentKey, previousKey, full), full)
    BY <1>1, ReportIsRight
  <2> QED BY <2>1, Zenon DEF ReportsRight, RightReport, Walked, MacChecked, Verifying
<1> QED BY <1>1, InitTypes, TypeStep, PTL DEF Spec
=============================================================================
