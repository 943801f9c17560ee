-------------------------- MODULE AuditVerification --------------------------
(***************************************************************************)
(* verify_chain and verify_checkpoint of osivault.audit over the life of   *)
(* one audit table: entries and checkpoints are appended, keys are rotated *)
(* in memory or replaced in the environment, and the table is edited out   *)
(* of band, as the tests do with raw SQL on a table without the trigger.   *)
(* Calls are atomic here; their interleavings are AuditAppend's subject.   *)
(* The body of a row is the text verify_entry makes of its values.         *)
(***************************************************************************)
EXTENDS AuditRecords, CanonicalJson

CONSTANTS
  Values,     \* the dictionaries append is given
  MaxPk,      \* bound on entries ever appended
  MaxCpPk,    \* bound on checkpoints ever taken
  MaxEdits    \* bound on out-of-band edits

ASSUME DictionaryAssumption == \A values \in Values : IsDictionary(values)
ASSUME BodyAssumption ==
  \A values \in Values : Sortable(values) => CanonicalJson(Returned(values)) \in Body
ASSUME BoundAssumption == MaxPk \in Nat /\ MaxCpPk \in Nat /\ MaxEdits \in Nat

VARIABLES
  rows, checkpoints,        \* the audit table and its checkpoints
  rowSeq, cpSeq,            \* pk sequences
  provider,                 \* "memory" (InMemoryKeyProvider) or "env" (EnvVarKeyProvider)
  currentKey, previousKey,  \* its keys; NoKey is a missing environment variable
  edits,                    \* how many out-of-band edits there were
  issued,                   \* history: the entry_hash of every entry append returned, with its values
  seen                      \* history: what each checkpoint was taken of

keys == <<provider, currentKey, previousKey>>
vars == <<rows, checkpoints, rowSeq, cpSeq, keys, edits, issued, seen>>

TableName == "audit_log"
NoPk == 0
Contents(T) == [i \in 1..Cardinality(T) |-> InPkOrder(T)[i].body]

-----------------------------------------------------------------------------
(* verify_chain: a walk in pk order.  The report is the accumulator; done  *)
(* marks a break of the loop, raised a ConfigurationError out of it.       *)

Untouched == [is_intact |-> TRUE, total_count |-> 0, current_key_count |-> 0,
              previous_key_count |-> 0, failed_pk |-> NoPk, failure_reason |-> "none",
              expected_previous_hash |-> Genesis, done |-> FALSE, raised |-> FALSE]

\* Only the first failure is remembered.
Failed(report, pk, reason) ==
  [report EXCEPT !.is_intact = FALSE,
                 !.failed_pk = IF report.failed_pk = NoPk THEN pk ELSE @,
                 !.failure_reason = IF report.failed_pk = NoPk THEN reason ELSE @]

CheckLink(report, entry) ==
  LET counted == [report EXCEPT !.total_count = @ + 1] IN
  IF entry.previous_hash = report.expected_previous_hash
  THEN counted ELSE Failed(counted, entry.pk, "previous_hash mismatch")

\* Mutant: a row the previous key verifies counts as failed.
CheckMacCurrentOnly(report, entry, result) ==
  IF result = "current" THEN [report EXCEPT !.current_key_count = @ + 1]
  ELSE Failed(report, entry.pk, "MAC verification failed")

CheckMac(report, entry, result) ==
  CASE result = "current"  -> [report EXCEPT !.current_key_count = @ + 1]
    [] result = "previous" -> [report EXCEPT !.previous_key_count = @ + 1]
    [] OTHER               -> Failed(report, entry.pk, "MAC verification failed")

\* Mutant: a row that fails its link is not taken as the next predecessor.
WalkRowKeepingExpected(report, entry, current, previous, full) ==
  LET linked == CheckLink(report, entry)
      result == VerifyEntry(entry, current, previous)
      checked == CheckMac(linked, entry, result) IN
  CASE report.done -> report
    [] ~report.done /\ result = "raises" -> [linked EXCEPT !.done = TRUE, !.raised = TRUE]
    [] OTHER -> IF checked.is_intact
                THEN [checked EXCEPT !.expected_previous_hash = entry.entry_hash]
                ELSE [checked EXCEPT !.done = ~full]

\* Mutant: the link is checked, the MAC is not.
WalkRowNoMac(report, entry, current, previous, full) ==
  [CheckLink(report, entry) EXCEPT !.expected_previous_hash = entry.entry_hash]

WalkRow(report, entry, current, previous, full) ==
  LET linked == CheckLink(report, entry)
      stopsAtLink == ~full /\ entry.previous_hash # report.expected_previous_hash
      result == VerifyEntry(entry, current, previous)
      stopsAtMac == ~full /\ result \notin {"current", "previous"} IN
  CASE report.done -> report
    [] ~report.done /\ stopsAtLink -> [linked EXCEPT !.done = TRUE]
    [] ~report.done /\ ~stopsAtLink /\ result = "raises" ->
         [linked EXCEPT !.done = TRUE, !.raised = TRUE]
    [] OTHER ->
         [CheckMac(linked, entry, result) EXCEPT
            !.done = stopsAtMac,
            !.expected_previous_hash = IF stopsAtMac THEN @ ELSE entry.entry_hash]

\* The report after each of the rows, in pk order.
Walk(T, current, previous, full) ==
  LET ordered == InPkOrder(T)
      reports[i \in 0..Cardinality(T)] ==
        IF i = 0 THEN Untouched
        ELSE WalkRow(reports[i - 1], ordered[i], current, previous, full)
  IN reports

VerifyChain(T, current, previous, full) == Walk(T, current, previous, full)[Cardinality(T)]

Intact(T, current, previous) ==
  LET report == VerifyChain(T, current, previous, TRUE) IN report.is_intact /\ ~report.raised

-----------------------------------------------------------------------------
(* verify_checkpoint: signature, link to the checkpoint before, live table.*)

CheckpointMac(key, cp) ==
  HmacSha256(key, CheckpointPayload(cp.envelope, cp.last_entry_hash,
                                    cp.previous_checkpoint_hash, cp.row_count, TableName))

MacOk(cp, current, previous) ==
  \/ cp.checkpoint_hash = CheckpointMac(current, cp)
  \/ previous # NoKey /\ cp.checkpoint_hash = CheckpointMac(previous, cp)

ChainOk(cp, C) == LastCheckpointHash(Below(C, cp.pk)) = cp.previous_checkpoint_hash

\* Mutants: only the number of rows is compared; a table that grew is as good.
LiveOkCountOnly(cp, T) == Cardinality(T) = cp.row_count
LiveOkGrown(cp, T) == Cardinality(T) >= cp.row_count
LiveOk(cp, T) == LastEntryHash(T) = cp.last_entry_hash /\ Cardinality(T) >= cp.row_count

\* is_valid of the report of verify_checkpoint; without a current key it raises instead.
CheckpointValid(cp, T, C, current, previous) ==
  /\ ValidateEnvelope(cp.envelope) /\ current # NoKey
  /\ MacOk(cp, current, previous) /\ ChainOk(cp, C) /\ LiveOk(cp, T)

-----------------------------------------------------------------------------
Init ==
  /\ rows = {} /\ checkpoints = {} /\ rowSeq = 0 /\ cpSeq = 0
  /\ provider \in {"memory", "env"}
  /\ currentKey \in Key /\ previousKey = NoKey
  /\ edits = 0 /\ issued = {} /\ seen = {}

\* Mutant: pks are counted instead of drawn from a sequence.
AppendEntryCountingPks(values) ==
  LET written == Entry(Cardinality(rows) + 1, currentKey, LastEntryHash(rows),
                       CanonicalJson(values), CanonicalJson(Returned(values))) IN
  /\ rowSeq < MaxPk /\ currentKey # NoKey /\ Sortable(values)
  /\ rowSeq' = rowSeq + 1
  /\ rows' = rows \cup {written}
  /\ issued' = issued \cup {[entry_hash |-> written.entry_hash, values |-> values]}
  /\ UNCHANGED <<checkpoints, cpSeq, keys, edits, seen>>

\* append; get_current_key raises ConfigurationError when the variable is missing.  The
\* checksum is over the values passed in, the row has those the column returns.
AppendEntry(values) ==
  LET written == Entry(rowSeq + 1, currentKey, LastEntryHash(rows),
                       CanonicalJson(values), CanonicalJson(Returned(values))) IN
  /\ rowSeq < MaxPk /\ currentKey # NoKey /\ Sortable(values)
  /\ rowSeq' = rowSeq + 1
  /\ rows' = rows \cup {written}
  /\ issued' = issued \cup {[entry_hash |-> written.entry_hash, values |-> values]}
  /\ UNCHANGED <<checkpoints, cpSeq, keys, edits, seen>>

CheckpointHashes == {c.checkpoint_hash : c \in checkpoints}
AllVerify(C) == \A c \in C : MacOk(c, currentKey, previousKey) /\ ChainOk(c, C)

\* checkpoint
TakeCheckpoint ==
  LET cp == Checkpoint(cpSeq + 1, currentKey, LastEntryHash(rows),
                       LastCheckpointHash(checkpoints), Cardinality(rows), TableName) IN
  /\ cpSeq < MaxCpPk /\ currentKey # NoKey
  /\ cpSeq' = cpSeq + 1
  /\ checkpoints' = checkpoints \cup {cp}
  /\ seen' = seen \cup {[checkpoint_hash |-> cp.checkpoint_hash,
                         contents |-> Contents(rows),
                         intact |-> Intact(rows, currentKey, previousKey),
                         earlier |-> CheckpointHashes,
                         complete |-> AllVerify(checkpoints)]}
  /\ UNCHANGED <<rows, rowSeq, keys, edits, issued>>

-----------------------------------------------------------------------------
(* Keys.                                                                   *)

\* rotate_key on an InMemoryKeyProvider; an EnvVarKeyProvider refuses.
RotateKey(k) ==
  /\ provider = "memory"
  /\ previousKey' = currentKey /\ currentKey' = k
  /\ UNCHANGED <<provider, rows, checkpoints, rowSeq, cpSeq, edits, issued, seen>>

\* Environment-backed keys change by setting variables and restarting; either may be
\* unset, and the two need not be the pair the code's message asks for.
Redeploy(current, previous) ==
  /\ provider = "env"
  /\ currentKey' = current /\ previousKey' = previous
  /\ UNCHANGED <<provider, rows, checkpoints, rowSeq, cpSeq, edits, issued, seen>>

-----------------------------------------------------------------------------
(* Out-of-band edits, as the tests make them.                              *)

EditRows(newRows) ==
  /\ edits < MaxEdits /\ edits' = edits + 1
  /\ rows' = newRows
  /\ UNCHANGED <<checkpoints, rowSeq, cpSeq, keys, issued, seen>>

EditCheckpoints(newCps) ==
  /\ edits < MaxEdits /\ edits' = edits + 1
  /\ checkpoints' = newCps
  /\ UNCHANGED <<rows, rowSeq, cpSeq, keys, issued, seen>>

\* A digest made without a key, as in test_unkeyed_rehash_attack.
Unkeyed(payload) == HmacSha256(NoKey, payload)
Replace(T, r, s) == (T \ {r}) \cup {s}

AlterBody(r, body) == EditRows(Replace(rows, r, [r EXCEPT !.body = body]))
Rehash(r, body) ==
  EditRows(Replace(rows, r, [r EXCEPT !.body = body, !.entry_hash =
             Unkeyed(ChecksumPayload(r.envelope, r.previous_hash, body))]))
AlterEnvelope(r) == EditRows(Replace(rows, r, [r EXCEPT !.envelope.mac_alg = "HMAC-SHA-512"]))
DeleteRow(r) == EditRows(rows \ {r})
SwapContents(r, s) ==
  EditRows((rows \ {r, s}) \cup {[r EXCEPT !.body = s.body], [s EXCEPT !.body = r.body]})
SwapRows(r, s) == EditRows((rows \ {r, s}) \cup {[r EXCEPT !.pk = s.pk], [s EXCEPT !.pk = r.pk]})
ReplaceTable == EditRows({})

\* The hash of a checkpoint and its link are rewritten, with hashes that are in the table
\* or were made without a key: a checkpoint is spoilt, chained to another one, or mended.
KnownHash ==
  CheckpointHashes \cup {c.previous_checkpoint_hash : c \in checkpoints} \cup {Genesis, Unkeyed(Genesis)}
AlterCheckpoint(c, hash, previous) ==
  EditCheckpoints(Replace(checkpoints, c,
    [c EXCEPT !.checkpoint_hash = hash, !.previous_checkpoint_hash = previous]))

\* A checkpoint is made to describe the table another one describes.
Redescribe(c, d) ==
  EditCheckpoints(Replace(checkpoints, c,
    [c EXCEPT !.row_count = d.row_count, !.last_entry_hash = d.last_entry_hash]))
DeleteCheckpoint(c) == EditCheckpoints(checkpoints \ {c})

Edit ==
  \/ \E r \in rows, b \in Body : AlterBody(r, b) \/ Rehash(r, b)
  \/ \E r \in rows : AlterEnvelope(r) \/ DeleteRow(r)
  \/ \E r, s \in rows : r.pk < s.pk /\ (SwapContents(r, s) \/ SwapRows(r, s))
  \/ ReplaceTable
  \/ \E c \in checkpoints, hash, previous \in KnownHash : AlterCheckpoint(c, hash, previous)
  \/ \E c, d \in checkpoints : Redescribe(c, d)
  \/ \E c \in checkpoints : DeleteCheckpoint(c)

Next ==
  \/ \E values \in Values : AppendEntry(values)
  \/ TakeCheckpoint
  \/ \E k \in Key : RotateKey(k)
  \/ \E k, j \in Key \cup {NoKey} : Redeploy(k, j)
  \/ Edit

Spec == Init /\ [][Next]_vars

-----------------------------------------------------------------------------
(* Properties.                                                             *)

TypeOK ==
  /\ \A r \in rows : r.pk \in 1..rowSeq /\ r.body \in Body
  /\ \A c \in checkpoints : c.pk \in 1..cpSeq /\ c.row_count \in 0..MaxPk
  /\ \A r, s \in rows : r.pk = s.pk => r = s
  /\ rowSeq \in 0..MaxPk /\ cpSeq \in 0..MaxCpPk
  /\ currentKey \in Key \cup {NoKey} /\ previousKey \in Key \cup {NoKey}
  /\ edits \in 0..MaxEdits

Unlinked == {r \in rows : r.previous_hash # LastEntryHash(Below(rows, r.pk))}
Result(r) == VerifyEntry(r, currentKey, previousKey)
Unverified == {r \in rows : Result(r) \in {"refused", "mismatch"}}
FirstBad ==
  LET bad == Unlinked \cup Unverified
  IN IF bad = {} THEN NoPk ELSE (CHOOSE r \in bad : \A s \in bad : r.pk <= s.pk).pk

\* The report of verify_chain is right, field by field, in both modes: intact exactly
\* when nothing is unlinked or unverified, the failed pk is the first that is, the
\* counts are those of the rows walked, and a missing key raises instead of reporting
\* (verify_chain, operations.py; the break statements stop at the first failure).
ReportsRight ==
  LET first == FirstBad
      linked == rows \ Unlinked IN
  \A full \in BOOLEAN :
    LET report == VerifyChain(rows, currentKey, previousKey, full)
        walked == IF full \/ first = NoPk THEN rows ELSE {r \in rows : r.pk <= first}
        macChecked == IF full THEN walked ELSE walked \cap linked
        Verifying(key) == {r \in macChecked : Result(r) = key} IN
    /\ report.raised <=> Verifying("raises") # {}
    /\ ~report.raised =>
         /\ report.is_intact <=> first = NoPk
         /\ report.failed_pk = first
         /\ report.total_count = Cardinality(walked)
         /\ report.current_key_count = Cardinality(Verifying("current"))
         /\ report.previous_key_count = Cardinality(Verifying("previous"))
         /\ \A r \in rows : r.pk = first =>
              report.failure_reason = IF r \in linked THEN "MAC verification failed"
                                      ELSE "previous_hash mismatch"

\* A table that verify_chain calls intact holds only entries that append issued.
IntactRowsWereIssued ==
  Intact(rows, currentKey, previousKey) => \A r \in rows : \E i \in issued : i.entry_hash = r.entry_hash

\* The calls of checkpoint that returned the hash of c.
TakenAs(c) == {s \in seen : s.checkpoint_hash = c.checkpoint_hash}

\* When a checkpoint is valid and the chain intact, the table says exactly what it said
\* when the checkpoint was taken: no edit, truncation or replacement gets through both
\* (test_table_replacement_checkpoint).  The table must have been intact THEN as well:
\* checkpoint signs the hash column of the last row without verifying the chain, so one
\* taken of an edited table stays valid when the edit is undone.
ValidCheckpointPinsTable ==
  Intact(rows, currentKey, previousKey) =>
    \A c \in checkpoints :
      CheckpointValid(c, rows, checkpoints, currentKey, previousKey) =>
        /\ TakenAs(c) # {}
        /\ \A s \in TakenAs(c) : s.intact => Contents(rows) = s.contents

\* When a checkpoint and those before it verify and link, none of the checkpoints that
\* were there when it was taken is missing, also not if the next one was chained to the one
\* before the gap (test_checkpoint_chain, verify_checkpoint).  They must have verified THEN
\* as well: checkpoint chains to whatever hash is in the column of the last one.
ValidCheckpointsComplete ==
  currentKey # NoKey =>
    \A c \in checkpoints :
      AllVerify({d \in checkpoints : d.pk <= c.pk}) =>
        /\ TakenAs(c) # {}
        /\ \A s \in TakenAs(c) : s.complete => s.earlier \subseteq CheckpointHashes

KeyOf(hash) == hash[1]
KeysHeld == {currentKey, previousKey} \ {NoKey}

\* No float with an exponent, and integer keys in the same order as numbers and as texts.
SurvivesColumn(values) ==
  /\ \A m \in values : m.value # ExponentFloat
  /\ \A m, n \in values :
       KeyBefore(m.key, n.key) => TextBefore(m.key.spelling, n.key.spelling)

\* A table nobody edited is intact exactly as long as the key of every row is one of the
\* two held and the JSON column returned its values in the form that was signed: the
\* second rotation after a row was written makes the chain fail, and a rotation back or a
\* redeployment with the old key mends it (test_key_rotation), but nothing mends a row whose
\* values have integer keys like 2 and 10, or a float from 1e16 on.
UneditedIntactWhileKeysHeld ==
  edits = 0 /\ currentKey # NoKey =>
    (Intact(rows, currentKey, previousKey) <=>
       \A r \in rows :
         /\ KeyOf(r.entry_hash) \in KeysHeld
         /\ \E i \in issued : i.entry_hash = r.entry_hash /\ SurvivesColumn(i.values))

\* A checkpoint of such a table is valid exactly until the next append: the stored hash
\* is compared with the LIVE last row, so the row count never grows past it.
UneditedCheckpointValidUntilAppend ==
  edits = 0 /\ currentKey # NoKey =>
    \A c \in checkpoints :
      CheckpointValid(c, rows, checkpoints, currentKey, previousKey) <=>
        KeyOf(c.checkpoint_hash) \in KeysHeld /\ Cardinality(rows) = c.row_count
=============================================================================
