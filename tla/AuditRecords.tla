---------------------------- MODULE AuditRecords ----------------------------
(***************************************************************************)
(* The records of osivault.audit and the pure functions on them: the       *)
(* envelope check, the keyed checksum, the "latest row" query and the      *)
(* verification of one entry.                                              *)
(*                                                                         *)
(* A table is the SET of its rows, as in SQL; order comes from pk alone.   *)
(* The checksum is idealised: HmacSha256(k, p) is the pair <<k, p>>, so    *)
(* two checksums are equal only when key and payload are, and nobody makes *)
(* one without the key.  previous_hash of the first row is Genesis, the    *)
(* empty string of the code.                                               *)
(***************************************************************************)
EXTENDS Integers, FiniteSets

CONSTANTS
  Key,     \* HMAC keys
  NoKey,   \* None: a key that is not configured
  Body     \* what an entry says, as canonical_json spells it: timestamp, actor, tenant, resource, action, values

ASSUME KeyAssumption == NoKey \notin Key

-----------------------------------------------------------------------------
(* Envelopes.                                                              *)

FORMAT_VERSION == 1
ALLOWED_MAC_ALGORITHMS == {"HMAC-SHA-256"}

\* The envelope append and checkpoint write.  hash_alg and key_id are left out:
\* no function of the module reads them back.
StandardEnvelope == [mac_alg |-> "HMAC-SHA-256", fmt_ver |-> FORMAT_VERSION]

ValidateEnvelope(envelope) ==
  /\ envelope.mac_alg \in ALLOWED_MAC_ALGORITHMS
  /\ envelope.fmt_ver = FORMAT_VERSION

-----------------------------------------------------------------------------
(* Checksums and the payloads they authenticate.  pk is in neither payload.*)

Genesis == <<>>
HmacSha256(key, payload) == <<key, payload>>

ChecksumPayload(envelope, previous_hash, body) == <<envelope, previous_hash, body>>

\* Mutant: the signature does not cover the link to the checkpoint before.
CheckpointPayloadUnlinked(envelope, last_entry_hash, previous_checkpoint_hash, row_count, table_name) ==
  <<envelope, last_entry_hash, Genesis, row_count, table_name>>

CheckpointPayload(envelope, last_entry_hash, previous_checkpoint_hash, row_count, table_name) ==
  <<envelope, last_entry_hash, previous_checkpoint_hash, row_count, table_name>>

\* The row of an append: signed is the text of the values it was given, which the checksum
\* is over, stored the text of the values the JSON columns return, which verify_entry reads.
Entry(pk, key, previous_hash, signed, stored) ==
  [pk |-> pk, body |-> stored, envelope |-> StandardEnvelope, previous_hash |-> previous_hash,
   entry_hash |-> HmacSha256(key, ChecksumPayload(StandardEnvelope, previous_hash, signed))]

\* The checkpoint that checkpoint builds.
Checkpoint(pk, key, last_entry_hash, previous_checkpoint_hash, row_count, table) ==
  [pk |-> pk, last_entry_hash |-> last_entry_hash, row_count |-> row_count,
   previous_checkpoint_hash |-> previous_checkpoint_hash, envelope |-> StandardEnvelope,
   checkpoint_hash |->
     HmacSha256(key, CheckpointPayload(StandardEnvelope, last_entry_hash,
                                       previous_checkpoint_hash, row_count, table))]

-----------------------------------------------------------------------------
(* Queries: order_by("-pk").first() with the hash the callers take of it,  *)
(* and order_by("pk").                                                     *)

Latest(T) == CHOOSE r \in T : \A s \in T : s.pk <= r.pk
Below(T, pk) == {s \in T : s.pk < pk}

LastEntryHash(T) == IF T = {} THEN Genesis ELSE Latest(T).entry_hash
LastCheckpointHash(C) == IF C = {} THEN Genesis ELSE Latest(C).checkpoint_hash

\* The i-th row in pk order has i - 1 rows below it.
InPkOrder(T) ==
  [i \in 1..Cardinality(T) |-> CHOOSE r \in T : Cardinality(Below(T, r.pk)) = i - 1]

\* Every row carries the hash of the row before it in pk order: one chain, one root.
Linked(T) == \A r \in T : r.previous_hash = LastEntryHash(Below(T, r.pk))
LinkedCheckpoints(C) ==
  \A c \in C : c.previous_checkpoint_hash = LastCheckpointHash(Below(C, c.pk))

-----------------------------------------------------------------------------
(* verify_entry: which key verifies the entry, or why none does.  The      *)
(* envelope is refused before any key is asked for; an unconfigured        *)
(* current key raises ConfigurationError even when a previous key exists.  *)

EntryMac(key, entry) ==
  HmacSha256(key, ChecksumPayload(entry.envelope, entry.previous_hash, entry.body))

VerifyEntry(entry, current, previous) ==
  CASE ~ValidateEnvelope(entry.envelope) -> "refused"
    [] ValidateEnvelope(entry.envelope) /\ current = NoKey -> "raises"
    [] OTHER ->
         IF entry.entry_hash = EntryMac(current, entry) THEN "current"
         ELSE IF previous # NoKey /\ entry.entry_hash = EntryMac(previous, entry)
              THEN "previous" ELSE "mismatch"

Verified(entry, current, previous) ==
  VerifyEntry(entry, current, previous) \in {"current", "previous"}
=============================================================================
