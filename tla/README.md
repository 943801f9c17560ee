# A TLA+ model of OSIVault

OSIVault (`src/osivault`) is a Python/Django library: a chained and keyed audit trail,
signal handlers that fill it, field encryption, signatures and tokens. This directory
holds TLA+ modules translated from that code, TLC configurations that check them on
small instances, and proofs checked by TLAPS. Paths below are relative to the repository.

## The system and its parts

| component | state | operations | modules |
|---|---|---|---|
| append and checkpoint (`audit/operations.py`, `audit/models.py`) | one table of rows per audit model, one table of checkpoints, pk sequences, advisory locks | `append`, `checkpoint`, inside or outside transactions | `AuditRecords`, `AuditAppend`, `AuditLedger`, `AuditAppendRefinement`, `AuditRecordsProofs`, `AuditAppendProofs` |
| verification (`audit/operations.py`, `audit/crypto.py`) | reads the tables and the keys | `verify_entry`, `verify_chain`, `verify_checkpoint` | `AuditRecords`, `CanonicalJson`, `AuditVerification`, `AuditVerificationProofs` |
| key providers (`audit/keys.py`) | current and previous key | `get_current_key`, `get_previous_key`, `rotate`, `rotate_key` | `KeyRing`, `KeyRingProofs`, `AuditVerification` |
| record guards (`audit/models.py`, `audit/postgres.py`) | none | `save`, `delete`, `update` raise; trigger raises | not modelled |
| signals (`audit/signals.py`) | handlers per model, a thread-local actor and tenant | handlers of `save()` and `delete()`, `audit_bulk_delete`, middleware | `AuditedModel`, `AuditedModelProofs`, `RequestContext`, `RequestContextProofs` |
| fields (`fields/`) | encrypted columns; the key of the environment | `encrypt`, `decrypt`, `rotate_dek`, `get_prep_value`, `from_db_value`, `to_python` | `FieldVault`, `FieldVaultProofs` |
| sign (`sign/crypto.py`) | none | `sign`, `verify` | `SignEnvelope`, `Tokens`, `TokensProofs` |
| tokens (`tokens/jwt.py`) | none of its own: the application's keys, the documents and tokens in circulation | `issue`, `verify`, `jwks_document`, `rotate` | `SignEnvelope`, `Tokens`, `TokensProofs` |
| auth, watch | none | stubs that raise `NotImplementedError` | not modelled |

The handlers of `signals` run inside Django's `save()` and `delete()` and call `append`
once for the dedicated and once for the central audit model, with the actor and tenant of
the thread. `append` and `checkpoint` ask the key provider for a key, then take the
advisory lock of the audit table in a transaction. Verification reads what they committed.
`tokens.issue` builds on `sign` and `tokens.verify` on `sign.verify`. The encrypted fields
share nothing with the rest but the idea of an envelope.

What is hard in this code: sessions that interleave under READ COMMITTED; a lock that
belongs to the transaction, not to the call, so that `append` inside a transaction of the
application holds it on; rows invisible until commit while their pks are already spent;
savepoints; deadlocks between audit tables, and between audit tables and business rows;
key rotation while calls run; a provider without a lock; Django's signals, which in
autocommit mode run after the change they report is committed; queries evaluated twice;
columns, documents and tokens that outlive the keys and the configuration they were made with.

What makes each part correct: the rows of a table form one chain, only ever extended at
its end; a checkpoint describes a prefix the table had; verification reports the first
failure and nothing else, and an intact table with a valid checkpoint says what was
written; a rotation does not invalidate what was written just before it; a change and its
entries stand or fall together where the code promises it, and an entry names its own
request; a value saved in an encrypted field stays readable to whoever uses the same key
and to nobody else; a token is accepted if and only if it was issued, its time is not over
and its key is known.

## The modules

**AuditRecords**: rows, checkpoints and the pure functions on them. A table is a set of rows; only `pk`
orders it, as in SQL. A checksum is the pair of its key and its payload: different keys or
payloads, different checksums. Time stamp, actor, tenant, resource and values are one
`body`. An entry holds two of them: the one that was signed, in its checksum, and the one the JSON columns
return when it is verified. `extra_fields`, which is outside the checksum, is left out.

**AuditAppend**: `append` (`operations.py` 62-140) and `checkpoint` (277-336) as sessions
of PostgreSQL. A call passes the labels `lock`, `last`, (`count`, `prev_cp`,) `save` or
`save_cp`, and `commit`, one statement each: `AppendCall`/`CheckpointCall` read the key
before the lock; `TableLock` is `pg_advisory_xact_lock`; `SelectLast`, `CountRows`,
`SelectPrevCheckpoint` are the queries; `SaveRow` and `SaveCheckpoint` draw a pk and
insert. `BeginOuter`, `CommitOuter`, `RollbackOuter` are the application's `atomic()`
around calls; a call in it is a savepoint, so `CallRaises` undoes only the call and gives
back the lock only if the call was the first to take it. `Disconnect` and
`DeadlockDetected` are the server's. `RotateKey` may come between reading a key and saving. `ReadBack[b]` is
the body the columns return for `b`, another one for some bodies.

**AuditLedger** is the abstract promise: per table a sequence that transactions extend at
its end, and anchors that are lengths it had. **AuditAppendRefinement** maps the rows in pk
order to that sequence and the row counts of checkpoints to anchors.

**AuditVerification**: the life of one table with atomic calls, keys that rotate in memory
or are replaced in the environment at a restart, and edits of rows and checkpoints by raw SQL as
`tests/test_audit.py` makes them: a row altered, rehashed or deleted, the contents or the pks of two rows swapped, the table emptied
and filled again (`ReplaceTable`, then appends), a checkpoint deleted, made to describe another's table, or relinked
(`AlterCheckpoint` rewrites its hash and its link). `Walk` is the loop of `verify_chain`, as a function from the number of rows walked to the
report so far; `ReportsRight` compares its end with a definition without a loop.

**CanonicalJson**: the text `canonical_json` makes of a dictionary, and the dictionary the jsonb column returns.
`append` signs the text of the values it was given, verification the text of those it reads.
A dictionary is a set of members, keys are spelled out because `sort_keys` compares
integers as numbers and texts character by character, and a value stands for its JSON text.

**KeyRing**: `InMemoryKeyProvider` shared by threads; each load and store of an attribute
is a step. `verify_entry` asks for the current key, then for the previous one. The histories `alone` and
`meanwhile` tell rotations that overlap from those that follow each other.

**AuditedModel**: a model with the handlers of `register_audit_signal`, or without, and
`audit_bulk_delete`. A save is `PreSave` (SELECT of the old values), `UpdateRow` or
`UpdateNothing` and `InsertRow`, `AppendDedicated`, `AppendCentral`; each is a transaction of its own
unless `outer[w]`. `DeleteCall` and `Collect` open one, as Django's `Collector.delete` does when
handlers exist; `DeleteRow` waits for the row, passes over one that is gone, and post_delete
is sent in any case. Row locks and audit-table locks are what an open transaction has
pending. A call of `append` is one step here: that is what the refinement to `AuditLedger` shows it to be.

**RequestContext**: the thread-locals, `OSIVaultAuditMiddleware`, `resolve_actor` and `resolve_tenant`, with requests and
tasks that follow each other on a thread. Views, tasks and streamed bodies may call the functions that set and
clear the context, or not. Only the middleware clears it by itself, when the view ends: what a task or a streamed body leaves
(`leftActor`, `leftTenant`) the next job on the thread finds.

**SignEnvelope**: `sign` and `verify` without state. The text of an envelope is the sequence
of parts `split("$")` makes of it. A part is a word or the base64 of some bytes, and only its position says what `verify`
takes it for, so a key id that holds a `$` is several parts and moves those after it. The bytes of a signature name its key and
the bytes it was made of. Keys are of three types, or of none that the code knows.

**Tokens** extends it: an application that holds key pairs, adds new ones (`Rotate`) and issues tokens
(`Issue`), and verifiers that were given a public key (`Configure`) or have fetched a document of
any of the keys in any order (`Fetch`), and keep it however old it gets. `Reissue` passes the claims
`verify` returned to `issue` again, which keeps their `exp`. The clock has `TicksPerSecond`; the code
sees whole seconds (`now`). A token is its three parts, so parts of different tokens can be put together:
`Presented` has tokens with any algorithm, issued claims and claims nobody issued, issued signatures, and key ids made of words, signed
texts and signatures, among them those of four parts that take the places of payload and signature,
as far as the verifier finds a key for them.

**FieldVault**: columns of an `EncryptedTextField` or `EncryptedJSONField`, and processes that read and write
them under deployments: the key of the environment, the key of the field and whether it is
production. A save goes through `GetPrepValue`, a read through `FromDbValue`. A value can also be an envelope
(`SaveEnvelope`), which Django's `TextField.get_prep_value` passes through `to_python` first: the text field
seals it again with its own key when it can read it, and the JSON field stores it as it is. A rotation job of one column is
`RotateRead`, which reads it and calls `rotate_dek`, and `RotateWrite`; a save in between is overwritten. A job that fails between rows
is one that stops, and one that is run again meets its own results. `kept[c]` is what the column may hold: the value last saved or put back by a job.
Processes meet only in the columns and every deployment is open to each; one process runs at most one job,
and saves while it does, so one process in the instance makes every overlap of a job with saves.

## The runs

| run | instance | shows |
|---|---|---|
| `append_sessions` | 3 sessions, 1 table, 2 bodies of which one comes back changed, 2 keys, 1 rotation | one chain, visible in pk order, whoever fails; after a rotation the rows verify that came back as signed, and no other; `AuditAppend` implements `AuditLedger` |
| `append_checkpoints` | 2 sessions, 2 tables, 2 checkpoints, 1 append | checkpoints link, describe prefixes and anchor lengths of the ledger; every call ends, deadlocks included |
| `verify_chain` | 3 rows, 2 edits, 2 keys; dictionaries with text, integer and mixed keys | the report is right; intact rows were issued; when an unedited table stops and starts verifying |
| `verify_checkpoint` | 2 rows, 2 checkpoints, 2 edits, 1 key; the empty dictionary, and ones with texts and with a large float | valid checkpoints pin the table, also against a replacement of the same length, and have no gap, also when the next one is relinked; an unedited checkpoint is valid until the next append, but a row with such a float never verifies |
| `key_ring` | 2 rotators, 1 signer, 2 verifiers, 3 keys | the key a signer has read is kept unless rotations overlap; no false mismatch, even if they do |
| `signals_record_changes` | 2 workers, 1 row, 3 operations, autocommit and transactions | what the logs say of committed changes; in transactions the log of a row is its history |
| `signals_old_values` | 2 workers, 1 row, 2 saves | violated: old values that were not replaced |
| `bulk_delete_misses` | 2 rows, 1 save, 1 bulk delete, no handlers | violated: a row deleted without an entry |
| `signals_liveness` | 2 workers, 2 rows, saves and bulk deletes in transactions | every operation ends |
| `request_context` | 2 threads, 2 jobs, 1 user or none, 1 tenant or none | whom entries name, and what one job leaves to the next |
| `tokens` | 2 RSA keys, 1 Ed25519, 1 post-quantum, 1 other; 4 key ids of the application, 2 tokens, 4 half seconds; presented key ids of one part and of four | what was checked was issued, the token lives its time and is found in the document |
| `fields` | 2 fields, 2 texts, 1 document, 2 keys, 4 deployments | saved values survive, or a job puts back what it read; reads are right or fail; the same key reads |

Why the bounds are enough. The hazards of `AuditAppend` need two sessions on one table; the
third session lets one commit while another waits and a third has failed. A chain needs
three rows before a middle one can be wrong (`verify_chain`). In `verify_checkpoint` two rows make tables of one length with
different contents, and two checkpoints a gap: the first deleted and the second relinked to none, which takes both edits; the proofs are of any length. In `append_checkpoints` one table
takes an append and both take checkpoints, enough for sessions that lock them in opposite orders. `MaxPk` and `MaxCpPk`
stop new calls, not running ones, so a table grows beyond them. One rotation is
what `append_sessions` lets a call meet; `key_ring`, `verify_chain` and `verify_checkpoint` bound no key change.
Two edits combine any two of the tests' edits, or make an edit and undo it. Two workers on one row make every overlap of
two operations, three operations let a row be deleted, created again and deleted. A
context can leak from one job to the next, so two jobs suffice; one user is enough, since a request without
one is named anonymous. Two tokens are one and its
reissue, or two whose parts are mixed; two ticks to a second and a life of two seconds put
every issue and every verification before, on and after a full second; a document of two entries
has one entry before another. The two fields are one of each class, and cells under one context are
interchangeable to the code, so a third adds nothing; the keys are one that has to be cut and one that is
base64, next to the development key.

Deadlock in TLC's sense is checked for `AuditAppend`, `AuditVerification`, `KeyRing` and `FieldVault`. The systems of the other
modules really stop when their bounded operations, jobs and ticks are over (`CHECK_DEADLOCK FALSE`). Sessions and workers that wait
for each other are what `CallsEnd` and `OpsEnd` are about.

Fairness. The server runs a statement it was sent (weak fairness). A lock of PostgreSQL
goes to the waiters in the order of a queue, so a session for which it becomes free again
and again gets it (strong fairness of `TableLock` and of the statements that wait). The
deadlock detector runs after `deadlock_timeout` (weak fairness). A transaction the application opened
ends some day (strong fairness, since it may go on calling in between): `atomic()` is a
block with an end. Nothing is assumed of calls, errors, disconnections or rotations.

## What the checks found

* `InMemoryKeyProvider.rotate` (`keys.py` 99-104) stores without a lock. Two rotations at
  once may both keep the same outgoing key, and the key installed in between is lost with the entries
  it signed. `LoadedKeyKept` therefore speaks of rotations that do not overlap (`meanwhile`); asked of
  overlapping ones, TLC finds it violated. `NoFalseMismatch` needs no such limit.
* The old values of an UPDATE entry come from a SELECT before the UPDATE. Of two
  overlapping saves the second reports a change that did not take place, in autocommit and
  in transactions. In autocommit the order of entries may also differ from the order of writes.
* `audit_bulk_delete` lists the queryset, appends, and lets `queryset.delete()` query
  again. On a model without handlers a row that comes to match in between is deleted
  without an entry. On a model with handlers
  each deletion is recorded twice, once by each.
* `post_delete` is sent for a row another transaction deleted first, so one deletion may be recorded twice.
* `checkpoint` signs the hash column of the last row without verifying the chain. A checkpoint
  taken while the table was edited is valid again when the edit is undone, and says nothing of
  what the table held meanwhile: `ValidCheckpointPinsTable` has to ask that the
  table was intact when the checkpoint was taken.
* A checkpoint stops being valid at the next append (`live_ok` compares with the live last
  row), although its row count is compared with `>=`.
* `append` signs the JSON of the values it is given and verification that of what the column returns
  (`operations.py` 116 and 182). Integer keys sort as numbers the first time and as texts the second (2 and 10), and a
  float from 1e16 on is written with an exponent the first time and, after jsonb, as an integer: such an entry
  fails verification from the start, and the chain with it. Integer and text keys in one
  dictionary make `append` raise. `UneditedIntactWhileKeysHeld` names these values (`SurvivesColumn`), and
  `VerifiesAfterOneRotation` those bodies that do not come back as they were (`ReadBack`): both say that their rows never verify.
* Entries appended while a streamed response is produced name the instance's creator or `system`: the middleware has
  cleared the context by then. What the body sets itself stays on the thread.
* The setters come with no end (`signals.py` 29-48). A task that sets a tenant and does not clear it leaves it to the thread, and a
  request without tenant header is recorded under it: the middleware sets the tenant only when there is a header.
  The actor it always sets. `NothingLeaks` allows that and no more; `RequestsAreNamed` holds for the tenant of a header.
* `sign.verify` (`sign/crypto.py` 138-144) has no last `else` for ML-DSA-65, where `sign` raises a
  `TypeError`: with a key object of an unknown type it returns the envelope unchecked.
  `AcceptedWereIssued` states this exception.
* The charter (`docs/charter.md` 24 and 28) says that identifiers travel inside the authenticated bytes. A
  token's do, since its header is signed, and the proofs rest on it (`SigningInput`); in an envelope
  of `sign`, and of `encrypt`, algorithm and key id stand next to them, so `EnvelopesReadBack` promises the
  key id only for envelopes nobody has relabelled.
* `tokens.verify` puts the token's key id unescaped into the envelope (`jwt.py` 161), `sign.verify` reads that by position and
  ignores parts beyond the sixth (`sign/crypto.py` 96-104), and the payload it checked is not compared with the
  token's. If the key id holds a `$`, what was checked need not be the token's own header and claims: a verifier with a public key, or with
  a document of one RSA entry, then accepts claims nobody issued. `AcceptedWereIssued` promises that what was checked
  was issued, and only for a key id without a `$` that it is what the token says; without that condition TLC
  finds it violated. `issue` with such a key id takes another part for the signature (`jwt.py` 99-102), and its tokens are refused.
* `issue` keeps an `exp` that is there: claims issued again do not live longer, and `exp = None` never expires.
* `jwks_document` lists an Ed25519 key without its public part, so its tokens verify only with the key itself.
* With a key in the environment, the key arguments of `encrypt`, `decrypt` and `rotate_dek` and the fields' own
  are ignored: `rotate_dek(new_key=..., old_key=...)` then re-encrypts under the environment's key.
  `SameKeyReads` is stated with the key that decides (`Used`), so it holds of such a rotation and says nothing against it.
* A rotation job that does not lock the row may write the value it has read over one saved since: `SavedTextSurvives` and
  `ReadsWereSaved` promise the value last saved or put back by a job (`kept`).
* A context belongs to a field, not to a row: a former ciphertext of the field decrypts in any of its rows. That
  is why `ReadsWereSaved` promises of an edited column only a value saved in the field at some time.
* `AWSKMSProvider.get_master_key` returns a new data key at every call and drops its encrypted form. Nothing uses it.

## What is proved

`AuditAppendProofs`, for any number of sessions, tables, keys and bodies and any assignment of locks to
tables, also when two tables share one (assumptions: `SessionAssumption`, `LockAssumption`, `NoBodyAssumption`, `BoundAssumption`):
`TypeCorrect`, `ChainCorrect`, `CheckpointChainCorrect`, `AppendOnlyCorrect`. `ChainLinked`
is not inductive: a session that has read the last hash could be about to insert a
stale link, or hold an uncommitted row that a commit of another would precede.
`IInv` adds what excludes that. `LockInv`: who has read a table in a running call, or has
uncommitted rows in it, holds its lock. `FreshInv`: a lock that a failing call would give
back protects nothing the session still has to commit. `PkInv`: pks come from the sequence and
pending ones are above committed ones. `LinkInv`: what each session would commit is linked, and what it has read is still true. From `LockInv` there is
one user of a table at a time, so a commit only adds what its own session sees, and every other session's
view is unchanged or unused.

The same module goes on from `IInv`, with any number of appends and checkpoints.
`CheckpointsDescribePrefixesCorrect`: `checkpoint` reads last hash and count in two statements, so `PrefixInv` adds that what
a session is about to save, and what it has read so far, describes the rows it sees. `VerifiesAfterOneRotationCorrect`: a
call may sign with a key it read before a rotation, so `SignInv` adds that until the second
rotation every row, committed or not, and every call under way has a key the provider still
holds, and that the body of every row is what the columns return for the one that was signed.

`ImplementsLedgerCorrect` shows that `AuditAppend` implements `AuditLedger`. The ledger of a table is its
rows by rank, the i-th being the one with i - 1 rows below it; `RankIsTaken` shows by counting that there is exactly one,
and `InPkOrderGrows` that rows above all others come after them. `LedgerInv` adds to `IInv` and `PrefixInv` that pks
are unique in what a session sees, that rows have a body and a key, and that a checkpoint about to be committed counts
no fewer rows than are committed. Only a commit changes the ledgers, and `LaterRowsExtend` makes it a `Transaction`.

`AuditRecordsProofs` holds what these proofs and the next ones say of tables: rows in pk order (`InPkOrderRank`,
`InPkOrderIncreases`), the hash of the latest row, and the order by rank of any finite set with a total order
(`Ordered`), which serves rows and the keys of a dictionary. Induction over numbers is done on sets of numbers
(`EveryNumber`, `LeastNumber`), from the well-foundedness of `<` on Nat.

`AuditVerificationProofs`, for tables of any length, any values, keys and edits (assumptions: `DictionaryAssumption`,
`BodyAssumption`, `BoundAssumption`, `KeyAssumption`): all seven properties of `AuditVerification`.
`ReportsAlwaysRight` holds of every well-typed table. `WalkReports` says that the recursive definition of `Walk` has a solution, and
`GoesOn` is the invariant of the loop: the counts are those of the rows walked, the failure
remembered is the first, and the hash expected is that of the row before. A walk that goes on keeps it (`WalkGoesOn`), one that meets
its first failure reports it (`WalkFails`) or raises (`WalkRaises`), and `WholeReport`, `StoppedReport` and `RaisedReport`
compare each end with the definition without a loop.

The others rest on idealised checksums: equal ones have equal keys and payloads, so equal hashes mean equal chains up to
them (`SameHashSameChain`), back to the first row. `IntactMeansIssued`: a row's hash was issued or made without a key, whatever is edited
(`RowsIssued`). The two about checkpoints need that the hashes an editor knows are those
of checkpoints taken, or made without a key (`HashesKnown`), so that a checkpoint which verifies has what its hash was made of, its link included
(`VerifiedWasTaken`): a relinked one does not verify, unless it got the hash of one taken with that link.
`CheckpointChainComplete` then compares chains of checkpoints as `SameHashSameChain` does those of rows (`SameLastSameChain`), from
`SeenChains`, that what was there when a checkpoint was taken is what its link leads to;
`CheckpointPinsTable` from `SeenTables`, that a checkpoint taken of an intact table has the hash of a table with those contents.
Both unedited properties rest on `UneditedInv` (without edits the table is linked, each row was issued with its key and
its body read back, and each checkpoint describes a prefix). `IntactWhileKeysHeld` needs more: that a row verifies when its values
survive the column, and never otherwise. That is about the two orders of `sort_keys` (`TextOrder`,
`KeyOrder`): two dictionaries with the same text have the same members in the same places, so the text read back
is the text signed if and only if no value is respelled and the order by number is the order by text (`SurvivalIs`).

`AuditedModelProofs`, for any number of workers, rows, values and operations. `CentralFollowsCorrect` rests on `CentralInv`: a
worker about to append centrally has its entry in the dedicated log of the same
transaction. `ChangesLoggedCorrect` (hypothesis `Registered`, a model with handlers) rests on `ChangeInv`: a change is
in both logs where it is itself, committed or pending, or its entry is still `ToCome` from
the operation that made it; `Shape` keeps the operations' numbers apart.

`NoInventedEntriesCorrect` is for models `audit_bulk_delete` is not used on (hypothesis `NoBulk`). `NoneInvented`
says that an entry, logged, pending or still to come, tells of a change committed no later (`EntriesInv`). For deletions that
needs two more parts: a row an operation is going to delete is there, or was changed by its own transaction, or was deleted
meanwhile by another (`DoomedInv`), and nothing but a deletion makes a row absent (`DeletionInv`). What a statement sees of a row is the last
change of it; `MaxExists` gets that last one from the well-foundedness of `<` on Nat. `ModelTypeCorrect` needs the
same of types: `TypeInv` types what operations carry and transactions hold, from which entries and rows are made.

`LogTellsHistoryCorrect` (hypotheses `Registered` and `NoBulk`): each change of a row changed only in transactions has one
entry in each log, in the order of the changes. The invariant `HistoryInv` has four parts. `IdsInv`: what an
operation has done is all committed or all in one open transaction, so a commit adds numbers that no log and no other
transaction has. `PhaseInv`: an operation makes its change before its entry and appends to each log once, so the changes and the
entries of a transaction both come in the order of its operations (`Increasing`), and in the order of each other
(`IncreasingInOrder`, `InOrderConcat`). `AgreeInv`: entries and changes with one number say the same. An
operation outside of transactions appends only entries of rows it has changed there, which the property leaves out. That
there is an entry at all is `ChangesLogged`.

`KeyRingProofs`, for any number of keys, rotators, signers and verifiers: `TypeCorrect`,
`NoFalseMismatchCorrect` and `LoadedKeyKeptCorrect`. `HeldInv` says that a verifier which has given up on the current key finds a
key that was held throughout in `previous_key`; `SignInv`, how far a rotation that runs alone has
got, and where the key of a signer is then.

`RequestContextProofs`, for any number of threads, jobs, names and tenants: `TypeCorrect`, `NothingLeaksCorrect` and
`RequestsAreNamedCorrect`. The invariant `ContextInv`: the context of a thread is what its job brought or set, or what was left
on the thread by code outside views; in a view the actor is the job's own, and with a header the tenant; no two threads serve one job.

`TokensProofs`, for any keys, key ids, documents, claims, clock rates and lives: all five properties of
`Tokens`. `PartsOfEnvelope` says which part of an envelope is where, for key ids of one, two, three and more parts, and
`SignedVerifies` that `verify` accepts what `sign` made unless the key id has a `$`. For `AcceptedWereIssued`, `IssuedSignature` says that a part which
is a signature at all is one some token was issued with, and names its key and the bytes it was made of, and `VerifiedWasIssued` follows whatever the key id is
made of: the payload checked has such a signature, by the key resolved. With one part in the key id payload and signature are the token's own. `LivesItsTtl` needs `LifeInv`, that
the `exp` of a token is the second of its first issue plus `ttl_seconds` through any
number of reissues, and the arithmetic of `SecondsAndTicks` between ticks and seconds.

`FieldVaultProofs`, for any processes, deployments, keys, key lengths, fields and values, under the assumption that fields have different
contexts (`ContextAssumption`; the code leaves them to the application): all four properties of `FieldVault`. The invariant `VaultInv` adds to `SavedTextSurvives`
that every column holds a value of the field its context names (`Traced`), that an unedited envelope is under the
key its writer went by (`LockedByWriter`), and the same of what a job is about to write (`JobsTraced`). Every writer leaves
what `Writes` describes, so one lemma, `WriteKeeps`, serves saves, envelopes and rotations.

Only model-checked: liveness (`CallsEnd`, `OpsEnd`), which is out of the prover's reach. Of a model on which
`audit_bulk_delete` is used no more is claimed than `CentralFollowsDedicated` and `ChangesLogged`, proved without `NoBulk`: its
entries come before its deletions, whatever becomes of them, and beside those of the handlers.

## What is left out, and why

* SQLite: `_table_lock` does nothing there, and the database lets one transaction write at a time; the
  tests of concurrency run on PostgreSQL only (`README.md` 33).
* The row lock of `select_for_update`: only sessions that hold the advisory lock take it.
* Savepoints of the application wider than one call.
* Key ids and `hash_alg`: written, and never read back by the verification.
* The time stamp: taken before the lock, so not monotonic along the chain; no code compares it.
* Serialisation: nested dictionaries, the spelling of values other than large floats, and the form
  `serialize_model_instance` gives an instance.
* The record guards: `save`, `delete`, the queryset methods and the trigger raise on one condition each.
* An application that catches an exception inside its own `atomic()` and commits the rest, in
  `AuditedModel`; there the change stays without its entry, as in autocommit.
* `SearchHash`: a keyed hash of its argument and a salt. `AWSKMSProvider`: nothing calls it.
* Of the encrypted fields: a text with the header of another algorithm, which reads as plain text; JSON scalars and integer
  keys, which `full_clean` and `json.dumps` turn into other types; the fresh data key inside an envelope.
* Of tokens: Base64 and JSON, malformed input, the claims no function reads.
* `auth` and `watch`: stubs.

## Plan

Done: append, checkpoint, verification with canonical JSON, keys; the signals; signatures,
tokens and encrypted fields; proofs of every safety property and every action property of the passing runs.

Left: a composition, `AuditedModel` over `AuditAppend`'s statements instead of `AuditLedger`'s.
