----------------------------- MODULE FieldVault -----------------------------
(***************************************************************************)
(* osivault.fields: encrypted columns written and read by processes that   *)
(* are deployed with different keys.  A key is the record of its bytes and *)
(* of what they are as base64; an empty key is no key.  A column holds     *)
(* <<"null">>, <<"plain", v>> from before the field was encrypted, an      *)
(* envelope <<"env", master key, context, v>>, or <<"bad">>, text with the *)
(* header of an envelope that no key decrypts.  The fresh data key inside  *)
(* an envelope is left out: only the master key decides who can read it.   *)
(***************************************************************************)
EXTENDS Naturals, Sequences

CONSTANTS
  Process, Deployment,  \* deployments: [env, given, production]
  Cell, TextCell,       \* a row's encrypted fields; those of class EncryptedTextField
  Context,              \* Context[c]: the context of c's field
  Value, Null,          \* texts and JSON documents; None
  ValueOf,              \* ValueOf[c]: those that c's field takes
  Key,                  \* key arguments: [raw, decoded]
  DevKey, KeySize,      \* the development key; the length of a master key in bytes
  Raised                \* an exception

NoKey == [raw |-> <<>>, decoded |-> <<>>]  \* None or the empty text
MasterKey == [1..KeySize -> 0..255]

ASSUME KeyAssumption ==
  /\ KeySize \in Nat \ {0} /\ DevKey \in MasterKey
  /\ \A k \in Key : k.raw \in Seq(0..255) \ {<<>>} /\ k.decoded \in Seq(0..255)
  /\ \A d \in Deployment : {d.env, d.given} \subseteq Key \cup {NoKey} /\ d.production \in BOOLEAN
ASSUME ValueAssumption == Null \notin Value /\ Raised \notin Value /\ Raised # Null
                          /\ \A c \in Cell : ValueOf[c] \subseteq Value
ASSUME RaisedAssumption == Raised \notin MasterKey
ASSUME TextAssumption == TextCell \subseteq Cell
\* Contexts are given to fields: the cells of the model are fields with contexts of their own.
ASSUME ContextAssumption == \A c, d \in Cell : Context[c] = Context[d] => c = d

VARIABLES
  column,  \* column[c]: what the database holds
  dep,     \* dep[p]: the environment and model code process p runs with
  job,     \* job[p]: what p's rotation job is about to write, into which cell, and
           \* (history) the values the cell could hold when it was read
  kept,    \* history: kept[c], the values c may hold: the one last saved or put back by a
           \* job, or once the table was edited any saved before
  saved,   \* history: saved[c], every value saved in c
  edited,  \* history: cells written by raw SQL since their last save
  lockedBy \* history: lockedBy[c], the key the last writer of c used, as given

vars == <<column, dep, job, kept, saved, edited, lockedBy>>
NoRotation == [cell |-> "none"]

-----------------------------------------------------------------------------
(* Keys: LocalKeyringProvider, the only provider encrypt and decrypt use.  *)

\* Mutant: keys are filled up but not cut.
FormatKeyUncut(k) ==
  IF Len(k.decoded) = KeySize THEN k.decoded
  ELSE IF Len(k.raw) > KeySize THEN k.raw
  ELSE [i \in 1..KeySize |-> IF i <= Len(k.raw) THEN k.raw[i] ELSE 0]

\* Bytes, or text that is not base64 of a whole key (decoded = <<>> for bytes), are
\* filled up with zeros and cut.
FormatKey(k) ==
  IF Len(k.decoded) = KeySize THEN k.decoded
  ELSE [i \in 1..KeySize |-> IF i <= Len(k.raw) THEN k.raw[i] ELSE 0]

\* Mutant: an explicit key wins over the environment's.
GetMasterKeyExplicit(d, given) ==
  IF given.raw # <<>> THEN FormatKey(given)
  ELSE IF d.env.raw # <<>> THEN FormatKey(d.env)
  ELSE IF d.production THEN Raised
  ELSE DevKey

GetMasterKey(d, given) ==
  IF d.env.raw # <<>> THEN FormatKey(d.env)
  ELSE IF given.raw # <<>> THEN FormatKey(given)
  ELSE IF d.production THEN Raised
  ELSE DevKey

Encrypt(d, key, context, v) == <<"env", GetMasterKey(d, key), context, v>>

\* Mutant: the context is not authenticated.
DecryptAnyContext(d, key, context, e) ==
  IF e[1] = "env" /\ e[2] = GetMasterKey(d, key) THEN e[4] ELSE Raised

Decrypt(d, key, context, e) ==
  IF e[1] = "env" /\ e[2] = GetMasterKey(d, key) /\ e[3] = context THEN e[4] ELSE Raised

-----------------------------------------------------------------------------
(* The fields.  A value assigned to an attribute is a <<"value", v>>, Null *)
(* included, or text with the header of an envelope, <<"env", ...>>.       *)

\* TextField.get_prep_value calls to_python, which decrypts an envelope it can read and
\* returns any other; what then still has the header is stored as it is.
TextPrepValue(d, c, x) ==
  LET text == IF x[1] = "env" THEN Decrypt(d, d.given, Context[c], x) ELSE x[2] IN
  IF text = Raised THEN x ELSE Encrypt(d, d.given, Context[c], text)

JsonPrepValue(d, c, x) == IF x[1] = "env" THEN x ELSE Encrypt(d, d.given, Context[c], x[2])

\* Mutant: an envelope is encrypted like any other text.
GetPrepValueTwice(d, c, x) ==
  IF x = <<"value", Null>> THEN <<"null">>
  ELSE Encrypt(d, d.given, Context[c], IF x[1] = "env" THEN x ELSE x[2])

GetPrepValue(d, c, x) ==
  IF x = <<"value", Null>> THEN <<"null">>
  ELSE IF c \in TextCell THEN TextPrepValue(d, c, x) ELSE JsonPrepValue(d, c, x)

\* encrypt is called for x, and finds a key.
PrepRaises(d, c, x) == LET stored == GetPrepValue(d, c, x) IN stored[1] = "env" /\ stored[2] = Raised

FromDbValue(d, c) ==
  CASE column[c][1] = "null"  -> Null
    [] column[c][1] = "plain" -> column[c][2]
    [] column[c][1] = "env"   -> Decrypt(d, d.given, Context[c], column[c])
    [] column[c][1] = "bad"   -> Raised

\* The key argument that decides, given the environment: what GetMasterKey goes by.
Used(d, key) == IF d.env # NoKey THEN d.env ELSE key

-----------------------------------------------------------------------------
(* Processes and the database.                                             *)

Init ==
  /\ column \in [Cell -> {<<"null">>} \cup ({"plain"} \X Value)]
  /\ \A c \in Cell : column[c] # <<"null">> => column[c][2] \in ValueOf[c]
  /\ dep \in [Process -> Deployment] /\ job = [p \in Process |-> NoRotation]
  /\ saved = [c \in Cell |-> {IF column[c] = <<"null">> THEN Null ELSE column[c][2]}]
  /\ kept = saved
  /\ edited = {}
  /\ lockedBy = [c \in Cell |-> NoKey]

\* The row is saved with x in c, which stands for the value v.
Store(p, c, x, v) ==
  /\ ~PrepRaises(dep[p], c, x)
  /\ column' = [column EXCEPT ![c] = GetPrepValue(dep[p], c, x)]
  /\ kept' = [kept EXCEPT ![c] = {v}] /\ saved' = [saved EXCEPT ![c] = @ \cup {v}]
  /\ edited' = edited \ {c}
  /\ UNCHANGED <<dep, job>>

Save(p, c, v) ==
  /\ Store(p, c, <<"value", v>>, v)
  /\ lockedBy' = [lockedBy EXCEPT ![c] = Used(dep[p], dep[p].given)]

\* The row is read and saved again: an error on reading ends it.  full_clean in between
\* changes nothing here: to_python returns values that are no envelopes unchanged.
LoadAndSave(p, c) == FromDbValue(dep[p], c) # Raised /\ Save(p, c, FromDbValue(dep[p], c))

\* What is assigned was encrypted, under some deployment and with a key of the caller's choice.
SaveEnvelope(p, c, d, key, v) ==
  LET e == Encrypt(d, key, Context[c], v)
      stored == GetPrepValue(dep[p], c, e) IN
  /\ e[2] # Raised
  /\ Store(p, c, e, v)
  /\ lockedBy' = [lockedBy EXCEPT ![c] = IF stored = e THEN Used(d, key)
                                         ELSE Used(dep[p], dep[p].given)]

\* A job reads the column as it is and calls rotate_dek.  When that raises, as it does when
\* the job is repeated, the row is left alone.
RotateRead(p, c, new, old) ==
  LET v == Decrypt(dep[p], old, Context[c], column[c]) IN
  /\ job[p] = NoRotation /\ v # Raised /\ GetMasterKey(dep[p], new) # Raised
  /\ job' = [job EXCEPT ![p] = [cell |-> c, text |-> Encrypt(dep[p], new, Context[c], v),
                               key |-> Used(dep[p], new), held |-> kept[c]]]
  /\ UNCHANGED <<column, dep, kept, saved, edited, lockedBy>>

\* Then it writes the result, over what was saved in between if it did not lock the row.
RotateWrite(p) ==
  LET c == job[p].cell IN
  /\ job[p] # NoRotation /\ job' = [job EXCEPT ![p] = NoRotation]
  /\ column' = [column EXCEPT ![c] = job[p].text]
  /\ lockedBy' = [lockedBy EXCEPT ![c] = job[p].key]
  /\ kept' = [kept EXCEPT ![c] = job[p].held]
  /\ UNCHANGED <<dep, saved, edited>>

\* The process is replaced: a job it was running is gone.
Redeploy(p, d) ==
  /\ dep' = [dep EXCEPT ![p] = d] /\ job' = [job EXCEPT ![p] = NoRotation]
  /\ UNCHANGED <<column, kept, saved, edited, lockedBy>>

\* Raw SQL: the ciphertext of one column is copied into another, or damaged.
EditColumn(c, content) ==
  /\ column' = [column EXCEPT ![c] = content]
  /\ edited' = edited \cup {c} /\ kept' = [kept EXCEPT ![c] = saved[c]]
  /\ lockedBy' = [lockedBy EXCEPT ![c] = NoKey]
  /\ UNCHANGED <<dep, job, saved>>
CopyColumn(c, d) == column[d][1] \in {"env", "bad"} /\ EditColumn(c, column[d])
DamageColumn(c) == column[c][1] = "env" /\ EditColumn(c, <<"bad">>)

Next ==
  \/ \E p \in Process, c \in Cell :
       \/ \E v \in ValueOf[c] \cup {Null} : Save(p, c, v)
       \/ LoadAndSave(p, c)
       \/ \E d \in Deployment, key \in Key \cup {NoKey}, v \in ValueOf[c] : SaveEnvelope(p, c, d, key, v)
       \/ \E new, old \in Key \cup {NoKey} : RotateRead(p, c, new, old)
  \/ \E p \in Process : RotateWrite(p)
  \/ \E p \in Process, d \in Deployment : Redeploy(p, d)
  \/ \E c, d \in Cell : CopyColumn(c, d)
  \/ \E c \in Cell : DamageColumn(c)

Spec == Init /\ [][Next]_vars

-----------------------------------------------------------------------------
(* Properties.                                                             *)

Content ==
  {<<"null">>, <<"bad">>} \cup ({"plain"} \X Value)
    \cup ({"env"} \X MasterKey \X {Context[c] : c \in Cell} \X Value)

TypeOK ==
  /\ column \in [Cell -> Content]
  /\ dep \in [Process -> Deployment]
  /\ job \in [Process -> {NoRotation} \cup [cell : Cell, text : Content, key : Key \cup {NoKey},
                                            held : SUBSET (Value \cup {Null})]]
  /\ saved \in [Cell -> SUBSET (Value \cup {Null})] /\ kept \in [Cell -> SUBSET (Value \cup {Null})]
  /\ edited \subseteq Cell /\ lockedBy \in [Cell -> Key \cup {NoKey}]

\* Unless somebody edits the table, the value last saved is in the column, once encrypted
\* or as it was before the field was: whatever process saved it, as a value or as an
\* envelope it could read or not, and however often a rotation job was run, failed or was
\* run again.  A job that does not lock the row may put the value it has read back over a
\* save that came in meanwhile, and no other (get_prep_value in fields/fields.py, rotate_dek
\* in fields/crypto.py).
SavedTextSurvives ==
  \A c \in Cell \ edited : \E v \in kept[c] :
    IF v = Null THEN column[c] = <<"null">>
    ELSE \/ column[c] = <<"plain", v>>
         \/ column[c][1] = "env" /\ column[c][3] = Context[c] /\ column[c][4] = v

\* What a process reads is the value last saved in this field or put back by a job, once the
\* table was edited one that was saved in it before, or an error: never the value of another
\* field, and never an envelope (from_db_value in fields/fields.py).
ReadsWereSaved ==
  \A p \in Process, c \in Cell :
    LET v == FromDbValue(dep[p], c) IN v # Raised => v \in kept[c] /\ kept[c] \subseteq saved[c]

\* A process reads every field whose last writer used the same key: the environment's, if
\* there is one, whatever keys the fields, the caller of encrypt and rotate_dek name, and
\* the key they name if there is none (get_master_key in fields/kms.py).
SameKeyReads ==
  \A p \in Process, c \in Cell \ edited :
    LET key == Used(dep[p], dep[p].given) IN
    lockedBy[c] = key /\ (key # NoKey \/ ~dep[p].production)
      => FromDbValue(dep[p], c) \in kept[c]
=============================================================================
