-------------------------- MODULE FieldVaultProofs --------------------------
(* Proofs about FieldVault, for any deployments, keys, fields and values. *)
EXTENDS FieldVault, SequenceTheorems, TLAPS

Given == Key \cup {NoKey}
KeyOf(key) == IF key = NoKey THEN DevKey ELSE FormatKey(key)

\* What a writer leaves that used key to save v in c.
Sealed(c, key, v) == IF v = Null THEN <<"null">> ELSE <<"env", KeyOf(key), Context[c], v>>

\* Every column holds a value that was saved: one that the field may hold, or, under the
\* context that goes with the ciphertext, one of another field.
Traced ==
  \A c \in Cell :
    /\ kept[c] \subseteq saved[c]
    /\ column[c][1] = "null" => Null \in kept[c]
    /\ column[c][1] = "plain" => column[c][2] \in kept[c]
    /\ column[c][1] = "env" /\ column[c][3] = Context[c] => column[c][4] \in kept[c]
    /\ column[c][1] = "env" =>
         \E b \in Cell : column[c][3] = Context[b] /\ column[c][4] \in saved[b]

\* A job writes a value the cell could hold when it read it, sealed for that cell.
JobOf(x, s) ==
  /\ x.held \subseteq s[x.cell]
  /\ \E v \in x.held : v \in Value /\ x.text = Sealed(x.cell, x.key, v)
JobsTraced == \A p \in Process : job[p] # NoRotation => JobOf(job[p], saved)

\* An envelope nobody edited is under the key its writer used.
LockedByWriter ==
  \A c \in Cell \ edited : column[c][1] = "env" => column[c][2] = KeyOf(lockedBy[c])

VaultInv == TypeOK /\ SavedTextSurvives /\ Traced /\ LockedByWriter /\ JobsTraced

-----------------------------------------------------------------------------
(* Keys and values.                                                        *)

\* _format_key returns a whole key, whatever it is given.
LEMMA FormatKeyType == ASSUME NEW k \in Key PROVE FormatKey(k) \in MasterKey
<1>1. /\ k.raw \in Seq(0..255) /\ k.decoded \in Seq(0..255)
      /\ KeySize \in Nat
  BY KeyAssumption
<1>2. /\ k.raw \in [1..Len(k.raw) -> 0..255] /\ Len(k.raw) \in Nat
      /\ k.decoded \in [1..Len(k.decoded) -> 0..255]
  BY <1>1, LenProperties
<1>3. CASE Len(k.decoded) = KeySize
  BY <1>2, <1>3 DEF FormatKey, MasterKey
<1>4. CASE Len(k.decoded) # KeySize
  <2>1. \A i \in 1..KeySize : (IF i <= Len(k.raw) THEN k.raw[i] ELSE 0) \in 0..255
    <3> SUFFICES ASSUME NEW i \in 1..KeySize
                 PROVE  (IF i <= Len(k.raw) THEN k.raw[i] ELSE 0) \in 0..255
      OBVIOUS
    <3>1. CASE i <= Len(k.raw)
      <4>1. i \in 1..Len(k.raw)
        BY <1>1, <1>2, <3>1
      <4>2. k.raw[i] \in 0..255
        BY <1>2, <4>1
      <4> QED BY <4>2, <3>1
    <3>2. CASE ~(i <= Len(k.raw))
      BY <3>2
    <3> QED BY <3>1, <3>2
  <2>2. [i \in 1..KeySize |-> IF i <= Len(k.raw) THEN k.raw[i] ELSE 0] \in [1..KeySize -> 0..255]
    BY <2>1
  <2> QED BY <2>2, <1>4 DEF FormatKey, MasterKey
<1> QED BY <1>3, <1>4

\* get_master_key goes by the environment's key, then by the given one, and fails only
\* in production without either.
LEMMA MasterKeyUsed ==
  ASSUME NEW d \in Deployment, NEW key \in Given
  PROVE  /\ Used(d, key) \in Given
         /\ KeyOf(Used(d, key)) \in MasterKey /\ KeyOf(Used(d, key)) # Raised
         /\ GetMasterKey(d, key) \in {Raised, KeyOf(Used(d, key))}
         /\ Used(d, key) # NoKey \/ ~d.production => GetMasterKey(d, key) # Raised
<1>1. d.env \in Given /\ d.given \in Given
  BY KeyAssumption DEF Given
<1>2. \A k \in Key : k.raw # <<>> /\ k # NoKey
  BY KeyAssumption DEF NoKey
<1>3. NoKey.raw = <<>>
  BY DEF NoKey
<1>4. Used(d, key) \in Given
  BY <1>1 DEF Used
<1>5. \A k \in Given : KeyOf(k) \in MasterKey /\ KeyOf(k) # Raised
  BY FormatKeyType, KeyAssumption, RaisedAssumption DEF KeyOf, Given
<1>6. CASE d.env # NoKey
  <2>1. d.env \in Key /\ d.env.raw # <<>>
    BY <1>1, <1>2, <1>6 DEF Given
  <2> QED BY <2>1, <1>4, <1>5, <1>6 DEF Used, GetMasterKey, KeyOf
<1>7. CASE d.env = NoKey /\ key # NoKey
  <2>1. key \in Key /\ key.raw # <<>> /\ d.env.raw = <<>>
    BY <1>2, <1>3, <1>7 DEF Given
  <2> QED BY <2>1, <1>4, <1>5, <1>7 DEF Used, GetMasterKey, KeyOf
<1>8. CASE d.env = NoKey /\ key = NoKey
  <2>1. key.raw = <<>> /\ d.env.raw = <<>>
    BY <1>3, <1>8
  <2> QED BY <2>1, <1>4, <1>5, <1>8 DEF Used, GetMasterKey, KeyOf
<1> QED BY <1>6, <1>7, <1>8

\* A value that is saved is sealed with the writer's key.
LEMMA PrepOfValue ==
  ASSUME NEW d \in Deployment, NEW c \in Cell, NEW v \in Value \cup {Null},
         ~PrepRaises(d, c, <<"value", v>>)
  PROVE  GetPrepValue(d, c, <<"value", v>>) = Sealed(c, Used(d, d.given), v)
<1>1. d.given \in Given
  BY KeyAssumption DEF Given
<1>2. GetMasterKey(d, d.given) \in {Raised, KeyOf(Used(d, d.given))}
  BY <1>1, MasterKeyUsed
<1>3. CASE v = Null
  BY <1>3 DEF GetPrepValue, Sealed
<1>4. CASE v # Null
  <2>1. v # Raised
    BY <1>4, ValueAssumption
  <2>2. <<"value", v>> # <<"value", Null>> /\ <<"value", v>>[1] # "env" /\ <<"value", v>>[2] = v
    BY <1>4
  <2>3. GetPrepValue(d, c, <<"value", v>>) = Encrypt(d, d.given, Context[c], v)
    BY <2>1, <2>2 DEF GetPrepValue, TextPrepValue, JsonPrepValue
  <2>4. GetMasterKey(d, d.given) # Raised
    BY <2>3 DEF PrepRaises, Encrypt
  <2> QED BY <2>3, <2>4, <1>2, <1>4 DEF Encrypt, Sealed
<1> QED BY <1>3, <1>4

\* An envelope is stored as it is, or, where the field can read it, sealed again.
LEMMA PrepOfEnvelope ==
  ASSUME NEW d \in Deployment, NEW c \in Cell, NEW v \in Value, NEW key \in Given,
         NEW e, e = <<"env", KeyOf(key), Context[c], v>>,
         ~PrepRaises(d, c, e)
  PROVE  GetPrepValue(d, c, e) \in {e, Sealed(c, Used(d, d.given), v)}
<1>1. d.given \in Given
  BY KeyAssumption DEF Given
<1>2. GetMasterKey(d, d.given) \in {Raised, KeyOf(Used(d, d.given))}
  BY <1>1, MasterKeyUsed
<1>3. v # Raised /\ v # Null
  BY ValueAssumption
<1>4. e[1] = "env" /\ e[2] = KeyOf(key) /\ e[3] = Context[c] /\ e[4] = v
  OBVIOUS
<1>5. e # <<"value", Null>>
  BY <1>4
<1>6. CASE c \notin TextCell
  BY <1>4, <1>5, <1>6 DEF GetPrepValue, JsonPrepValue
<1>7. CASE c \in TextCell /\ Decrypt(d, d.given, Context[c], e) = Raised
  BY <1>4, <1>5, <1>7 DEF GetPrepValue, TextPrepValue
<1>8. CASE c \in TextCell /\ Decrypt(d, d.given, Context[c], e) # Raised
  <2>1. Decrypt(d, d.given, Context[c], e) = v
    BY <1>4, <1>8 DEF Decrypt
  <2>2. GetPrepValue(d, c, e) = Encrypt(d, d.given, Context[c], v)
    BY <2>1, <1>3, <1>4, <1>5, <1>8 DEF GetPrepValue, TextPrepValue
  <2>3. GetMasterKey(d, d.given) # Raised
    BY <2>2 DEF PrepRaises, Encrypt
  <2> QED BY <2>2, <2>3, <1>2, <1>3 DEF Encrypt, Sealed
<1> QED BY <1>6, <1>7, <1>8

\* What is read comes out of an envelope of this field under the reader's key.
LEMMA DecryptOpens ==
  ASSUME NEW d \in Deployment, NEW key \in Given, NEW x, NEW e,
         Decrypt(d, key, x, e) # Raised
  PROVE  /\ e[1] = "env" /\ e[3] = x /\ Decrypt(d, key, x, e) = e[4]
         /\ e[2] = GetMasterKey(d, key)
BY DEF Decrypt

\* The columns by what they begin with.
LEMMA ContentKinds ==
  ASSUME NEW x \in Content
  PROVE  /\ x[1] \in {"null", "bad", "plain", "env"}
         /\ x[1] = "null" => x = <<"null">>
         /\ x[1] = "plain" => x = <<"plain", x[2]>> /\ x[2] \in Value
         /\ x[1] = "env" => /\ x = <<"env", x[2], x[3], x[4]>>
                            /\ x[2] \in MasterKey /\ x[4] \in Value
                            /\ x[3] \in {Context[c] : c \in Cell}
BY DEF Content

LEMMA SealedType ==
  ASSUME NEW c \in Cell, NEW key \in Given, NEW v \in Value \cup {Null}
  PROVE  Sealed(c, key, v) \in Content
<1>1. KeyOf(key) \in MasterKey
  BY FormatKeyType, KeyAssumption DEF KeyOf, Given
<1>2. Context[c] \in {Context[b] : b \in Cell}
  OBVIOUS
<1> QED BY <1>1, <1>2 DEF Sealed, Content

-----------------------------------------------------------------------------
(* The invariant.                                                          *)

LEMMA InitEstablishes == ASSUME Init PROVE VaultInv
<1>1. ASSUME NEW c \in Cell
      PROVE  \/ column[c] = <<"null">> /\ saved[c] = {Null} /\ kept[c] = {Null}
             \/ \E v \in Value : column[c] = <<"plain", v>> /\ saved[c] = {v} /\ kept[c] = {v}
  <2>1. column[c] \in {<<"null">>} \cup ({"plain"} \X Value)
    BY DEF Init
  <2>2. /\ saved[c] = {IF column[c] = <<"null">> THEN Null ELSE column[c][2]}
        /\ kept[c] = saved[c]
    BY DEF Init
  <2>3. CASE column[c] = <<"null">>
    BY <2>2, <2>3
  <2>4. CASE column[c] # <<"null">>
    <3>1. PICK v \in Value : column[c] = <<"plain", v>>
      BY <2>1, <2>4
    <3>2. column[c][2] = v
      BY <3>1
    <3> QED BY <3>1, <3>2, <2>2, <2>4
  <2> QED BY <2>3, <2>4
<1>2. TypeOK
  <2>1. \A c \in Cell : column[c] \in Content
    BY DEF Init, Content
  <2>3. \A c \in Cell : saved[c] \in SUBSET (Value \cup {Null})
    BY <1>1
  <2>2. column \in [Cell -> Content] /\ saved \in [Cell -> SUBSET (Value \cup {Null})]
    BY <2>1, <2>3 DEF Init
  <2> QED BY <2>2 DEF Init, TypeOK
<1>3. SavedTextSurvives
  BY <1>1, ValueAssumption DEF SavedTextSurvives
<1>4. \A c \in Cell : column[c][1] # "env"
  BY <1>1
<1>5. Traced
  BY <1>1, <1>4 DEF Traced
<1>6. LockedByWriter
  BY <1>4 DEF LockedByWriter
<1>7. JobsTraced
  BY DEF Init, JobsTraced
<1> QED BY <1>2, <1>3, <1>5, <1>6, <1>7 DEF VaultInv

\* Only what is saved is forgotten, and no job writes anything new: jobs stay as they were.
LEMMA JobsKept ==
  ASSUME TypeOK, JobsTraced, NEW p \in Process,
         job' = job \/ job' = [job EXCEPT ![p] = NoRotation],
         \A b \in Cell : saved[b] \subseteq saved'[b]
  PROVE  JobsTraced'
<1>1. \A q \in Process : job'[q] = job[q] \/ job'[q] = NoRotation
  BY DEF TypeOK
<1>2. ASSUME NEW q \in Process, job'[q] # NoRotation PROVE JobOf(job'[q], saved')
  <2>1. job'[q] = job[q] /\ JobOf(job[q], saved)
    BY <1>1, <1>2 DEF JobsTraced
  <2>2. job[q].cell \in Cell
    BY <1>2, <2>1 DEF TypeOK
  <2> QED BY <2>1, <2>2 DEF JobOf
<1> QED BY <1>2 DEF JobsTraced

\* A writer leaves its value sealed: a new one, or one the column has held.
Writes(p, c, key, v, K) ==
  /\ v \in K /\ K \subseteq saved'[c]
  /\ column' = [column EXCEPT ![c] = Sealed(c, key, v)]
  /\ lockedBy' = [lockedBy EXCEPT ![c] = key]
  /\ kept' = [kept EXCEPT ![c] = K]
  /\ dep' = dep /\ (job' = job \/ job' = [job EXCEPT ![p] = NoRotation])
  /\ saved' = saved \/ saved' = [saved EXCEPT ![c] = @ \cup {v}]
  /\ edited' = edited \/ edited' = edited \ {c}

LEMMA WriteKeeps ==
  ASSUME VaultInv, NEW p \in Process, NEW c \in Cell, NEW key \in Given,
         NEW v \in Value \cup {Null}, NEW K, Writes(p, c, key, v, K)
  PROVE  VaultInv'
<1> USE DEF Writes
<1>1. TypeOK
  BY DEF VaultInv
<1>2. \A b \in Cell : saved[b] \subseteq saved'[b]
  BY <1>1 DEF TypeOK
<1>3. TypeOK'
  <2>1. column' \in [Cell -> Content]
    BY <1>1, SealedType DEF TypeOK
  <2>2. saved' \in [Cell -> SUBSET (Value \cup {Null})]
    BY <1>1 DEF TypeOK
  <2>3. kept' \in [Cell -> SUBSET (Value \cup {Null})]
    BY <1>1, <2>2 DEF TypeOK
  <2>4. job' \in [Process -> {NoRotation} \cup [cell : Cell, text : Content, key : Key \cup {NoKey},
                                               held : SUBSET (Value \cup {Null})]]
    BY <1>1 DEF TypeOK
  <2> QED BY <2>1, <2>2, <2>3, <2>4, <1>1 DEF TypeOK, Given
<1>4. /\ column'[c] = Sealed(c, key, v) /\ lockedBy'[c] = key /\ kept'[c] = K
      /\ \A b \in Cell \ {c} : column'[b] = column[b] /\ lockedBy'[b] = lockedBy[b]
                               /\ kept'[b] = kept[b] /\ (b \in edited' <=> b \in edited)
  BY <1>1 DEF TypeOK
<1>5. SavedTextSurvives'
  BY <1>4 DEF VaultInv, SavedTextSurvives, Sealed
<1>6. Traced'
  BY <1>2, <1>4 DEF VaultInv, Traced, Sealed
<1>7. LockedByWriter'
  BY <1>4 DEF VaultInv, LockedByWriter, Sealed
<1>8. JobsTraced'
  BY <1>1, <1>2, JobsKept DEF VaultInv
<1> QED BY <1>3, <1>5, <1>6, <1>7, <1>8 DEF VaultInv

LEMMA SaveKeeps ==
  ASSUME VaultInv, NEW p \in Process, NEW c \in Cell, NEW v \in Value \cup {Null},
         Save(p, c, v)
  PROVE  VaultInv'
<1>1. dep[p] \in Deployment
  BY DEF VaultInv, TypeOK
<1>2. dep[p].given \in Given
  BY <1>1, KeyAssumption DEF Given
<1>3. Used(dep[p], dep[p].given) \in Given
  BY <1>1, <1>2, MasterKeyUsed
<1>4. column' = [column EXCEPT ![c] = Sealed(c, Used(dep[p], dep[p].given), v)]
  BY <1>1, PrepOfValue DEF Save, Store
<1>5. v \in {v} /\ {v} \subseteq saved'[c]
  BY DEF Save, Store, VaultInv, TypeOK
<1>6. Writes(p, c, Used(dep[p], dep[p].given), v, {v})
  BY <1>4, <1>5 DEF Save, Store, Writes
<1> QED BY <1>3, <1>6, WriteKeeps

\* Reading gives back a value the field may hold.
LEMMA ReadsAreTraced ==
  ASSUME VaultInv, NEW d \in Deployment, NEW key \in Given, NEW c \in Cell,
         Decrypt(d, key, Context[c], column[c]) # Raised
  PROVE  /\ Decrypt(d, key, Context[c], column[c]) \in Value
         /\ Decrypt(d, key, Context[c], column[c]) \in kept[c]
<1>1. /\ column[c][1] = "env" /\ column[c][3] = Context[c]
      /\ Decrypt(d, key, Context[c], column[c]) = column[c][4]
  BY DecryptOpens
<1>2. column[c] \in Content
  BY DEF VaultInv, TypeOK
<1>3. column[c][4] \in Value
  BY <1>1, <1>2, ContentKinds
<1>4. column[c][4] \in kept[c]
  BY <1>1 DEF VaultInv, Traced
<1> QED BY <1>1, <1>3, <1>4

LEMMA FromDbValueTraced ==
  ASSUME VaultInv, NEW p \in Process, NEW c \in Cell, FromDbValue(dep[p], c) # Raised
  PROVE  FromDbValue(dep[p], c) \in Value \cup {Null} /\ FromDbValue(dep[p], c) \in kept[c]
<1>1. dep[p] \in Deployment /\ column[c] \in Content
  BY DEF VaultInv, TypeOK
<1>2. dep[p].given \in Given
  BY <1>1, KeyAssumption DEF Given
<1>3. column[c][1] \in {"null", "bad", "plain", "env"}
  BY <1>1, ContentKinds
<1>4. CASE column[c][1] = "null"
  <2>1. FromDbValue(dep[p], c) = Null
    BY <1>4 DEF FromDbValue
  <2>2. Null \in kept[c]
    BY <1>4 DEF VaultInv, Traced
  <2> QED BY <2>1, <2>2
<1>5. CASE column[c][1] = "plain"
  <2>1. FromDbValue(dep[p], c) = column[c][2]
    BY <1>5 DEF FromDbValue
  <2>2. column[c][2] \in kept[c] /\ column[c][2] \in Value
    BY <1>1, <1>5, ContentKinds DEF VaultInv, Traced
  <2> QED BY <2>1, <2>2
<1>6. CASE column[c][1] = "env"
  <2>1. FromDbValue(dep[p], c) = Decrypt(dep[p], dep[p].given, Context[c], column[c])
    BY <1>6 DEF FromDbValue
  <2> QED BY <2>1, <1>1, <1>2, ReadsAreTraced
<1>7. column[c][1] # "bad"
  BY DEF FromDbValue
<1> QED BY <1>3, <1>4, <1>5, <1>6, <1>7

LEMMA SaveEnvelopeKeeps ==
  ASSUME VaultInv, NEW p \in Process, NEW c \in Cell, NEW d \in Deployment,
         NEW key \in Given, NEW v \in Value, SaveEnvelope(p, c, d, key, v)
  PROVE  VaultInv'
<1> DEFINE e == Encrypt(d, key, Context[c], v)
           own == Used(dep[p], dep[p].given)
<1>1. dep[p] \in Deployment
  BY DEF VaultInv, TypeOK
<1>2. dep[p].given \in Given
  BY <1>1, KeyAssumption DEF Given
<1>3. own \in Given /\ Used(d, key) \in Given
  BY <1>1, <1>2, MasterKeyUsed
<1>4. e = <<"env", KeyOf(Used(d, key)), Context[c], v>>
  BY MasterKeyUsed DEF SaveEnvelope, Encrypt
<1>5. v # Null
  BY ValueAssumption
<1>6. e = Sealed(c, Used(d, key), v)
  BY <1>4, <1>5 DEF Sealed
<1>7. Store(p, c, e, v)
  BY DEF SaveEnvelope
<1>8. GetPrepValue(dep[p], c, e) \in {e, Sealed(c, own, v)}
  <2>1. ~PrepRaises(dep[p], c, e)
    BY <1>7 DEF Store
  <2> QED BY <2>1, <1>1, <1>3, <1>4, PrepOfEnvelope
<1>11. v \in {v} /\ {v} \subseteq saved'[c]
  BY <1>7 DEF Store, VaultInv, TypeOK
<1>9. CASE GetPrepValue(dep[p], c, e) = e
  <2>1. /\ column' = [column EXCEPT ![c] = Sealed(c, Used(d, key), v)]
        /\ lockedBy' = [lockedBy EXCEPT ![c] = Used(d, key)]
    BY <1>6, <1>7, <1>9 DEF SaveEnvelope, Store
  <2>2. Writes(p, c, Used(d, key), v, {v})
    BY <2>1, <1>7, <1>11 DEF Store, Writes
  <2> QED BY <2>2, <1>3, WriteKeeps
<1>10. CASE GetPrepValue(dep[p], c, e) # e
  <2>1. /\ column' = [column EXCEPT ![c] = Sealed(c, own, v)]
        /\ lockedBy' = [lockedBy EXCEPT ![c] = own]
    BY <1>7, <1>8, <1>10 DEF SaveEnvelope, Store
  <2>2. Writes(p, c, own, v, {v})
    BY <2>1, <1>7, <1>11 DEF Store, Writes
  <2> QED BY <2>2, <1>3, WriteKeeps
<1> QED BY <1>9, <1>10

LEMMA RotateReadKeeps ==
  ASSUME VaultInv, NEW p \in Process, NEW c \in Cell, NEW new \in Given, NEW old \in Given,
         RotateRead(p, c, new, old)
  PROVE  VaultInv'
<1> DEFINE v == Decrypt(dep[p], old, Context[c], column[c])
           x == [cell |-> c, text |-> Encrypt(dep[p], new, Context[c], v),
                 key |-> Used(dep[p], new), held |-> kept[c]]
<1>1. dep[p] \in Deployment /\ kept[c] \in SUBSET (Value \cup {Null})
  BY DEF VaultInv, TypeOK
<1>2. v \in Value /\ v \in kept[c]
  BY <1>1, ReadsAreTraced DEF RotateRead
<1>3. v # Null
  BY <1>2, ValueAssumption
<1>4. Used(dep[p], new) \in Given
  BY <1>1, MasterKeyUsed
<1>5. Encrypt(dep[p], new, Context[c], v) = Sealed(c, Used(dep[p], new), v)
  BY <1>1, <1>3, MasterKeyUsed DEF RotateRead, Encrypt, Sealed
<1>6. job' = [job EXCEPT ![p] = x] /\ UNCHANGED <<column, dep, kept, saved, edited, lockedBy>>
  BY DEF RotateRead
<1>7. JobOf(x, saved)
  BY <1>2, <1>5 DEF JobOf, VaultInv, Traced
<1>8. x \in [cell : Cell, text : Content, key : Key \cup {NoKey}, held : SUBSET (Value \cup {Null})]
  BY <1>1, <1>2, <1>4, <1>5, SealedType DEF Given
<1> HIDE DEF x
<1>9. TypeOK'
  BY <1>6, <1>8 DEF VaultInv, TypeOK
<1>10. JobsTraced'
  <2>1. ASSUME NEW q \in Process, job'[q] # NoRotation PROVE JobOf(job'[q], saved)
    <3>1. job'[q] = IF q = p THEN x ELSE job[q]
      BY <1>6 DEF VaultInv, TypeOK
    <3> QED BY <3>1, <1>7, <2>1 DEF VaultInv, JobsTraced
  <2> QED BY <2>1, <1>6 DEF JobsTraced
<1> QED BY <1>6, <1>9, <1>10 DEF VaultInv, SavedTextSurvives, Traced, LockedByWriter

LEMMA RotateWriteKeeps ==
  ASSUME VaultInv, NEW p \in Process, RotateWrite(p)
  PROVE  VaultInv'
<1> DEFINE c == job[p].cell
<1>1. JobOf(job[p], saved)
  BY DEF RotateWrite, VaultInv, JobsTraced
<1>2. c \in Cell /\ job[p].key \in Given
  BY DEF RotateWrite, VaultInv, TypeOK, Given
<1>3. PICK v \in job[p].held : v \in Value /\ job[p].text = Sealed(c, job[p].key, v)
  BY <1>1 DEF JobOf
<1>4. /\ column' = [column EXCEPT ![c] = Sealed(c, job[p].key, v)]
      /\ lockedBy' = [lockedBy EXCEPT ![c] = job[p].key]
      /\ kept' = [kept EXCEPT ![c] = job[p].held]
      /\ job' = [job EXCEPT ![p] = NoRotation] /\ UNCHANGED <<dep, saved, edited>>
  BY <1>3 DEF RotateWrite
<1>5. job[p].held \subseteq saved'[c]
  BY <1>1, <1>4 DEF JobOf
<1>6. Writes(p, c, job[p].key, v, job[p].held)
  BY <1>3, <1>4, <1>5 DEF Writes
<1> QED BY <1>2, <1>3, <1>6, WriteKeeps

\* Raw SQL that leaves text with the header of an envelope, of one that was there or damaged.
LEMMA EditKeeps ==
  ASSUME VaultInv, NEW c \in Cell, NEW x \in Content, EditColumn(c, x),
         \/ x[1] = "bad"
         \/ \E b \in Cell : x[1] = "env" /\ x = column[b]
  PROVE  VaultInv'
<1>1. TypeOK'
  BY KeyAssumption DEF VaultInv, TypeOK, EditColumn
<1>2. /\ column'[c] = x /\ kept'[c] = saved[c] /\ c \in edited'
      /\ \A b \in Cell \ {c} : column'[b] = column[b] /\ kept'[b] = kept[b]
                               /\ lockedBy'[b] = lockedBy[b] /\ (b \in edited' <=> b \in edited)
  BY DEF VaultInv, TypeOK, EditColumn
<1>3. UNCHANGED <<saved, job>>
  BY DEF EditColumn
<1>4. SavedTextSurvives'
  BY <1>2 DEF VaultInv, SavedTextSurvives
<1>5. Traced'
  <2>1. x[1] = "env" => \E b \in Cell : x[3] = Context[b] /\ x[4] \in saved[b]
    BY DEF VaultInv, Traced
  <2>2. x[1] = "env" /\ x[3] = Context[c] => x[4] \in saved[c]
    BY <2>1, ContextAssumption
  <2>3. x[1] # "null" /\ x[1] # "plain"
    OBVIOUS
  <2> QED BY <2>1, <2>2, <2>3, <1>2, <1>3 DEF VaultInv, Traced
<1>6. LockedByWriter'
  BY <1>2 DEF VaultInv, LockedByWriter
<1>7. JobsTraced'
  BY <1>3 DEF VaultInv, JobsTraced
<1> QED BY <1>1, <1>4, <1>5, <1>6, <1>7 DEF VaultInv

LEMMA NextKeeps == ASSUME VaultInv, [Next]_vars PROVE VaultInv'
<1>1. ASSUME NEW p \in Process, NEW c \in Cell, NEW v \in ValueOf[c] \cup {Null}, Save(p, c, v)
      PROVE  VaultInv'
  BY <1>1, ValueAssumption, SaveKeeps
<1>2. ASSUME NEW p \in Process, NEW c \in Cell, LoadAndSave(p, c)
      PROVE  VaultInv'
  <2>1. FromDbValue(dep[p], c) \in Value \cup {Null}
    BY <1>2, FromDbValueTraced DEF LoadAndSave
  <2> QED BY <2>1, <1>2, SaveKeeps DEF LoadAndSave
<1>3. ASSUME NEW p \in Process, NEW c \in Cell, NEW d \in Deployment, NEW key \in Given,
             NEW v \in ValueOf[c], SaveEnvelope(p, c, d, key, v)
      PROVE  VaultInv'
  BY <1>3, ValueAssumption, SaveEnvelopeKeeps
<1>4. ASSUME NEW p \in Process, NEW c \in Cell, NEW new \in Given, NEW old \in Given,
             RotateRead(p, c, new, old)
      PROVE  VaultInv'
  BY <1>4, RotateReadKeeps
<1>9. ASSUME NEW p \in Process, RotateWrite(p)
      PROVE  VaultInv'
  BY <1>9, RotateWriteKeeps
<1>5. ASSUME NEW p \in Process, NEW d \in Deployment, Redeploy(p, d)
      PROVE  VaultInv'
  <2>1. TypeOK'
    BY <1>5 DEF VaultInv, TypeOK, Redeploy
  <2>2. SavedTextSurvives' /\ Traced' /\ LockedByWriter'
    BY <1>5 DEF VaultInv, SavedTextSurvives, Traced, LockedByWriter, Redeploy
  <2>3. JobsTraced'
    BY <1>5, JobsKept DEF VaultInv, Redeploy
  <2> QED BY <2>1, <2>2, <2>3 DEF VaultInv
<1>6. ASSUME NEW c \in Cell, NEW b \in Cell, CopyColumn(c, b)
      PROVE  VaultInv'
  <2>1. column[b] \in Content
    BY DEF VaultInv, TypeOK
  <2> QED BY <2>1, <1>6, EditKeeps DEF CopyColumn
<1>7. ASSUME NEW c \in Cell, DamageColumn(c)
      PROVE  VaultInv'
  <2>1. <<"bad">> \in Content /\ <<"bad">>[1] = "bad"
    BY DEF Content
  <2> QED BY <2>1, <1>7, EditKeeps DEF DamageColumn
<1>8. CASE UNCHANGED vars
  BY <1>8 DEF vars, VaultInv, TypeOK, SavedTextSurvives, Traced, LockedByWriter, JobsTraced
<1> QED BY <1>1, <1>2, <1>3, <1>4, <1>5, <1>6, <1>7, <1>8, <1>9 DEF Next, Given

THEOREM VaultInvCorrect == Spec => []VaultInv
BY InitEstablishes, NextKeeps, PTL DEF Spec

-----------------------------------------------------------------------------
(* The theorems.                                                           *)

\* Every reachable state is well typed: every key in use is a whole master key, however
\* long the configured ones are (_format_key in fields/kms.py).
THEOREM FieldsTypeCorrect == Spec => []TypeOK
BY VaultInvCorrect, PTL DEF VaultInv

\* The value last saved in a field stays in its column through any saves, envelopes
\* passed in and redeployments, and a rotation job can only put back what it has read
\* (get_prep_value in fields/fields.py, rotate_dek in fields/crypto.py).
THEOREM SavedTextSurvivesCorrect == Spec => []SavedTextSurvives
BY VaultInvCorrect, PTL DEF VaultInv

\* What is read may be in that field: the last value saved in it or one a job has put back,
\* if the table was edited one saved in it before (from_db_value in fields/fields.py).
THEOREM ReadsWereSavedCorrect == Spec => []ReadsWereSaved
<1>1. VaultInv => ReadsWereSaved
  BY FromDbValueTraced DEF ReadsWereSaved, VaultInv, Traced
<1> QED BY <1>1, VaultInvCorrect, PTL

\* A process reads every field whose last writer went by the key it goes by itself
\* (get_master_key in fields/kms.py).
THEOREM SameKeyReadsCorrect == Spec => []SameKeyReads
<1>1. ASSUME VaultInv, NEW p \in Process, NEW c \in Cell \ edited,
             lockedBy[c] = Used(dep[p], dep[p].given),
             Used(dep[p], dep[p].given) # NoKey \/ ~dep[p].production
      PROVE  FromDbValue(dep[p], c) \in kept[c]
  <2>1. dep[p] \in Deployment /\ column[c] \in Content
    BY <1>1 DEF VaultInv, TypeOK
  <2>2. dep[p].given \in Given
    BY <2>1, KeyAssumption DEF Given
  <2>3. GetMasterKey(dep[p], dep[p].given) = KeyOf(lockedBy[c])
    BY <1>1, <2>1, <2>2, MasterKeyUsed
  <2>4. PICK v \in kept[c] : IF v = Null THEN column[c] = <<"null">>
                             ELSE \/ column[c] = <<"plain", v>>
                                  \/ column[c][1] = "env" /\ column[c][3] = Context[c]
                                     /\ column[c][4] = v
    BY <1>1 DEF VaultInv, SavedTextSurvives
  <2>5. CASE column[c][1] = "env"
    <3>1. column[c] # <<"null">> /\ column[c] # <<"plain", v>>
      BY <2>5
    <3>2. column[c][3] = Context[c] /\ column[c][4] = v
      BY <2>4, <3>1
    <3>3. column[c][2] = KeyOf(lockedBy[c])
      BY <1>1, <2>5 DEF VaultInv, LockedByWriter
    <3> QED BY <2>3, <2>4, <2>5, <3>2, <3>3 DEF FromDbValue, Decrypt
  <2>6. CASE column[c] = <<"null">>
    <3>1. FromDbValue(dep[p], c) = Null
      BY <2>6 DEF FromDbValue
    <3> QED BY <3>1, <2>6, <1>1 DEF VaultInv, Traced
  <2>7. CASE column[c] = <<"plain", v>>
    <3>1. FromDbValue(dep[p], c) = v
      BY <2>7 DEF FromDbValue
    <3> QED BY <3>1, <2>4
  <2> QED BY <2>4, <2>5, <2>6, <2>7
<1>2. VaultInv => SameKeyReads
  BY <1>1 DEF SameKeyReads
<1> QED BY <1>2, VaultInvCorrect, PTL
=============================================================================
