------------------------------- MODULE KeyRing -------------------------------
(***************************************************************************)
(* InMemoryKeyProvider of osivault.audit.keys shared by threads.  Nothing  *)
(* locks it: every load and every store of one of its attributes is a step *)
(* of its own.  Rotators run rotate, signers read the current key for      *)
(* append, verifiers run verify_entry, which asks for the current key and  *)
(* then for the previous one.  The audit table is a set of the keys that   *)
(* signed its entries; how entries reach it is AuditAppend's subject.      *)
(***************************************************************************)
EXTENDS Integers

CONSTANTS Key, NoKey, Rotator, Signer, Verifier

ASSUME KeyAssumption == NoKey \notin Key
ASSUME ThreadAssumption == Rotator \cap Signer = {} /\ Rotator \cap Verifier = {} /\ Signer \cap Verifier = {}

VARIABLES
  current_key, previous_key,  \* the attributes; the ids that travel with them are left out
  pc,                         \* pc[th]: what thread th does next
  arg,                        \* arg[th]: new key, or the key of the entry being verified
  loaded,                     \* loaded[th]: what th read last
  signedBy,                   \* keys that have signed an entry of the table
  heldThroughout,             \* history: heldThroughout[v], the key v looks for has been in
                              \* the ring ever since its verify_entry began
  alone,                      \* history: the rotation that runs began when no other ran, and
                              \* no other has begun since
  meanwhile                   \* history: meanwhile[s], rotations that ran since signer s read
                              \* its key; 2 also stands for more, and for those that overlap

Thread == Rotator \cup Signer \cup Verifier
ring == <<current_key, previous_key>>
history == <<alone, meanwhile>>
vars == <<ring, pc, arg, loaded, signedBy, heldThroughout, history>>

Init ==
  /\ current_key \in Key /\ previous_key = NoKey
  /\ pc = [th \in Thread |-> "idle"]
  /\ arg = [th \in Thread |-> NoKey] /\ loaded = [th \in Thread |-> NoKey]
  /\ signedBy = {}
  /\ heldThroughout = [v \in Verifier |-> FALSE]
  /\ alone = FALSE /\ meanwhile = [s \in Signer |-> 0]

Goto(th, label) == pc' = [pc EXCEPT ![th] = label]

\* Recorded by every step that changes the ring, begins or ends a verification.
Watch ==
  heldThroughout' = [v \in Verifier |->
    /\ pc'[v] # "idle" /\ arg'[v] \in {current_key', previous_key'}
    /\ pc[v] = "idle" \/ heldThroughout[v]]

-----------------------------------------------------------------------------
(* rotate.  Under the GIL previous_key = current_key is one step: no thread*)
(* switch is possible between the load and the store.  It is possible      *)
(* where the new key is encoded, before it is installed.                   *)

Quiet == \A r \in Rotator : pc[r] = "idle"

RotateCall(r, k) ==
  /\ pc[r] = "idle"
  /\ Goto(r, "keep_outgoing")
  /\ arg' = [arg EXCEPT ![r] = k]
  /\ alone' = Quiet
  /\ meanwhile' = [s \in Signer |-> IF meanwhile[s] = 0 THEN 1 ELSE 2]
  /\ UNCHANGED <<ring, loaded, signedBy, heldThroughout>>

\* Mutant: the new key is installed before the old one is kept.
RotateInstallFirst(r) ==
  /\ pc[r] = "keep_outgoing"
  /\ current_key' = arg[r]
  /\ Goto(r, "install")
  /\ UNCHANGED <<previous_key, arg, loaded, signedBy, history>>
  /\ Watch

RotateKeepOutgoing(r) ==
  /\ pc[r] = "keep_outgoing"
  /\ previous_key' = current_key
  /\ Goto(r, "install")
  /\ UNCHANGED <<current_key, arg, loaded, signedBy, history>>
  /\ Watch

RotateInstall(r) ==
  /\ pc[r] = "install"
  /\ current_key' = arg[r]
  /\ Goto(r, "idle")
  /\ UNCHANGED <<previous_key, arg, loaded, signedBy, history>>
  /\ Watch

-----------------------------------------------------------------------------
(* append reads the key once and signs with what it read.                  *)

Running == IF Quiet THEN 0 ELSE IF alone THEN 1 ELSE 2

\* Mutant: the signer is given the previous key.
SignLoadPrevious(s) ==
  /\ pc[s] = "idle"
  /\ loaded' = [loaded EXCEPT ![s] = previous_key]
  /\ Goto(s, "sign")
  /\ meanwhile' = [meanwhile EXCEPT ![s] = Running]
  /\ UNCHANGED <<ring, arg, signedBy, heldThroughout, alone>>

SignLoad(s) ==
  /\ pc[s] = "idle"
  /\ loaded' = [loaded EXCEPT ![s] = current_key]
  /\ Goto(s, "sign")
  /\ meanwhile' = [meanwhile EXCEPT ![s] = Running]
  /\ UNCHANGED <<ring, arg, signedBy, heldThroughout, alone>>

SignEntry(s) ==
  /\ pc[s] = "sign"
  /\ signedBy' = signedBy \cup {loaded[s]}
  /\ Goto(s, "idle")
  /\ UNCHANGED <<ring, arg, loaded, heldThroughout, history>>

-----------------------------------------------------------------------------
(* verify_entry of an entry signed by k.                                   *)

VerifyCall(v, k) ==
  /\ pc[v] = "idle"
  /\ arg' = [arg EXCEPT ![v] = k]
  /\ Goto(v, "try_current")
  /\ UNCHANGED <<ring, loaded, signedBy, history>>
  /\ Watch

\* Mutant: the previous key is tried first.
TryCurrentLast(v) ==
  /\ pc[v] \in {"try_current", "try_previous"}
  /\ LET key == IF pc[v] = "try_current" THEN previous_key ELSE current_key IN
       /\ loaded' = [loaded EXCEPT ![v] = key]
       /\ Goto(v, IF key = arg[v] THEN "verified"
                  ELSE IF pc[v] = "try_current" THEN "try_previous" ELSE "mismatch")
  /\ UNCHANGED <<ring, arg, signedBy, heldThroughout, history>>

TryCurrent(v) ==
  /\ pc[v] = "try_current"
  /\ loaded' = [loaded EXCEPT ![v] = current_key]
  /\ Goto(v, IF current_key = arg[v] THEN "verified" ELSE "try_previous")
  /\ UNCHANGED <<ring, arg, signedBy, heldThroughout, history>>

TryPrevious(v) ==
  /\ pc[v] = "try_previous"
  /\ loaded' = [loaded EXCEPT ![v] = previous_key]
  /\ Goto(v, IF previous_key = arg[v] THEN "verified" ELSE "mismatch")
  /\ UNCHANGED <<ring, arg, signedBy, heldThroughout, history>>

\* The caller has its answer.
VerifyReturn(v) ==
  /\ pc[v] \in {"verified", "mismatch"}
  /\ Goto(v, "idle")
  /\ arg' = [arg EXCEPT ![v] = NoKey]
  /\ UNCHANGED <<ring, loaded, signedBy, history>>
  /\ Watch

-----------------------------------------------------------------------------
Next ==
  \/ \E r \in Rotator : \/ \E k \in Key : RotateCall(r, k)
                        \/ RotateKeepOutgoing(r) \/ RotateInstall(r)
  \/ \E s \in Signer : SignLoad(s) \/ SignEntry(s)
  \/ \E v \in Verifier : \/ \E k \in signedBy : VerifyCall(v, k)
                         \/ TryCurrent(v) \/ TryPrevious(v) \/ VerifyReturn(v)

Spec == Init /\ [][Next]_vars

-----------------------------------------------------------------------------
(* Properties.                                                             *)

PcValue == {"idle", "keep_outgoing", "install", "sign",
            "try_current", "try_previous", "verified", "mismatch"}

TypeOK ==
  /\ current_key \in Key /\ previous_key \in Key \cup {NoKey}
  /\ pc \in [Thread -> PcValue]
  /\ arg \in [Thread -> Key \cup {NoKey}] /\ loaded \in [Thread -> Key \cup {NoKey}]
  /\ \A r \in Rotator : pc[r] \in {"keep_outgoing", "install"} => arg[r] \in Key
  /\ \A s \in Signer : pc[s] = "sign" => loaded[s] \in Key
  /\ signedBy \subseteq Key
  /\ heldThroughout \in [Verifier -> BOOLEAN]
  /\ alone \in BOOLEAN /\ meanwhile \in [Signer -> 0..2]

\* The key an append has read verifies the entry it is about to save, in whatever order
\* the threads go on, as long as at most one rotation has run since, next to no other
\* ("Moves current key to previous", rotate_key).  Rotations that overlap may lose a key.
LoadedKeyKept ==
  \A s \in Signer : pc[s] = "sign" /\ meanwhile[s] <= 1 => loaded[s] \in {current_key, previous_key}

\* verify_entry does not call an entry mismatched when its key has been in the ring for
\* the whole call, although a rotation moved it between the two reads.
NoFalseMismatch == \A v \in Verifier : pc[v] = "mismatch" => ~heldThroughout[v]

\* The inductive invariant behind NoFalseMismatch: a verifier that has given up on the
\* current key, and whose key was held all along, finds it in previous_key.
HeldInv ==
  \A v \in Verifier : heldThroughout[v] =>
    /\ pc[v] \notin {"idle", "mismatch"} /\ arg[v] \in {current_key, previous_key}
    /\ pc[v] = "try_previous" => arg[v] = previous_key

\* The one behind LoadedKeyKept: where a rotation that runs alone has got to, and with it
\* the key of a signer.
SignInv ==
  /\ alone =>
       /\ \A r, q \in Rotator : pc[r] # "idle" /\ pc[q] # "idle" => r = q
       /\ \A r \in Rotator : pc[r] = "install" => previous_key = current_key
  /\ \A s \in Signer : pc[s] = "sign" =>
       /\ meanwhile[s] = 0 => Quiet /\ loaded[s] = current_key
       /\ meanwhile[s] = 1 =>
            /\ Quiet \/ alone
            /\ loaded[s] \in {current_key, previous_key}
            /\ \A r \in Rotator : pc[r] = "keep_outgoing" => loaded[s] = current_key
=============================================================================
