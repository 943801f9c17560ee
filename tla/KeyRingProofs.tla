---------------------------- MODULE KeyRingProofs ----------------------------
(***************************************************************************)
(* Proofs about KeyRing, for any number of keys, rotators, signers and     *)
(* verifiers.                                                              *)
(***************************************************************************)
EXTENDS KeyRing, TLAPS

LEMMA WatchType == Watch => heldThroughout' \in [Verifier -> BOOLEAN]
BY Zenon DEF Watch

LEMMA InitTypes == Init => TypeOK
<1> SUFFICES ASSUME Init PROVE TypeOK
  OBVIOUS
<1>1. alone \in BOOLEAN
  BY Zenon DEF Init
<1>2. heldThroughout \in [Verifier -> BOOLEAN]
  BY Zenon DEF Init
<1>3. meanwhile \in [Signer -> 0..2]
  BY DEF Init
<1>4. /\ pc \in [Thread -> PcValue] /\ \A th \in Thread : pc[th] = "idle"
      /\ arg \in [Thread -> Key \cup {NoKey}] /\ loaded \in [Thread -> Key \cup {NoKey}]
  BY DEF Init, PcValue
<1> QED BY <1>1, <1>2, <1>3, <1>4 DEF Init, TypeOK, Thread

LEMMA TypeStep == TypeOK /\ [Next]_vars => TypeOK'
<1> SUFFICES ASSUME TypeOK, [Next]_vars PROVE TypeOK'
  OBVIOUS
<1> USE DEF TypeOK, PcValue, Goto, Thread, ring, history
<1>1. ASSUME NEW r \in Rotator, NEW k \in Key, RotateCall(r, k) PROVE TypeOK'
  BY <1>1, ThreadAssumption DEF RotateCall, Quiet
<1>2. ASSUME NEW r \in Rotator, RotateKeepOutgoing(r) PROVE TypeOK'
  BY <1>2, WatchType, ThreadAssumption DEF RotateKeepOutgoing
<1>3. ASSUME NEW r \in Rotator, RotateInstall(r) PROVE TypeOK'
  BY <1>3, WatchType, ThreadAssumption DEF RotateInstall
<1>4. ASSUME NEW s \in Signer, SignLoad(s) \/ SignEntry(s) PROVE TypeOK'
  BY <1>4, ThreadAssumption DEF SignLoad, SignEntry, Running
<1>5. ASSUME NEW v \in Verifier, NEW k \in signedBy, VerifyCall(v, k) PROVE TypeOK'
  BY <1>5, WatchType, ThreadAssumption DEF VerifyCall
<1>6. ASSUME NEW v \in Verifier, TryCurrent(v) \/ TryPrevious(v) PROVE TypeOK'
  BY <1>6, ThreadAssumption DEF TryCurrent, TryPrevious
<1>7. ASSUME NEW v \in Verifier, VerifyReturn(v) PROVE TypeOK'
  BY <1>7, WatchType, ThreadAssumption DEF VerifyReturn
<1>8. CASE UNCHANGED vars
  BY <1>8 DEF vars
<1> QED BY <1>1, <1>2, <1>3, <1>4, <1>5, <1>6, <1>7, <1>8 DEF Next

\* Whatever threads rotate, sign and verify at once, with any number of rotators: the ring
\* always holds a current key, and each call is at one of its labels with keys in its locals.
THEOREM TypeCorrect == Spec => []TypeOK
BY InitTypes, TypeStep, PTL DEF Spec

LEMMA HeldStep == TypeOK /\ HeldInv /\ [Next]_vars => HeldInv'
<1> SUFFICES ASSUME TypeOK, HeldInv, [Next]_vars PROVE HeldInv'
  OBVIOUS
<1> USE DEF TypeOK, HeldInv, Goto, Watch, Thread, ring
<1>1. ASSUME NEW r \in Rotator, NEW k \in Key, RotateCall(r, k) PROVE HeldInv'
  BY <1>1, ThreadAssumption DEF RotateCall
<1>2. ASSUME NEW r \in Rotator, RotateKeepOutgoing(r) PROVE HeldInv'
  BY <1>2, ThreadAssumption DEF RotateKeepOutgoing
<1>3. ASSUME NEW r \in Rotator, RotateInstall(r) PROVE HeldInv'
  BY <1>3, ThreadAssumption DEF RotateInstall
<1>4. ASSUME NEW s \in Signer, SignLoad(s) \/ SignEntry(s) PROVE HeldInv'
  BY <1>4, ThreadAssumption DEF SignLoad, SignEntry
<1>5. ASSUME NEW v \in Verifier, NEW k \in signedBy, VerifyCall(v, k) PROVE HeldInv'
  BY <1>5, ThreadAssumption DEF VerifyCall
<1>6. ASSUME NEW v \in Verifier, TryCurrent(v) PROVE HeldInv'
  BY <1>6, ThreadAssumption DEF TryCurrent
<1>7. ASSUME NEW v \in Verifier, TryPrevious(v) PROVE HeldInv'
  BY <1>7, ThreadAssumption DEF TryPrevious
<1>8. ASSUME NEW v \in Verifier, VerifyReturn(v) PROVE HeldInv'
  BY <1>8, ThreadAssumption DEF VerifyReturn
<1>9. CASE UNCHANGED vars
  BY <1>9 DEF vars
<1> QED BY <1>1, <1>2, <1>3, <1>4, <1>5, <1>6, <1>7, <1>8, <1>9 DEF Next

\* verify_entry never rejects an entry whose key stayed in the ring while it ran, however many
\* threads rotate at once.
THEOREM NoFalseMismatchCorrect == Spec => []NoFalseMismatch
<1>1. Init => HeldInv
  BY DEF Init, HeldInv
<1>2. HeldInv => NoFalseMismatch
  BY DEF HeldInv, NoFalseMismatch
<1> QED BY <1>1, <1>2, InitTypes, TypeStep, HeldStep, PTL DEF Spec

LEMMA SignStep == TypeOK /\ SignInv /\ [Next]_vars => SignInv'
<1> SUFFICES ASSUME TypeOK, SignInv, [Next]_vars PROVE SignInv'
  OBVIOUS
<1> USE DEF TypeOK, SignInv, Goto, Thread, ring, history, Quiet
<1>1. ASSUME NEW r \in Rotator, NEW k \in Key, RotateCall(r, k) PROVE SignInv'
  BY <1>1, ThreadAssumption DEF RotateCall
<1>2. ASSUME NEW r \in Rotator, RotateKeepOutgoing(r) PROVE SignInv'
  BY <1>2, ThreadAssumption DEF RotateKeepOutgoing
<1>3. ASSUME NEW r \in Rotator, RotateInstall(r) PROVE SignInv'
  BY <1>3, ThreadAssumption DEF RotateInstall
<1>4. ASSUME NEW s \in Signer, SignLoad(s) PROVE SignInv'
  BY <1>4, ThreadAssumption DEF SignLoad, Running
<1>5. ASSUME NEW s \in Signer, SignEntry(s) PROVE SignInv'
  BY <1>5, ThreadAssumption DEF SignEntry
<1>6. ASSUME NEW v \in Verifier, NEW k \in signedBy, VerifyCall(v, k) PROVE SignInv'
  BY <1>6, ThreadAssumption DEF VerifyCall
<1>7. ASSUME NEW v \in Verifier, TryCurrent(v) \/ TryPrevious(v) PROVE SignInv'
  BY <1>7, ThreadAssumption DEF TryCurrent, TryPrevious
<1>8. ASSUME NEW v \in Verifier, VerifyReturn(v) PROVE SignInv'
  BY <1>8, ThreadAssumption DEF VerifyReturn
<1>9. CASE UNCHANGED vars
  BY <1>9 DEF vars
<1> QED BY <1>1, <1>2, <1>3, <1>4, <1>5, <1>6, <1>7, <1>8, <1>9 DEF Next

\* The key an append has read is in the ring when it signs, unless a second rotation has begun
\* since or two overlapped (rotate, keys.py).
THEOREM LoadedKeyKeptCorrect == Spec => []LoadedKeyKept
<1>1. Init => SignInv
  BY DEF Init, SignInv, Thread
<1>2. TypeOK /\ SignInv => LoadedKeyKept
  BY DEF TypeOK, SignInv, LoadedKeyKept
<1> QED BY <1>1, <1>2, InitTypes, TypeStep, SignStep, PTL DEF Spec
=============================================================================
