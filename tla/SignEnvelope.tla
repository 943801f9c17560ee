---------------------------- MODULE SignEnvelope ----------------------------
(***************************************************************************)
(* osivault.sign: envelopes "OSV1-SIG$alg$kid$hash_alg$payload$signature". *)
(* The text of an envelope is the sequence of its parts, as split("$")     *)
(* returns it.  A part is a text without "$": a word, or the base64 of     *)
(* some bytes.  verify tells parts apart by their position only, so a key  *)
(* id that holds a "$" is several parts and moves the ones after it.  A    *)
(* key pair is one value, which stands for its public half when a verifier *)
(* has it.  The bytes of a signature name the key and the bytes it was     *)
(* made of; the algorithm only restricts the type of the key, which        *)
(* decides how it signs.                                                   *)
(***************************************************************************)
EXTENDS Naturals, Sequences

CONSTANTS
  RsaKey, Ed25519Key, PqcKey,  \* key pairs by type; PqcKey has sign_pqc and verify_pqc
  OtherKey,                    \* any other object passed as a key
  None,                        \* no key
  KidText, KeyId               \* texts without "$"; key ids, as the sequence of their parts

KeyPair == RsaKey \cup Ed25519Key \cup PqcKey \cup OtherKey

ASSUME KeyKindsDiffer ==
  /\ RsaKey \cap (Ed25519Key \cup PqcKey \cup OtherKey) = {}
  /\ Ed25519Key \cap (PqcKey \cup OtherKey) = {} /\ PqcKey \cap OtherKey = {}
  /\ None \notin KeyPair

\* A text that is no base64, and urlsafe_b64encode(bytes).
Word(w) == <<"word", w>>
Base64(bytes) == <<"base64", bytes>>

\* urlsafe_b64decode skips what is not of its alphabet: a word gives some bytes too, but
\* none that anybody signed, and no signature.
Decoded(text) == IF text[1] = "base64" THEN text[2] ELSE <<"other", text[2]>>

SignatureOf(key, bytes) == <<"signature", key, bytes>>

Header == Word("OSV1-SIG")
HashAlg == Word("SHA256")

\* The key ids the application itself chooses are words.
ASSUME KeyIdIsText ==
  "default" \in KidText /\ KeyId \subseteq Seq({Word(w) : w \in KidText}) \ {<<>>}

EmptyKid == <<Word("")>>
DefaultKid == <<Word("default")>>
OrDefault(kid) == IF kid = EmptyKid THEN DefaultKid ELSE kid

ALLOWED_SIGNATURE_ALGORITHMS == {"RS256", "Ed25519", "ML-DSA-65"}

\* The types of key that sign with an algorithm.
Accepts(alg, key) ==
  \/ alg = "RS256" /\ key \in RsaKey
  \/ alg = "Ed25519" /\ key \in Ed25519Key
  \/ alg = "ML-DSA-65" /\ key \in PqcKey \cup Ed25519Key \cup RsaKey

SignRaises(key, alg) == alg \notin ALLOWED_SIGNATURE_ALGORITHMS \/ ~Accepts(alg, key)

\* f"{SIG_HEADER_PREFIX}${alg}${kid}${hash_alg}${b64_payload}${b64_sig}", split again.
Parts(alg, kid, payload, signature) ==
  <<Header, Word(alg)>> \o kid \o <<HashAlg, Base64(payload), signature>>

\* Mutant: the key id is left empty, not replaced by "default".
EnvelopeEmptyKid(payload, key, alg, kid) ==
  Parts(alg, kid, payload, Base64(SignatureOf(key, payload)))

\* What sign returns if it does not raise.
Envelope(payload, key, alg, kid) ==
  Parts(alg, OrDefault(kid), payload, Base64(SignatureOf(key, payload)))

\* verify's chain of branches on the algorithm.  For ML-DSA-65 it has no last else, unlike
\* sign's: with a key of no known type it checks nothing and raises nothing.
SignatureHolds(alg, key, payload, signature) ==
  \/ Accepts(alg, key) /\ signature = SignatureOf(key, payload)
  \/ alg = "ML-DSA-65" /\ key \in OtherKey

VerifiedPayload(parts) == Decoded(parts[5])
VerifiedKeyId(parts) == parts[3]

\* verify(envelope, public_key=key), or with the key a key_resolver returned: TRUE when it
\* returns, and then the Envelope of VerifiedPayload and VerifiedKeyId.  Parts after the
\* sixth are ignored, so Parts has one for the signature, the last.
Verifies(parts, key) ==
  /\ Len(parts) >= 6 /\ parts[1] = Header
  /\ key # None
  /\ \E alg \in ALLOWED_SIGNATURE_ALGORITHMS :
       parts[2] = Word(alg) /\ SignatureHolds(alg, key, VerifiedPayload(parts), Decoded(parts[6]))
=============================================================================
