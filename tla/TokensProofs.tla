---------------------------- MODULE TokensProofs ----------------------------
(***************************************************************************)
(* Proofs about SignEnvelope and Tokens, for any keys, key ids, claims and *)
(* number of verifiers.                                                    *)
(***************************************************************************)
EXTENDS Tokens, SequenceTheorems, TLAPS

-----------------------------------------------------------------------------
(* The text of an envelope.                                                *)

LEMMA AtLeast == \A n \in Nat : n >= 1 /\ n # 1 => n = 2 \/ n = 3 \/ n >= 4
OBVIOUS

LEMMA PartsOfEnvelope ==
  ASSUME NEW S, NEW kid \in Seq(S), kid # <<>>
  PROVE  \A alg, payload, signature :
           LET parts == Parts(alg, kid, payload, signature) IN
           /\ Len(parts) >= 6 /\ parts[1] = Header /\ parts[2] = Word(alg) /\ parts[3] = kid[1]
           /\ Len(kid) = 1 => parts[5] = Base64(payload) /\ parts[6] = signature
           /\ Len(kid) # 1 => parts[6] \in S \cup {HashAlg, Base64(payload)}
<1> SUFFICES ASSUME NEW alg, NEW payload, NEW signature, NEW parts,
                    parts = Parts(alg, kid, payload, signature)
             PROVE  /\ Len(parts) >= 6 /\ parts[1] = Header /\ parts[2] = Word(alg)
                    /\ parts[3] = kid[1]
                    /\ Len(kid) = 1 => parts[5] = Base64(payload) /\ parts[6] = signature
                    /\ Len(kid) # 1 => parts[6] \in S \cup {HashAlg, Base64(payload)}
  OBVIOUS
<1> DEFINE Part == S \cup {Header, Word(alg), HashAlg, Base64(payload), signature}
           front == <<Header, Word(alg)>>
           back == <<HashAlg, Base64(payload), signature>>
           mid == front \o kid
<1>1. front \in Seq(Part) /\ Len(front) = 2 /\ front[1] = Header /\ front[2] = Word(alg)
  OBVIOUS
<1>2. back \in Seq(Part) /\ Len(back) = 3 /\ back[1] = HashAlg /\ back[2] = Base64(payload)
      /\ back[3] = signature
  OBVIOUS
<1>3. kid \in Seq(Part) /\ \A i \in 1..Len(kid) : kid[i] \in S
  OBVIOUS
<1>n. Len(kid) \in Nat /\ Len(kid) >= 1
  OBVIOUS
<1>5. parts = mid \o back
  BY DEF Parts
<1> HIDE DEF front, back, Part
<1>6. /\ mid \in Seq(Part) /\ Len(mid) = Len(kid) + 2
      /\ \A i \in 1..(Len(kid) + 2) : mid[i] = IF i <= 2 THEN front[i] ELSE kid[i - 2]
  <2>1. /\ mid \in Seq(Part) /\ Len(mid) = Len(front) + Len(kid)
        /\ \A i \in 1..(Len(front) + Len(kid)) :
             mid[i] = IF i <= Len(front) THEN front[i] ELSE kid[i - Len(front)]
    BY <1>1, <1>3, ConcatProperties
  <2> HIDE DEF mid
  <2> QED BY <2>1, <1>1, <1>n
<1> HIDE DEF mid
<1>7. /\ Len(parts) = Len(kid) + 5
      /\ \A i \in 1..(Len(kid) + 5) :
           parts[i] = IF i <= Len(kid) + 2 THEN mid[i] ELSE back[i - (Len(kid) + 2)]
  <2>1. /\ Len(parts) = Len(mid) + Len(back)
        /\ \A i \in 1..(Len(mid) + Len(back)) :
             parts[i] = IF i <= Len(mid) THEN mid[i] ELSE back[i - Len(mid)]
    <3>1. mid \in Seq(Part) /\ back \in Seq(Part) /\ parts = mid \o back
      BY <1>2, <1>5, <1>6
    <3> QED BY <3>1, ConcatProperties
  <2> QED BY <2>1, <1>2, <1>6, <1>n
<1>8. Len(parts) >= 6 /\ parts[1] = Header /\ parts[2] = Word(alg) /\ parts[3] = kid[1]
  BY <1>1, <1>3, <1>n, <1>6, <1>7
<1>9. ASSUME Len(kid) = 1 PROVE parts[5] = Base64(payload) /\ parts[6] = signature
  BY <1>2, <1>7, <1>9
<1>10. ASSUME Len(kid) = 2 PROVE parts[6] = Base64(payload)
  BY <1>2, <1>7, <1>10
<1>11. ASSUME Len(kid) = 3 PROVE parts[6] = HashAlg
  BY <1>2, <1>7, <1>11
<1>12. ASSUME Len(kid) >= 4 PROVE parts[6] \in S
  BY <1>1, <1>3, <1>n, <1>6, <1>7, <1>12
<1>13. ASSUME Len(kid) # 1 PROVE parts[6] \in S \cup {HashAlg, Base64(payload)}
  <2>1. Len(kid) = 2 \/ Len(kid) = 3 \/ Len(kid) >= 4
    BY <1>n, <1>13, AtLeast
  <2> QED BY <2>1, <1>10, <1>11, <1>12
<1> QED BY <1>8, <1>9, <1>13

Words == {Word(w) : w \in KidText}

LEMMA KeyIdParts ==
  ASSUME NEW kid \in KeyId
  PROVE  /\ kid \in Seq(Words) /\ kid # <<>>
         /\ OrDefault(kid) \in Seq(Words) /\ OrDefault(kid) # <<>>
         /\ Len(kid) = 1 <=> Len(OrDefault(kid)) = 1
<1>1. kid \in Seq(Words) /\ kid # <<>>
  BY KeyIdIsText DEF Words
<1>2. Word("default") \in Words
  BY KeyIdIsText DEF Words
<1>3. DefaultKid \in Seq(Words) /\ Len(DefaultKid) = 1 /\ Len(EmptyKid) = 1
  BY <1>2 DEF DefaultKid, EmptyKid
<1> QED BY <1>1, <1>3 DEF OrDefault

LEMMA Decoding ==
  /\ \A bytes : Decoded(Base64(bytes)) = bytes
  /\ \A w : Decoded(Word(w))[1] = "other"
BY DEF Decoded, Base64, Word

\* What sign returns is verified with the same key pair: payload and key id come back.
\* This holds for every payload, algorithm, type of key and key id without a "$"
\* (sign and verify in sign/crypto.py).
THEOREM SignedVerifies ==
  ASSUME NEW key, NEW alg, NEW kid \in KeyId, NEW payload, ~SignRaises(key, alg), Len(kid) = 1
  PROVE  LET parts == Envelope(payload, key, alg, kid) IN
         /\ Verifies(parts, key) /\ VerifiedPayload(parts) = payload
         /\ VerifiedKeyId(parts) = OrDefault(kid)[1]
<1> DEFINE parts == Envelope(payload, key, alg, kid)
<1>1. parts = Parts(alg, OrDefault(kid), payload, Base64(SignatureOf(key, payload)))
  BY DEF Envelope
<1> HIDE DEF parts
<1>2. /\ Len(parts) >= 6 /\ parts[1] = Header /\ parts[2] = Word(alg)
      /\ parts[3] = OrDefault(kid)[1]
      /\ parts[5] = Base64(payload) /\ parts[6] = Base64(SignatureOf(key, payload))
  <2> DEFINE k == OrDefault(kid)
             signature == Base64(SignatureOf(key, payload))
  <2>1. k \in Seq(Words) /\ k # <<>> /\ Len(k) = 1
    BY KeyIdParts
  <2>2. parts = Parts(alg, k, payload, signature)
    BY <1>1
  <2> HIDE DEF k, signature
  <2>3. /\ Len(parts) >= 6 /\ parts[1] = Header /\ parts[2] = Word(alg) /\ parts[3] = k[1]
        /\ parts[5] = Base64(payload) /\ parts[6] = signature
    BY <2>1, <2>2, PartsOfEnvelope
  <2> QED BY <2>3 DEF k, signature
<1>3. Accepts(alg, key) /\ alg \in ALLOWED_SIGNATURE_ALGORITHMS
  BY DEF SignRaises
<1>4. key # None
  BY <1>3, KeyKindsDiffer DEF Accepts, KeyPair
<1>5. VerifiedPayload(parts) = payload /\ Decoded(parts[6]) = SignatureOf(key, payload)
  BY <1>2, Decoding DEF VerifiedPayload
<1>6. SignatureHolds(alg, key, VerifiedPayload(parts), Decoded(parts[6]))
  BY <1>3, <1>5 DEF SignatureHolds
<1>7. Verifies(parts, key)
  BY <1>2, <1>3, <1>4, <1>6 DEF Verifies
<1> QED BY <1>2, <1>5, <1>7 DEF parts, VerifiedKeyId

-----------------------------------------------------------------------------
(* The inductive invariant: every token has the signature its own header   *)
(* and claims were given.                                                  *)

TokenInv ==
  \A t \in tokens :
    /\ t.token = [header |-> t.token.header, claims |-> t.token.claims,
                  signature |-> t.token.signature]
    /\ t.token.header.kid \in KeyId
    /\ ~SignRaises(t.key, t.token.header.alg)
    /\ t.token.signature = Envelope(SigningInput(t.token.header, t.token.claims), t.key,
                                    t.token.header.alg, t.token.header.kid)[6]

KeysInv == held \subseteq HeldKey /\ TokenInv

LEMMA IssueKeepsTokenInv ==
  ASSUME KeysInv, NEW k \in held, NEW claims, NEW origin, IssueToken(k, claims, origin)
  PROVE  KeysInv'
<1> DEFINE c == TokenClaims(claims, Cardinality(tokens))
           new == [token |-> Token(c, k), key |-> k.key, origin |-> origin]
<1>1. tokens' = tokens \cup {new} /\ held' = held /\ ~SignRaises(k.key, k.alg)
  BY DEF IssueToken
<1>2. k.kid \in KeyId
  BY DEF KeysInv, HeldKey
<1> HIDE DEF c
<1>3. /\ new.token = [header |-> new.token.header, claims |-> new.token.claims,
                      signature |-> new.token.signature]
      /\ new.key = k.key /\ new.token.header.kid = k.kid /\ new.token.header.alg = k.alg
      /\ new.token.signature = Envelope(SigningInput(new.token.header, new.token.claims), k.key,
                                        k.alg, k.kid)[6]
  BY DEF Token
<1> HIDE DEF new
<1> QED BY <1>1, <1>2, <1>3 DEF KeysInv, TokenInv

LEMMA KeysInvCorrect == Spec => []KeysInv
<1>1. Init => KeysInv
  BY InitialAssumption DEF Init, KeysInv, TokenInv
<1>2. KeysInv /\ [Next]_vars => KeysInv'
  <2> SUFFICES ASSUME KeysInv, [Next]_vars PROVE KeysInv'
    OBVIOUS
  <2>1. ASSUME NEW key \in RsaKey, NEW kid \in KeyId, Rotate(key, kid) PROVE KeysInv'
    <3>1. [key |-> key, kid |-> kid, alg |-> "RS256"] \in HeldKey
      BY DEF HeldKey, KeyPair, ALLOWED_SIGNATURE_ALGORITHMS
    <3> QED BY <2>1, <3>1 DEF Rotate, KeysInv, TokenInv
  <2>2. ASSUME NEW v \in Verifier, NEW n \in 0..MaxPublished, NEW keys \in [1..n -> held],
               Fetch(v, keys) PROVE KeysInv'
    BY <2>2 DEF Fetch, KeysInv, TokenInv
  <2>3. ASSUME NEW v \in Verifier, NEW key \in KeyPair, Configure(v, key) PROVE KeysInv'
    BY <2>3 DEF Configure, KeysInv, TokenInv
  <2>4. ASSUME NEW k \in held, NEW claims \in Claims, Issue(k, claims) PROVE KeysInv'
    BY <2>4, IssueKeepsTokenInv DEF Issue
  <2>5. ASSUME NEW v \in Verifier, NEW t \in tokens, NEW k \in held, Reissue(v, t, k)
        PROVE KeysInv'
    BY <2>5, IssueKeepsTokenInv DEF Reissue
  <2>6. CASE Tick
    BY <2>6 DEF Tick, KeysInv, TokenInv
  <2>7. CASE UNCHANGED vars
    BY <2>7 DEF vars, KeysInv, TokenInv
  <2> QED BY <2>1, <2>2, <2>3, <2>4, <2>5, <2>6, <2>7 DEF Next
<1> QED BY <1>1, <1>2, PTL DEF Spec

\* The application reads back what it signs with any of its keys.
THEOREM EnvelopesReadBackCorrect == Spec => []EnvelopesReadBack
<1>1. KeysInv => EnvelopesReadBack
  <2> SUFFICES ASSUME held \subseteq HeldKey, NEW k \in held, NEW payload,
                      ~SignRaises(k.key, k.alg), Len(k.kid) = 1
               PROVE  LET parts == Envelope(payload, k.key, k.alg, k.kid) IN
                      /\ Verifies(parts, k.key) /\ VerifiedPayload(parts) = payload
                      /\ VerifiedKeyId(parts) = IF k.kid = EmptyKid THEN DefaultKid[1] ELSE k.kid[1]
    BY DEF EnvelopesReadBack, KeysInv
  <2>1. k.kid \in KeyId
    BY DEF HeldKey
  <2> QED BY <2>1, SignedVerifies DEF OrDefault
<1> QED BY <1>1, KeysInvCorrect, PTL

-----------------------------------------------------------------------------
(* Soundness and completeness of the verification.                         *)

\* A word, and the base64 of a signing input, do not decode to a signature.
LEMMA NoSignatures ==
  \A key, bytes :
    /\ \A w : Decoded(Word(w)) # SignatureOf(key, bytes)
    /\ \A header, claims : Decoded(Base64(SigningInput(header, claims))) # SignatureOf(key, bytes)
<1>1. \A key, bytes : SignatureOf(key, bytes)[1] = "signature"
  BY DEF SignatureOf
<1>2. \A header, claims : SigningInput(header, claims)[1] = "signing_input"
  BY DEF SigningInput
<1>3. "signature" # "other" /\ "signature" # "signing_input"
  OBVIOUS
<1> QED BY <1>1, <1>2, <1>3, Decoding, Zenon

\* The signature of an issued token names one key and one signing input, if any.
LEMMA IssuedSignature ==
  ASSUME TokenInv, NEW t \in tokens, NEW key, NEW bytes,
         Decoded(t.token.signature) = SignatureOf(key, bytes)
  PROVE  key = t.key /\ bytes = SigningInput(t.token.header, t.token.claims)
<1> DEFINE h == t.token.header
           own == SigningInput(h, t.token.claims)
           kid == OrDefault(h.kid)
           signature == Base64(SignatureOf(t.key, own))
           parts == Parts(h.alg, kid, own, signature)
<1>1. t.token.signature = parts[6] /\ h.kid \in KeyId
  BY DEF TokenInv, Envelope
<1>2. kid \in Seq(Words) /\ kid # <<>>
  BY <1>1, KeyIdParts
<1> HIDE DEF kid, signature
<1>3. parts[6] = signature \/ parts[6] \in Words \cup {HashAlg, Base64(own)}
  BY <1>2, PartsOfEnvelope
<1> HIDE DEF parts
<1>4. \A text \in Words \cup {HashAlg, Base64(own)} : Decoded(text) # SignatureOf(key, bytes)
  BY NoSignatures DEF Words, HashAlg, own
<1>5. parts[6] = signature
  BY <1>1, <1>3, <1>4
<1>6. SignatureOf(t.key, own) = SignatureOf(key, bytes)
  BY <1>1, <1>5, Decoding DEF signature
<1> QED BY <1>6 DEF SignatureOf

\* What verify checked of any token put together from words, signed texts and signatures, with a
\* key id of any number of parts: a signing input that was issued with the resolved key.
LEMMA VerifiedWasIssued ==
  ASSUME TokenInv, NEW token, NEW given,
         token.header.kid \in Seq(Text), token.header.kid # <<>>,
         token.signature \in Issued("signature"), SignatureVerifies(token, given)
  PROVE  LET key == Resolve(given, token.header.kid) IN
         \/ token.header.alg = "ML-DSA-65" /\ key \in OtherKey
         \/ \E t \in tokens :
              /\ t.key = key
              /\ VerifiedPayload(TokenEnvelope(token)) = SigningInput(t.token.header, t.token.claims)
<1> DEFINE h == token.header
           key == Resolve(given, h.kid)
           own == SigningInput(h, token.claims)
           parts == Parts(h.alg, h.kid, own, token.signature)
           payload == VerifiedPayload(parts)
<1>1. Verifies(parts, key) /\ parts = TokenEnvelope(token)
  BY DEF SignatureVerifies, TokenEnvelope
<1>2. /\ parts[2] = Word(h.alg)
      /\ parts[6] = token.signature \/ parts[6] \in Text \cup {HashAlg, Base64(own)}
  BY PartsOfEnvelope
<1> HIDE DEF parts, key
<1>3. SignatureHolds(h.alg, key, payload, Decoded(parts[6]))
  BY <1>1, <1>2 DEF Verifies, Word
<1>4. CASE h.alg = "ML-DSA-65" /\ key \in OtherKey
  BY <1>4 DEF key
<1>5. CASE Decoded(parts[6]) = SignatureOf(key, payload)
  <2>1. parts[6] \in Issued("signature")
    <3>1. \A text \in {Word(w) : w \in KidText} \cup SignedText \cup {HashAlg, Base64(own)} :
            Decoded(text) # SignatureOf(key, payload)
      BY NoSignatures DEF HashAlg, SignedText
    <3> QED BY <1>2, <1>5, <3>1 DEF Text
  <2>2. PICK t \in tokens : parts[6] = t.token.signature
    BY <2>1 DEF Issued
  <2>3. t.key = key /\ payload = SigningInput(t.token.header, t.token.claims)
    BY <1>5, <2>2, IssuedSignature
  <2> QED BY <1>1, <2>3 DEF key
<1> QED BY <1>3, <1>4, <1>5 DEF SignatureHolds

\* What verify checked of a token it accepts was issued, header and claims together, with
\* the key the verifier resolved, and is the token's own if its key id is one part; for any
\* number of keys, key ids and their parts, tokens and verifiers.
THEOREM AcceptedWereIssuedCorrect == Spec => []AcceptedWereIssued
<1>1. TokenInv => AcceptedWereIssued
  <2> SUFFICES ASSUME TokenInv, NEW v \in Verifier, NEW token \in Presented(v),
                      SignatureVerifies(token, trust[v]),
                      ~(token.header.alg = "ML-DSA-65"
                        /\ Resolve(trust[v], token.header.kid) \in OtherKey)
               PROVE  \E t \in tokens :
                        /\ t.key = Resolve(trust[v], token.header.kid)
                        /\ VerifiedPayload(TokenEnvelope(token))
                             = SigningInput(t.token.header, t.token.claims)
                        /\ Len(token.header.kid) = 1
                             => t.token.header = token.header /\ t.token.claims = token.claims
    BY DEF AcceptedWereIssued, Accepted
  <2> DEFINE h == token.header
             own == SigningInput(h, token.claims)
  <2>1. h.kid \in Seq(Text) /\ h.kid # <<>> /\ token.signature \in Issued("signature")
    <3>1. token.signature \in Issued("signature") /\ h.kid \in PresentedKid
      BY DEF Presented
    <3>2. CASE \E n \in 1..MaxParts : h.kid \in [1..n -> Text]
      BY <3>1, <3>2
    <3>3. ASSUME NEW text \in SignedText, NEW signature \in Issued("signature"),
                 h.kid = <<Word("default"), Word("default"), text, signature>>
          PROVE  h.kid \in Seq(Text) /\ h.kid # <<>>
      <4>1. Word("default") \in Text /\ text \in Text /\ signature \in Text
        BY KeyIdIsText DEF Text
      <4> QED BY <3>3, <4>1
    <3> QED BY <3>1, <3>2, <3>3 DEF PresentedKid
  <2>2. PICK t \in tokens :
          /\ t.key = Resolve(trust[v], h.kid)
          /\ VerifiedPayload(TokenEnvelope(token)) = SigningInput(t.token.header, t.token.claims)
    BY <2>1, VerifiedWasIssued
  <2>3. ASSUME Len(h.kid) = 1
        PROVE  t.token.header = h /\ t.token.claims = token.claims
    <3> DEFINE parts == Parts(h.alg, h.kid, own, token.signature)
    <3>1. parts = TokenEnvelope(token)
      BY DEF TokenEnvelope
    <3>2. parts[5] = Base64(own)
      BY <2>1, <2>3, PartsOfEnvelope
    <3> HIDE DEF parts, own
    <3>3. own = SigningInput(t.token.header, t.token.claims)
      BY <2>2, <3>1, <3>2, Decoding DEF VerifiedPayload
    <3> QED BY <3>3 DEF own, SigningInput
  <2> QED BY <2>2, <2>3
<1> QED BY <1>1, KeysInvCorrect, PTL DEF KeysInv

\* A token whose own key the verifier resolves is verified.
LEMMA OwnKeyVerifies ==
  ASSUME TokenInv, NEW t \in tokens, NEW given, Len(t.token.header.kid) = 1,
         Resolve(given, t.token.header.kid) = t.key
  PROVE  SignatureVerifies(t.token, given)
<1> DEFINE h == t.token.header
           input == SigningInput(h, t.token.claims)
           signature == Base64(SignatureOf(t.key, input))
           parts == Parts(h.alg, h.kid, input, t.token.signature)
           made == Parts(h.alg, OrDefault(h.kid), input, signature)
<1>1. t.token.signature = made[6] /\ h.kid \in KeyId /\ ~SignRaises(t.key, h.alg)
  BY DEF TokenInv, Envelope
<1>2. Len(OrDefault(h.kid)) = 1 => made[6] = signature
  BY <1>1, KeyIdParts, PartsOfEnvelope
<1>3. /\ Len(parts) >= 6 /\ parts[1] = Header /\ parts[2] = Word(h.alg)
      /\ parts[5] = Base64(input) /\ parts[6] = t.token.signature
  BY <1>1, KeyIdParts, PartsOfEnvelope
<1>4. Len(OrDefault(h.kid)) = 1
  BY <1>1, KeyIdParts
<1>5. parts = TokenEnvelope(t.token)
  BY DEF TokenEnvelope
<1> HIDE DEF parts, made, input
<1>6. VerifiedPayload(parts) = input /\ Decoded(parts[6]) = SignatureOf(t.key, input)
  BY <1>1, <1>2, <1>3, <1>4, Decoding DEF VerifiedPayload
<1>7. SignatureHolds(h.alg, t.key, VerifiedPayload(parts), Decoded(parts[6]))
  BY <1>1, <1>6 DEF SignatureHolds, SignRaises
<1>8. t.key # None /\ h.alg \in ALLOWED_SIGNATURE_ALGORITHMS
  BY <1>1, KeyKindsDiffer DEF SignRaises, Accepts, KeyPair
<1>9. Verifies(parts, t.key)
  BY <1>3, <1>7, <1>8 DEF Verifies
<1> QED BY <1>5, <1>9 DEF SignatureVerifies

-----------------------------------------------------------------------------
(* What verifiers hold.                                                    *)

TrustInv ==
  \A v \in Verifier : \/ trust[v][1] = "jwks" /\ trust[v][2] \in Seq(Entry)
                      \/ trust[v][1] = "key" /\ trust[v][2] \in KeyPair

LEMMA JwksEntries ==
  ASSUME held \subseteq HeldKey, NEW n \in Nat, NEW keys \in [1..n -> held]
  PROVE  JwksDocument(keys) \in Seq(Entry)
<1>1. ASSUME NEW i \in 1..n PROVE JwksDocument(keys)[i] \in Entry
  <2>1. keys[i].kid \in KeyId
    BY DEF HeldKey
  <2> QED BY <2>1 DEF JwksDocument, Entry
<1> QED BY <1>1 DEF JwksDocument

LEMMA TrustInvCorrect == Spec => [](KeysInv /\ TrustInv /\ DOMAIN trust = Verifier)
<1> DEFINE Inv == TrustInv /\ DOMAIN trust = Verifier
<1>1. Init => Inv
  <2>1. <<>> \in Seq(Entry)
    OBVIOUS
  <2>2. <<"jwks", <<>>>>[1] = "jwks" /\ <<"jwks", <<>>>>[2] = <<>>
    OBVIOUS
  <2> SUFFICES ASSUME Init PROVE Inv
    OBVIOUS
  <2> DEFINE empty == <<"jwks", <<>>>>
  <2>3. DOMAIN trust = Verifier /\ \A v \in Verifier : trust[v] = empty
    BY DEF Init
  <2> HIDE DEF empty
  <2>4. empty[1] = "jwks" /\ empty[2] \in Seq(Entry)
    BY <2>1, <2>2 DEF empty
  <2> QED BY <2>3, <2>4, Zenon DEF TrustInv
<1>2. KeysInv /\ Inv /\ [Next]_vars => Inv'
  <2> SUFFICES ASSUME KeysInv, Inv, [Next]_vars PROVE Inv'
    OBVIOUS
  <2>1. ASSUME NEW v \in Verifier, NEW n \in 0..MaxPublished, NEW keys \in [1..n -> held],
               Fetch(v, keys) PROVE Inv'
    <3>1. JwksDocument(keys) \in Seq(Entry)
      BY JwksEntries DEF KeysInv
    <3> DEFINE new == <<"jwks", JwksDocument(keys)>>
    <3>2. new[1] = "jwks" /\ new[2] \in Seq(Entry)
      BY <3>1
    <3>3. trust' = [trust EXCEPT ![v] = new]
      BY <2>1 DEF Fetch
    <3> HIDE DEF new
    <3>4. /\ DOMAIN trust' = Verifier
          /\ \A w \in Verifier : trust'[w] = IF w = v THEN new ELSE trust[w]
      BY <3>3
    <3> QED BY <3>2, <3>4, Zenon DEF TrustInv
  <2>2. ASSUME NEW v \in Verifier, NEW key \in KeyPair, Configure(v, key) PROVE Inv'
    BY <2>2 DEF Configure, TrustInv
  <2>3. CASE UNCHANGED trust
    BY <2>3 DEF TrustInv
  <2> QED BY <2>1, <2>2, <2>3 DEF Next, vars, Tick, Rotate, Issue, Reissue, IssueToken
<1> QED BY <1>1, <1>2, KeysInvCorrect, PTL DEF Spec

\* Every RSA key in a verifier's JWKS document verifies the tokens issued with it, unless
\* an RSA entry with the same key id comes before it.
THEOREM ListedKeysVerifyCorrect == Spec => []ListedKeysVerify
<1>1. KeysInv /\ TrustInv => ListedKeysVerify
  <2> SUFFICES ASSUME TokenInv, TrustInv, NEW v \in Verifier, NEW t \in tokens,
                      trust[v][1] = "jwks", Len(t.token.header.kid) = 1,
                      NEW entries, entries = trust[v][2],
                      NEW i \in DOMAIN entries,
                      entries[i].key = t.key, entries[i].kid = t.token.header.kid,
                      \A j \in 1..(i - 1) : entries[j].kty = "RSA" => entries[j].kid # entries[i].kid
               PROVE  SignatureVerifies(t.token, trust[v])
    BY DEF ListedKeysVerify, KeysInv
  <2> DEFINE kid == t.token.header.kid
             fits == {j \in DOMAIN entries :
                        entries[j].kty = "RSA" /\ (entries[j].kid = kid \/ Len(entries) = 1)}
  <2>1. entries \in Seq(Entry)
    BY DEF TrustInv
  <2>2. DOMAIN entries = 1..Len(entries) /\ Len(entries) \in Nat /\ i \in 1..Len(entries)
    BY <2>1
  <2>3. t.key # None
    BY KeyKindsDiffer DEF TokenInv, SignRaises, Accepts, KeyPair
  <2>4. entries[i] \in Entry
    BY <2>1, <2>2
  <2>5. i \in fits
    BY <2>3, <2>4 DEF Entry
  <2>6. \A j \in fits : i <= j
    BY <2>2
  <2>7. (CHOOSE j \in fits : \A m \in fits : j <= m) = i
    <3>1. \A j \in fits : j \in Int
      BY <2>2
    <3> HIDE DEF fits
    <3>2. \A j \in fits : (\A m \in fits : j <= m) => j = i
      BY <2>5, <2>6, <3>1
    <3> QED BY <2>5, <2>6, <3>2
  <2>8. ResolveIn(entries, kid) = t.key
    BY <2>5, <2>7 DEF ResolveIn
  <2>9. Resolve(trust[v], kid) = t.key
    BY <2>8 DEF Resolve
  <2> QED BY <2>9, OwnKeyVerifies
<1> QED BY <1>1, TrustInvCorrect, PTL

-----------------------------------------------------------------------------
(* The life of a token.                                                    *)

LEMMA SetDefaultKeeps ==
  ASSUME NEW claims, NEW name, NEW value, NEW other \in DOMAIN claims
  PROVE  /\ other \in DOMAIN SetDefault(claims, name, value)
         /\ SetDefault(claims, name, value)[other] = claims[other]
BY DEF SetDefault

LEMMA SetDefaultSets ==
  ASSUME NEW claims, NEW name, NEW value
  PROVE  /\ name \in DOMAIN SetDefault(claims, name, value)
         /\ name \notin DOMAIN claims => SetDefault(claims, name, value)[name] = value
         /\ DOMAIN SetDefault(claims, name, value) = DOMAIN claims \cup {name}
BY DEF SetDefault

LEMMA TokenClaimsExp ==
  ASSUME NEW claims, NEW jti
  PROVE  LET c == TokenClaims(claims, jti) IN
         /\ {"iat", "exp", "jti"} \subseteq DOMAIN c
         /\ c["exp"] = IF "exp" \in DOMAIN claims THEN claims["exp"] ELSE now + Ttl
<1> DEFINE one == SetDefault(claims, "iat", now)
           two == SetDefault(one, "exp", now + Ttl)
           three == SetDefault(two, "jti", jti)
<1>1. "iat" \in DOMAIN one /\ DOMAIN one = DOMAIN claims \cup {"iat"}
  BY SetDefaultSets
<1>2. "exp" \in DOMAIN claims => one["exp"] = claims["exp"]
  BY SetDefaultKeeps
<1> HIDE DEF one
<1>3. "exp" \in DOMAIN two /\ DOMAIN two = DOMAIN one \cup {"exp"}
  BY SetDefaultSets
<1>4. "exp" \in DOMAIN one => two["exp"] = one["exp"]
  BY SetDefaultKeeps
<1>5. "exp" \notin DOMAIN one => two["exp"] = now + Ttl
  BY SetDefaultSets
<1> HIDE DEF two
<1>6. DOMAIN three = DOMAIN two \cup {"jti"}
  BY SetDefaultSets
<1>7. three["exp"] = two["exp"]
  BY <1>3, SetDefaultKeeps
<1>8. TokenClaims(claims, jti) = three
  BY DEF TokenClaims, one, two
<1> HIDE DEF three
<1> QED BY <1>1, <1>2, <1>3, <1>4, <1>5, <1>6, <1>7, <1>8

LifeInv ==
  /\ tick \in Nat
  /\ \A t \in tokens :
       /\ t.key \in KeyPair
       /\ {"iat", "exp", "jti"} \subseteq DOMAIN t.token.claims
       /\ \/ t.origin = None
          \/ /\ t.origin \in Nat /\ t.origin <= tick
             /\ t.token.claims["exp"] = (t.origin \div TicksPerSecond) + Ttl

LEMMA LifeStep ==
  ASSUME LifeInv, NEW k, NEW claims, NEW origin, IssueToken(k, claims, origin),
         \/ origin = None
         \/ "exp" \notin DOMAIN claims /\ origin = tick
         \/ /\ "exp" \in DOMAIN claims /\ origin \in Nat /\ origin <= tick
            /\ claims["exp"] = (origin \div TicksPerSecond) + Ttl
  PROVE  LifeInv'
<1> DEFINE c == TokenClaims(claims, Cardinality(tokens))
           new == [token |-> Token(c, k), key |-> k.key, origin |-> origin]
<1>1. tokens' = tokens \cup {new} /\ tick' = tick
  BY DEF IssueToken
<1>2. /\ {"iat", "exp", "jti"} \subseteq DOMAIN c
      /\ c["exp"] = IF "exp" \in DOMAIN claims THEN claims["exp"] ELSE now + Ttl
  BY TokenClaimsExp
<1>3. k.key \in KeyPair
  BY DEF IssueToken, SignRaises, Accepts, KeyPair
<1> HIDE DEF c
<1>4. new.token.claims = c /\ new.key = k.key /\ new.origin = origin
  BY DEF Token
<1> HIDE DEF new
<1>5. \/ new.origin = None
      \/ /\ new.origin \in Nat /\ new.origin <= tick
         /\ new.token.claims["exp"] = (new.origin \div TicksPerSecond) + Ttl
  BY <1>2, <1>4 DEF LifeInv, now
<1> QED BY <1>1, <1>2, <1>3, <1>4, <1>5 DEF LifeInv

LEMMA LifeInvCorrect == Spec => []LifeInv
<1>1. Init => LifeInv
  BY DEF Init, LifeInv
<1>2. LifeInv /\ [Next]_vars => LifeInv'
  <2> SUFFICES ASSUME LifeInv, [Next]_vars PROVE LifeInv'
    OBVIOUS
  <2>1. ASSUME NEW k \in held, NEW claims \in Claims, Issue(k, claims) PROVE LifeInv'
    BY <2>1, LifeStep DEF Issue
  <2>2. ASSUME NEW v \in Verifier, NEW t \in tokens, NEW k \in held, Reissue(v, t, k)
        PROVE LifeInv'
    <3>1. IssueToken(k, t.token.claims, t.origin)
      BY <2>2 DEF Reissue
    <3> QED BY <3>1, LifeStep DEF LifeInv
  <2>3. CASE Tick
    BY <2>3 DEF Tick, LifeInv
  <2>4. CASE UNCHANGED <<tick, tokens>>
    BY <2>4 DEF LifeInv
  <2> QED BY <2>1, <2>2, <2>3, <2>4 DEF Next, vars, Rotate, Fetch, Configure
<1> QED BY <1>1, <1>2, PTL DEF Spec

\* Every reachable state is well typed.
THEOREM TokensTypeCorrect == Spec => []TypeOK
<1>1. KeysInv /\ TrustInv /\ LifeInv => TypeOK
  BY DEF KeysInv, TrustInv, LifeInv, TypeOK
<1> QED BY <1>1, KeysInvCorrect, TrustInvCorrect, LifeInvCorrect, PTL

LEMMA WholeSeconds ==
  ASSUME NEW n \in Nat
  PROVE  /\ n \div TicksPerSecond \in Nat
         /\ (n \div TicksPerSecond) * TicksPerSecond <= n
         /\ n < (n \div TicksPerSecond) * TicksPerSecond + TicksPerSecond
BY ClockAssumption

LEMMA Products ==
  ASSUME NEW a \in Nat, NEW b \in Nat, NEW c \in Nat, a <= b
  PROVE  a * c \in Nat /\ a * c <= b * c
OBVIOUS

LEMMA SecondsAndTicks ==
  ASSUME NEW o \in Nat, NEW t \in Nat
  PROVE  /\ t \div TicksPerSecond < (o \div TicksPerSecond) + Ttl => t - o < Ttl * TicksPerSecond
         /\ t - o <= (Ttl - 1) * TicksPerSecond
              => t \div TicksPerSecond < (o \div TicksPerSecond) + Ttl
<1> DEFINE T == TicksPerSecond
           p == o \div T
           q == t \div T
<1>1. T \in Nat /\ T >= 1 /\ Ttl \in Nat
  BY ClockAssumption
<1>2. p \in Nat /\ p * T <= o /\ o < p * T + T
  BY WholeSeconds
<1>3. q \in Nat /\ q * T <= t /\ t < q * T + T
  BY WholeSeconds
<1> HIDE DEF T, p, q
<1>4. (p + Ttl) * T = p * T + Ttl * T /\ (q + 1) * T = q * T + T /\ (Ttl - 1) * T = Ttl * T - T
  BY <1>1, <1>2, <1>3
<1>5. p * T \in Nat /\ q * T \in Nat /\ Ttl * T \in Nat
  BY <1>1, <1>2, <1>3, Products
<1>6. ASSUME q < p + Ttl PROVE t - o < Ttl * T
  <2>1. (q + 1) * T <= (p + Ttl) * T
    BY <1>1, <1>2, <1>3, <1>6, Products
  <2> QED BY <2>1, <1>2, <1>3, <1>4, <1>5, <1>1
<1>7. ASSUME t - o <= (Ttl - 1) * T PROVE q < p + Ttl
  <2> SUFFICES ASSUME q >= p + Ttl PROVE FALSE
    BY <1>1, <1>2, <1>3
  <2>1. (p + Ttl) * T <= q * T
    BY <1>1, <1>2, <1>3, Products
  <2> QED BY <2>1, <1>1, <1>2, <1>3, <1>4, <1>5, <1>7
<1> QED BY <1>6, <1>7 DEF p, q, T

\* However often the claims of a token were verified and issued again, nobody accepts it
\* once ttl_seconds have passed since the first issue, and whoever holds its key accepts
\* it until the last second, for any ttl and any fineness of the clock.
THEOREM LivesItsTtlCorrect == Spec => []LivesItsTtl
<1>1. TokenInv /\ LifeInv => LivesItsTtl
  <2> SUFFICES ASSUME TokenInv, LifeInv, NEW t \in tokens, Timed(t)
               PROVE  /\ \A v \in Verifier :
                           Accepted(t.token, trust[v], None)
                             => TicksSince(t) < Ttl * TicksPerSecond
                      /\ Len(t.token.header.kid) = 1 /\ TicksSince(t) <= (Ttl - 1) * TicksPerSecond
                           => \A issuer \in {None} \cup {t.token.claims[n] :
                                                n \in DOMAIN t.token.claims \cap {"iss"}} :
                                Accepted(t.token, <<"key", t.key>>, issuer)
    BY DEF LivesItsTtl
  <2>1. /\ tick \in Nat /\ t.origin \in Nat /\ "exp" \in DOMAIN t.token.claims
        /\ t.token.claims["exp"] = (t.origin \div TicksPerSecond) + Ttl
    BY DEF LifeInv, Timed
  <2>2. (t.origin \div TicksPerSecond) + Ttl \in Nat
    BY <2>1, WholeSeconds, ClockAssumption
  <2>3. Expired(t.token.claims) <=> ~(now < (t.origin \div TicksPerSecond) + Ttl)
    <3>1. Has(t.token.claims, "exp")
      BY <2>1, <2>2, NoneAssumption DEF Has
    <3>2. now \in Nat
      BY <2>1, WholeSeconds DEF now
    <3> QED BY <2>1, <2>2, <3>1, <3>2 DEF Expired
  <2>4. ASSUME NEW v \in Verifier, Accepted(t.token, trust[v], None)
        PROVE  TicksSince(t) < Ttl * TicksPerSecond
    <3>1. now < (t.origin \div TicksPerSecond) + Ttl
      BY <2>3, <2>4 DEF Accepted
    <3> QED BY <3>1, <2>1, SecondsAndTicks DEF now, TicksSince
  <2>5. ASSUME Len(t.token.header.kid) = 1, TicksSince(t) <= (Ttl - 1) * TicksPerSecond,
               NEW issuer \in {None} \cup {t.token.claims[n] :
                                           n \in DOMAIN t.token.claims \cap {"iss"}}
        PROVE  Accepted(t.token, <<"key", t.key>>, issuer)
    <3>1. ~Expired(t.token.claims)
      BY <2>1, <2>3, <2>5, SecondsAndTicks DEF now, TicksSince
    <3>2. ~Early(t.token.claims)
      BY DEF Early, Timed
    <3>3. Resolve(<<"key", t.key>>, t.token.header.kid) = t.key
      BY DEF Resolve
    <3>4. SignatureVerifies(t.token, <<"key", t.key>>)
      BY <2>5, <3>3, OwnKeyVerifies
    <3>5. issuer # None => Has(t.token.claims, "iss") /\ t.token.claims["iss"] = issuer
      BY DEF Has
    <3> QED BY <3>1, <3>2, <3>4, <3>5 DEF Accepted
  <2> QED BY <2>4, <2>5
<1> QED BY <1>1, KeysInvCorrect, LifeInvCorrect, PTL DEF KeysInv
=============================================================================
