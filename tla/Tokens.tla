------------------------------- MODULE Tokens -------------------------------
(***************************************************************************)
(* osivault.tokens: an application that generates keys and signs tokens,   *)
(* and verifiers that hold a JWKS document it has published, possibly an   *)
(* old one, or one of its keys.  Verified claims may be issued again.      *)
(* verify, sign and jwks_document change no state, so they are operators.  *)
(* Claims are functions on the names that are present.                     *)
(***************************************************************************)
EXTENDS SignEnvelope, FiniteSets

CONSTANTS
  Verifier,
  Claims,          \* the claims the application passes to issue
  Payload,         \* what it passes to sign
  InitialKeys,     \* the keys it starts with: [key, kid, alg]
  TicksPerSecond,  \* the clock is finer than the seconds the code works in
  Ttl,             \* ttl_seconds
  MaxTick, MaxTokens, MaxPublished,
  MaxParts         \* of the key ids in tokens that are presented

\* The alg of a key is what the application passes; "HS256" stands for one that is refused.
HeldKey == [key : KeyPair, kid : KeyId, alg : ALLOWED_SIGNATURE_ALGORITHMS \cup {"HS256"}]

ASSUME ClockAssumption == TicksPerSecond \in Nat \ {0} /\ Ttl \in Nat
ASSUME InitialAssumption == InitialKeys \subseteq HeldKey
ASSUME NoneAssumption == None \notin Nat

VARIABLES
  tick,    \* the time
  held,    \* key pairs of the application: [key, kid, alg]
  trust,   \* trust[v]: what v passes to verify, <<"jwks", entries>> or <<"key", key>>
  tokens   \* history: the tokens issued, each with its key and the first issue of its claims

vars == <<tick, held, trust, tokens>>

now == tick \div TicksPerSecond  \* int(time.time())

-----------------------------------------------------------------------------
(* The functions of tokens/jwt.py.                                         *)

\* Mutant: every key is listed as RSA.
JwksDocumentUntyped(keys) ==
  [i \in DOMAIN keys |-> [kty |-> "RSA", kid |-> keys[i].kid, key |-> keys[i].key]]

JwksDocument(keys) ==
  [i \in DOMAIN keys |-> IF keys[i].key \in RsaKey
                         THEN [kty |-> "RSA", kid |-> keys[i].kid, key |-> keys[i].key]
                         ELSE [kty |-> "OKP", kid |-> keys[i].kid, key |-> None]]

SetDefault(claims, name, value) ==
  IF name \in DOMAIN claims THEN claims
  ELSE [n \in DOMAIN claims \cup {name} |-> IF n = name THEN value ELSE claims[n]]

\* Mutant: claims that are issued again get a new life.
TokenClaimsRenewed(claims, jti) ==
  SetDefault(SetDefault([n \in DOMAIN claims \cup {"exp"} |->
    IF n = "exp" THEN now + Ttl ELSE claims[n]], "iat", now), "jti", jti)

TokenClaims(claims, jti) ==
  SetDefault(SetDefault(SetDefault(claims, "iat", now), "exp", now + Ttl), "jti", jti)

\* Mutant: only the claims are signed.
SigningInputBare(header, claims) == <<"signing_input", claims, claims>>

SigningInput(header, claims) == <<"signing_input", header, claims>>

\* Its signature is the sixth part of the envelope, whatever that is.
Token(claims, k) ==
  LET header == [alg |-> k.alg, kid |-> k.kid]
      input == SigningInput(header, claims)
  IN [header |-> header, claims |-> claims, signature |-> Envelope(input, k.key, k.alg, k.kid)[6]]

\* Mutant: the loop ends at the first entry with the key id, whatever its type.
ResolveInAnyType(entries, kid) ==
  LET fits == {i \in DOMAIN entries : entries[i].kid = kid \/ Len(entries) = 1}
  IN IF fits = {} THEN None
     ELSE entries[CHOOSE i \in fits : \A j \in fits : i <= j].key

\* The first RSA entry with the token's key id, or the RSA entry that is alone in the
\* document; None if there is none.
ResolveIn(entries, kid) ==
  LET fits == {i \in DOMAIN entries :
                 entries[i].kty = "RSA" /\ (entries[i].kid = kid \/ Len(entries) = 1)}
  IN IF fits = {} THEN None
     ELSE entries[CHOOSE i \in fits : \A j \in fits : i <= j].key

Resolve(given, kid) == IF given[1] = "jwks" THEN ResolveIn(given[2], kid) ELSE given[2]

\* The envelope verify makes of a token, with the key id and the signature as they are in it.
TokenEnvelope(token) ==
  LET h == token.header IN
  Parts(h.alg, h.kid, SigningInput(h, token.claims), token.signature)

SignatureVerifies(token, given) ==
  Verifies(TokenEnvelope(token), Resolve(given, token.header.kid))

Has(claims, name) == name \in DOMAIN claims /\ claims[name] # None

Expired(claims) == Has(claims, "exp") /\ now >= claims["exp"]

Early(claims) == Has(claims, "nbf") /\ now < claims["nbf"]

\* verify returns the claims if TRUE, and raises TokenError if not.
Accepted(token, given, issuer) ==
  /\ SignatureVerifies(token, given)
  /\ ~Expired(token.claims) /\ ~Early(token.claims)
  /\ issuer # None => Has(token.claims, "iss") /\ token.claims["iss"] = issuer

-----------------------------------------------------------------------------
(* The application and its verifiers.                                      *)

Init ==
  /\ tick = 0
  /\ held = InitialKeys
  /\ trust = [v \in Verifier |-> <<"jwks", <<>>>>]
  /\ tokens = {}

\* rotate: a pair nobody has, and a random id.  The other pairs stay in use.
Rotate(key, kid) ==
  /\ \A k \in held : k.key # key /\ k.kid # kid
  /\ held' = held \cup {[key |-> key, kid |-> kid, alg |-> "RS256"]}
  /\ UNCHANGED <<tick, trust, tokens>>

\* v fetches the JWKS document of some of the keys, in any order, and keeps it.
Fetch(v, keys) ==
  /\ trust' = [trust EXCEPT ![v] = <<"jwks", JwksDocument(keys)>>]
  /\ UNCHANGED <<tick, held, tokens>>

Configure(v, key) ==
  /\ trust' = [trust EXCEPT ![v] = <<"key", key>>]
  /\ UNCHANGED <<tick, held, tokens>>

IssueToken(k, claims, origin) ==
  /\ Cardinality(tokens) < MaxTokens
  /\ ~SignRaises(k.key, k.alg)
  /\ tokens' = tokens \cup {[token |-> Token(TokenClaims(claims, Cardinality(tokens)), k),
                             key |-> k.key, origin |-> origin]}
  /\ UNCHANGED <<tick, held, trust>>

\* The origin of claims is the tick at which issue gave them their exp; claims that came
\* with an exp have none.
Issue(k, claims) == IssueToken(k, claims, IF "exp" \in DOMAIN claims THEN None ELSE tick)

\* Claims that verify returned are issued again, with any key of now.
Reissue(v, t, k) ==
  /\ Accepted(t.token, trust[v], None)
  /\ IssueToken(k, t.token.claims, t.origin)

Tick == tick < MaxTick /\ tick' = tick + 1 /\ UNCHANGED <<held, trust, tokens>>

Next ==
  \/ Tick
  \/ \E key \in RsaKey, kid \in KeyId : Rotate(key, kid)
  \/ \E v \in Verifier, n \in 0..MaxPublished : \E keys \in [1..n -> held] : Fetch(v, keys)
  \/ \E v \in Verifier, key \in KeyPair : Configure(v, key)
  \/ \E k \in held, claims \in Claims : Issue(k, claims)
  \/ \E v \in Verifier, t \in tokens, k \in held : Reissue(v, t, k)

Spec == Init /\ [][Next]_vars

-----------------------------------------------------------------------------
(* Properties.                                                             *)

Entry == [kty : {"RSA"}, kid : KeyId, key : RsaKey] \cup [kty : {"OKP"}, kid : KeyId, key : {None}]

TypeOK ==
  /\ tick \in Nat /\ held \subseteq HeldKey
  /\ \A v \in Verifier : \/ trust[v][1] = "jwks" /\ trust[v][2] \in Seq(Entry)
                         \/ trust[v][1] = "key" /\ trust[v][2] \in KeyPair
  /\ \A t \in tokens : /\ t.key \in KeyPair /\ t.origin \in Nat \cup {None}
                       /\ {"iat", "exp", "jti"} \subseteq DOMAIN t.token.claims

\* Tokens anybody can put together for v: any algorithm, claims that were issued or not, and one
\* of the issued signatures, since nobody has another.  The key id has up to MaxParts parts,
\* or four, of which verify takes the last two for payload and signature: words, the text
\* that was signed for a token, and signatures.  Without a key for its id v refuses a token,
\* whatever the rest of it.
Issued(part) == {t.token[part] : t \in tokens}
SignedText == {Base64(SigningInput(t.token.header, t.token.claims)) : t \in tokens}
Text == {Word(w) : w \in KidText} \cup SignedText \cup Issued("signature")
PresentedKid ==
  (UNION {[1..n -> Text] : n \in 1..MaxParts})
    \cup {<<Word("default"), Word("default"), text, signature>> :
            text \in SignedText, signature \in Issued("signature")}
Presented(v) ==
  [header : [alg : ALLOWED_SIGNATURE_ALGORITHMS \cup {"HS256"},
             kid : {kid \in PresentedKid : Resolve(trust[v], kid) # None}],
   claims : Claims \cup Issued("claims"),
   signature : Issued("signature")]

\* What verify checked of a token it accepts is the header and claims of one token, issued
\* with the key the verifier resolved.  They are the accepted token's own if its key id is
\* one part: whatever else was signed with the key, header, claims and signature belong
\* together.  Of a key id with a "$" no more is promised, since verify does not compare
\* the payload it checked with the token's.  Left out is the key type for which sign's
\* verify checks nothing (verify in tokens/jwt.py, verify in sign/crypto.py).
AcceptedWereIssued ==
  \A v \in Verifier : \A token \in Presented(v) :
    LET h == token.header
        key == Resolve(trust[v], h.kid) IN
    Accepted(token, trust[v], None) =>
      \/ h.alg = "ML-DSA-65" /\ key \in OtherKey
      \/ \E t \in tokens :
           /\ t.key = key
           /\ VerifiedPayload(TokenEnvelope(token)) = SigningInput(t.token.header, t.token.claims)
           /\ Len(h.kid) = 1 => t.token.header = h /\ t.token.claims = token.claims

\* Claims that name no end or beginning of their own.
Timed(t) == t.origin # None /\ ~Has(t.token.claims, "nbf")
TicksSince(t) == tick - t.origin

\* A token lives for ttl_seconds after the first issue of its claims: nobody accepts it
\* later, however often it was verified and issued again, and whoever trusts its key
\* accepts it until less than one second is missing, if its key id has no "$" (issue
\* and verify in tokens/jwt.py work in whole seconds).
LivesItsTtl ==
  \A t \in {t \in tokens : Timed(t)} :
    /\ \A v \in Verifier :
         Accepted(t.token, trust[v], None) => TicksSince(t) < Ttl * TicksPerSecond
    /\ Len(t.token.header.kid) = 1 /\ TicksSince(t) <= (Ttl - 1) * TicksPerSecond
         => \A issuer \in {None} \cup {t.token.claims[n] : n \in DOMAIN t.token.claims \cap {"iss"}} :
              Accepted(t.token, <<"key", t.key>>, issuer)

\* A JWKS document is enough to verify the tokens of the RSA keys it lists, also after
\* rotations and next to entries of other types: only an RSA entry with the same key id
\* before it hides a key (jwks_document and verify in tokens/jwt.py).
ListedKeysVerify ==
  \A v \in Verifier, t \in tokens :
    trust[v][1] = "jwks" /\ Len(t.token.header.kid) = 1 =>
      LET entries == trust[v][2] IN
      \A i \in DOMAIN entries :
        (/\ entries[i].key = t.key /\ entries[i].kid = t.token.header.kid
         /\ \A j \in 1..(i - 1) : entries[j].kty = "RSA" => entries[j].kid # entries[i].kid)
        => SignatureVerifies(t.token, trust[v])

\* What sign returns, verify returns the payload and key id of, given the key pair's other
\* half, for every algorithm and type of key sign takes; a key id may not hold a "$", and
\* without one the envelope says "default" (sign and verify in sign/crypto.py).
EnvelopesReadBack ==
  \A k \in held, payload \in Payload :
    ~SignRaises(k.key, k.alg) /\ Len(k.kid) = 1 =>
      LET parts == Envelope(payload, k.key, k.alg, k.kid) IN
      /\ Verifies(parts, k.key) /\ VerifiedPayload(parts) = payload
      /\ VerifiedKeyId(parts) = IF k.kid = EmptyKid THEN DefaultKid[1] ELSE k.kid[1]
=============================================================================
