------------------------------ MODULE MCTokens ------------------------------
(* A small instance of Tokens for TLC. *)
EXTENDS Tokens

CONSTANTS r1, r2, e1, p1, x1, v1, service

\* "", "default", a random id of rotate, and an id with a "$".
MCKeyId == {EmptyKid, DefaultKid, <<Word("a")>>, <<Word("a"), Word("default")>>}

\* One RSA key under two algorithms and ids, one of them of two parts; an Ed25519 key that
\* shares its id with the RSA key; a key without one.
MCInitialKeys ==
  {[key |-> r1, kid |-> DefaultKid, alg |-> "RS256"],
   [key |-> r1, kid |-> <<Word("a"), Word("default")>>, alg |-> "ML-DSA-65"],
   [key |-> e1, kid |-> DefaultKid, alg |-> "Ed25519"],
   [key |-> p1, kid |-> EmptyKid, alg |-> "ML-DSA-65"]}

\* An issuer; a beginning in the next second with an explicit "never expires".
MCClaims == {[iss |-> service], [nbf |-> 1, exp |-> None]}
=============================================================================
