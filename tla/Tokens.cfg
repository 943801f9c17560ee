SPECIFICATION Spec
CONSTANTS
  r1 = r1
  r2 = r2
  e1 = e1
  p1 = p1
  x1 = x1
  v1 = v1
  service = service
  None = None
  RsaKey = {r1, r2}
  Ed25519Key = {e1}
  PqcKey = {p1}
  OtherKey = {x1}
  KidText = {"", "default", "a"}
  KeyId <- MCKeyId
  Verifier = {v1}
  Claims <- MCClaims
  Payload = {1, 2}
  InitialKeys <- MCInitialKeys
  TicksPerSecond = 2
  Ttl = 2
  MaxTick = 4
  MaxTokens = 2
  MaxPublished = 2
  MaxParts = 1
INVARIANTS TypeOK AcceptedWereIssued LivesItsTtl ListedKeysVerify EnvelopesReadBack
CHECK_DEADLOCK FALSE
