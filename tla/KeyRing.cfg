SPECIFICATION Spec
CONSTANTS
  k1 = k1
  k2 = k2
  k3 = k3
  r1 = r1
  r2 = r2
  s1 = s1
  v1 = v1
  v2 = v2
  NoKey = NoKey
  Key = {k1, k2, k3}
  Rotator = {r1, r2}
  Signer = {s1}
  Verifier = {v1, v2}
SYMMETRY Symmetry
INVARIANTS TypeOK NoFalseMismatch LoadedKeyKept
