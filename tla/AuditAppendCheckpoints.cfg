SPECIFICATION FairSpec
CONSTANTS
  p1 = p1
  p2 = p2
  p3 = p3
  t1 = t1
  t2 = t2
  k1 = k1
  k2 = k2
  k3 = k3
  b1 = b1
  b2 = b2
  NoKey = NoKey
  NoSession = NoSession
  NoBody = NoBody
  Key = {k1}
  Body = {b1}
  Session = {p1, p2}
  Table = {t1, t2}
  LockId <- LockIds
  LockOf <- OwnLocks
  ReadBack <- OneChanges
  Nested = TRUE
  MaxPk <- FirstTableOnly
  MaxCpPk = 2
  MaxRotations = 0
INVARIANTS CheckpointsLinked CheckpointsDescribePrefixes
PROPERTIES ImplementsLedger CallsEnd
