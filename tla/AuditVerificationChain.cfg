SPECIFICATION Spec
CONSTANTS
  k1 = k1
  k2 = k2
  NoKey = NoKey
  Key = {k1, k2}
  Body <- ChainBodies
  Values <- ChainValues
  MaxPk = 3
  MaxCpPk = 0
  MaxEdits = 2
SYMMETRY Symmetry
INVARIANTS TypeOK ReportsRight IntactRowsWereIssued UneditedIntactWhileKeysHeld
