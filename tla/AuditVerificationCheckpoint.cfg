SPECIFICATION Spec
CONSTANTS
  k1 = k1
  k2 = k2
  NoKey = NoKey
  Key = {k1}
  Body <- CheckpointBodies
  Values <- CheckpointValues
  MaxPk = 2
  MaxCpPk = 2
  MaxEdits = 2
SYMMETRY Symmetry
INVARIANTS UneditedIntactWhileKeysHeld ValidCheckpointPinsTable ValidCheckpointsComplete UneditedCheckpointValidUntilAppend
