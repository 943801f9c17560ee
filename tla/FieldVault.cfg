SPECIFICATION Spec
CONSTANTS
  p1 = p1
  note = note
  history = history
  v1 = v1
  v2 = v2
  doc = doc
  Null = Null
  Raised = Raised
  Process = {p1}
  Deployment <- MCDeployment
  Cell = {note, history}
  TextCell = {note}
  Context <- MCContext
  Value = {v1, v2, doc}
  ValueOf <- MCValueOf
  Key <- MCKey
  DevKey <- MCDevKey
  KeySize = 2
SYMMETRY Symmetry
INVARIANTS SavedTextSurvives TypeOK ReadsWereSaved SameKeyReads
